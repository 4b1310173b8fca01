-------------------------- MODULE ReplicationProofs --------------------------
(* What replication and garbage collection promise for any objects, targets,  *)
(* writers, operators and concurrent replications.                            *)
EXTENDS Replication, TLAPS

-----------------------------------------------------------------------------
(* The inductive invariant                                                    *)

ProbeStages == {"probe_fill", "probe_compare", "probe_manifest", "probe_read", "clobber",
                "reread", "delete", "gone", "kept"}
ObjectStages == {"copy_put", "copy_fill", "readback"}
TargetStages == ObjectStages \cup {"copy"}
CopyStages == TargetStages \cup {"target"}

\* A probe works on the sentinel of its target; a copy works on an object of the snapshot,
\* for a target that is not verified yet.
StageOK(s) ==
  /\ s.pc \in ProbeStages => s.target \in Targets /\ s.key = s.target
  /\ s.pc \in TargetStages => s.target \in s.left /\ s.todo \subseteq Snapshotted(s)
  /\ s.pc \in ObjectStages => s.key \in s.todo
Staged ==
  /\ \A r \in Replicators : StageOK(rep[r])
  /\ \A w \in Writers : writer[w].pc # "idle" => writer[w].key \in Objects

\* Replication s has read object k back from target t.
Verified(s, t, k) ==
  /\ s.pc \in CopyStages
  /\ s.snapshot[k] # Unknown
  /\ t \notin s.left \/ (s.pc # "target" /\ t = s.target /\ k \notin s.todo)
Copied ==
  \A r \in Replicators, t \in Targets, k \in Objects :
    Verified(rep[r], t, k) => blobs[t][k] = Whole(rep[r].snapshot[k])

IInv == TypeOK /\ Staged /\ Copied /\ ReplicasAreExact

\* The same with the collectors kept away from the writers.
WritersKnow ==
  \A w \in Writers :
    /\ writer[w].pc = "fill" => blobs[Source][writer[w].key].owner = w
    /\ writer[w].pc = "written" => Readable(Source, writer[w].key)
Excluded == (\E c \in Collectors : gc[c].pc # "idle") => WritersQuiet
KeptInv == WritersKnow /\ Excluded /\ DeletionsAreUnreferenced /\ ReferencedIsReadable

-----------------------------------------------------------------------------
(* Steps on the files                                                         *)

\* A complete replica of an object stays what it is.
KeepsReplicas ==
  \A t \in Targets, k \in Objects :
    blobs[t][k].state = "whole" => blobs'[t][k] = blobs[t][k]

KeepsWhole ==
  \A b \in Backends, k \in Keys : blobs[b][k].state = "whole" =>
    \/ blobs'[b][k] = blobs[b][k]
    \/ blobs'[b][k] = Absent /\ (b = Source \/ k = b)

LEMMA Names ==
  /\ Source \in Backends /\ Source \notin Targets
  /\ Targets \subseteq Backends /\ Targets \subseteq Keys /\ Objects \subseteq Keys
  /\ \A t \in Targets : t \notin Objects
  /\ \A p \in Writers \cup Replicators : p # Nobody
  /\ \A p \in Writers : p \notin Replicators
BY NamesAssumption DEF Backends, Keys

LEMMA FormsOK == Unknown \notin Forms
BY DEF Unknown, Forms

\* Complete files are never overwritten, and only the source and the sentinels lose any.
LEMMA WholeGivesReplicas == KeepsWhole => KeepsReplicas
BY Names DEF KeepsWhole, KeepsReplicas

\* put_if_absent creates only where nothing is.
LEMMA CreateFacts ==
  ASSUME TypeOK, NEW b \in Backends, NEW k \in Keys, NEW form \in Forms,
         NEW p \in Writers \cup Replicators, ~ Present(b, k), Create(b, k, form, p)
  PROVE  /\ blobs' \in [Backends -> [Keys -> Blobs]]
         /\ KeepsWhole
         /\ blobs'[b][k] = Partial(form, p)
         /\ \A c \in Backends, j \in Keys : c # b \/ j # k => blobs'[c][j] = blobs[c][j]
<1>1. blobs \in [Backends -> [Keys -> Blobs]]
  BY DEF TypeOK, StoreTypeOK
<1>2. Partial(form, p) \in Blobs
  BY DEF Partial, Blobs
<1>3. blobs[b][k].state = "absent"
  BY DEF Present
<1> QED
  BY <1>1, <1>2, <1>3 DEF Create, KeepsWhole

\* Writing the bytes completes the file the process still holds by name, if any.
LEMMA FillFacts ==
  ASSUME TypeOK, NEW b \in Backends, NEW k \in Keys, NEW p \in Writers \cup Replicators,
         FillIn(b, k, p)
  PROVE  /\ blobs' \in [Backends -> [Keys -> Blobs]]
         /\ KeepsWhole
         /\ blobs'[b][k] = IF blobs[b][k].owner = p THEN Whole(blobs[b][k].form)
                                                    ELSE blobs[b][k]
         /\ \A c \in Backends, j \in Keys : c # b \/ j # k => blobs'[c][j] = blobs[c][j]
<1>1. blobs \in [Backends -> [Keys -> Blobs]]
  BY DEF TypeOK, StoreTypeOK
<1>2. blobs[b][k] \in Blobs
  BY <1>1
<1>3. Whole(blobs[b][k].form) \in Blobs
  BY <1>2 DEF Whole, Blobs
<1>4. blobs[b][k].owner = p => blobs[b][k].state = "partial"
  BY Names DEF TypeOK
<1>5. CASE blobs[b][k].owner = p
  <2>1. blobs' = [blobs EXCEPT ![b][k] = Whole(@.form)]
    BY <1>5 DEF FillIn
  <2> QED
    BY <2>1, <1>1, <1>3, <1>4, <1>5 DEF KeepsWhole
<1>6. CASE blobs[b][k].owner # p
  BY <1>1, <1>6 DEF FillIn, KeepsWhole
<1> QED
  BY <1>5, <1>6

\* A process that stops leaves its file as it is.
LEMMA OrphanFacts ==
  ASSUME TypeOK, NEW p \in Writers \cup Replicators, blobs' = Orphaned(p)
  PROVE  /\ blobs' \in [Backends -> [Keys -> Blobs]]
         /\ KeepsWhole
         /\ \A c \in Backends, j \in Keys :
              /\ blobs'[c][j].state = blobs[c][j].state
              /\ blobs[c][j].owner # p => blobs'[c][j] = blobs[c][j]
              /\ blobs[c][j].owner = p => blobs'[c][j].owner = Nobody
<1>1. blobs \in [Backends -> [Keys -> Blobs]]
  BY DEF TypeOK, StoreTypeOK
<1>2. ASSUME NEW c \in Backends, NEW j \in Keys
      PROVE  /\ blobs'[c][j] \in Blobs
             /\ blobs'[c][j].state = blobs[c][j].state
             /\ blobs[c][j].owner # p => blobs'[c][j] = blobs[c][j]
             /\ blobs[c][j].owner = p => blobs'[c][j].owner = Nobody
  <2>1. blobs[c][j] \in Blobs
    BY <1>1
  <2>2. blobs'[c][j] = IF blobs[c][j].owner = p THEN [blobs[c][j] EXCEPT !.owner = Nobody]
                                                ELSE blobs[c][j]
    BY DEF Orphaned
  <2> QED
    BY <2>1, <2>2 DEF Blobs
<1>3. blobs' \in [Backends -> [Keys -> Blobs]]
  BY <1>2 DEF Orphaned
<1>4. \A c \in Backends, j \in Keys : blobs[c][j].state = "whole" => blobs[c][j].owner # p
  BY Names DEF TypeOK
<1>5. KeepsWhole
  BY <1>2, <1>4 DEF KeepsWhole
<1> QED
  BY <1>2, <1>3, <1>5

-----------------------------------------------------------------------------
(* One replicator moves                                                       *)

\* Owners of the files after a step of process p: p owns at most file k of b, and the
\* others own what they owned.
Owners(p, own, b, k) ==
  \A c \in Backends, j \in Keys :
    LET q == blobs'[c][j].owner IN
    /\ q # Nobody => blobs'[c][j].state = "partial"
    /\ q = p => own /\ c = b /\ j = k
    /\ q # Nobody /\ q # p => blobs[c][j].owner = q

Fills == {"probe_fill", "copy_fill"}

LEMMA RepMoves ==
  ASSUME IInv, NEW r \in Replicators, NEW s \in RepStates,
         rep' = [rep EXCEPT ![r] = s], UNCHANGED <<writer, gc, refs, receipts>>,
         aborts' \in 0 .. MaxAborts,
         blobs' \in [Backends -> [Keys -> Blobs]], KeepsReplicas,
         Owners(r, s.pc \in Fills, s.target, s.key),
         StageOK(s),
         \A t \in Targets, k \in Objects :
           Verified(s, t, k) => blobs'[t][k] = Whole(s.snapshot[k])
  PROVE  IInv'
<1>1. rep' \in [Replicators -> RepStates] /\ rep'[r] = s
      /\ \A q \in Replicators : q # r => rep'[q] = rep[q]
  BY DEF IInv, TypeOK
<1>2. TypeOK'
  <2>1. StoreTypeOK'
    BY DEF IInv, TypeOK, StoreTypeOK
  <2>2. (receipts \subseteq Receipts)'
    BY DEF IInv, TypeOK
  <2>3. ASSUME NEW b \in Backends, NEW k \in Keys
        PROVE  LET p == blobs'[b][k].owner IN
               /\ p # Nobody => blobs'[b][k].state = "partial"
               /\ p \in Writers =>
                    writer'[p].pc = "fill" /\ b = Source /\ k = writer'[p].key
               /\ p \in Replicators => /\ rep'[p].pc \in {"probe_fill", "copy_fill"}
                                       /\ b = rep'[p].target /\ k = rep'[p].key
    <3> DEFINE p == blobs'[b][k].owner
    <3>1. /\ p # Nobody => blobs'[b][k].state = "partial"
          /\ p = r => s.pc \in Fills /\ b = s.target /\ k = s.key
          /\ p # Nobody /\ p # r => blobs[b][k].owner = p
      BY DEF Owners
    <3>2. /\ p \in Writers /\ blobs[b][k].owner = p =>
               writer[p].pc = "fill" /\ b = Source /\ k = writer[p].key
          /\ p \in Replicators /\ blobs[b][k].owner = p =>
               /\ rep[p].pc \in {"probe_fill", "copy_fill"}
               /\ b = rep[p].target /\ k = rep[p].key
      BY DEF IInv, TypeOK
    <3>3. p \in Writers => p # r /\ p # Nobody
      BY Names
    <3>4. p \in Replicators => p # Nobody
      BY Names
    <3> QED
      BY <3>1, <3>2, <3>3, <3>4, <1>1 DEF Fills
  <2> QED
    BY <1>1, <2>1, <2>2, <2>3 DEF TypeOK
<1>3. Staged'
  BY <1>1 DEF IInv, Staged, StageOK, Snapshotted
<1>4. Copied'
  <2>1. SUFFICES ASSUME NEW q \in Replicators, NEW t \in Targets, NEW k \in Objects,
                        Verified(rep'[q], t, k)
                 PROVE  blobs'[t][k] = Whole(rep'[q].snapshot[k])
    BY DEF Copied, Verified
  <2>2. CASE q = r
    BY <1>1, <2>1, <2>2
  <2>3. CASE q # r
    <3>1. rep'[q] = rep[q]
      BY <1>1, <2>3
    <3>2. blobs[t][k] = Whole(rep[q].snapshot[k])
      BY <3>1, <2>1 DEF IInv, Copied
    <3> QED
      BY <3>1, <3>2 DEF KeepsReplicas, Whole
  <2> QED
    BY <2>2, <2>3
<1>5. ReplicasAreExact'
  BY DEF IInv, ReplicasAreExact, KeepsReplicas, Whole
<1> QED
  BY <1>2, <1>3, <1>4, <1>5 DEF IInv

\* A replicator that is not writing owns nothing.
LEMMA NotWriting ==
  ASSUME IInv, NEW r \in Replicators, rep[r].pc \notin Fills, UNCHANGED blobs,
         NEW s
  PROVE  Owners(r, s.pc \in Fills, s.target, s.key)
<1>1. \A c \in Backends, j \in Keys :
        /\ blobs[c][j].owner # Nobody => blobs[c][j].state = "partial"
        /\ blobs[c][j].owner # r
  BY DEF IInv, TypeOK, Fills
<1> QED
  BY <1>1 DEF Owners

\* Stepping on without touching a file, with nothing newly verified.
LEMMA RepLooks ==
  ASSUME IInv, NEW r \in Replicators, NEW s \in RepStates, rep[r].pc \notin Fills,
         RepGoes(r, s), UNCHANGED blobs, StageOK(s),
         \A t \in Targets, k \in Objects :
           Verified(s, t, k) => blobs[t][k] = Whole(s.snapshot[k])
  PROVE  IInv'
<1>1. Owners(r, s.pc \in Fills, s.target, s.key)
  BY NotWriting
<1>2. blobs \in [Backends -> [Keys -> Blobs]] /\ aborts \in 0 .. MaxAborts
  BY DEF IInv, TypeOK, StoreTypeOK
<1>3. KeepsReplicas
  BY DEF KeepsReplicas
<1> QED
  BY <1>1, <1>2, <1>3, RepMoves DEF RepGoes

LEMMA IdleFacts ==
  /\ RepIdle \in RepStates
  /\ StageOK(RepIdle)
  /\ \A t, k : ~ Verified(RepIdle, t, k)
<1>1. RepIdle \in RepStates
  BY Names DEF RepIdle, RepStates, RepStages, Unknown
<1> QED
  BY <1>1 DEF RepIdle, StageOK, Verified, ProbeStages, ObjectStages, TargetStages, CopyStages

\* Going on only if the file is what it must be.
LEMMA RepRequires ==
  ASSUME IInv, NEW r \in Replicators, NEW s \in RepStates, NEW expected \in BOOLEAN,
         rep[r].pc \notin Fills, Requires(r, expected, s),
         expected => StageOK(s) /\ \A t \in Targets, k \in Objects :
                       Verified(s, t, k) => blobs[t][k] = Whole(s.snapshot[k])
  PROVE  IInv'
<1>1. CASE expected
  BY <1>1, RepLooks DEF Requires
<1>2. CASE ~ expected
  BY <1>2, RepLooks, IdleFacts DEF Requires, RepRaises
<1> QED
  BY <1>1, <1>2

-----------------------------------------------------------------------------
(* Every action of a replication                                              *)

\* What the invariant says of one replicator.
LEMMA RepState ==
  ASSUME IInv, NEW r \in Replicators
  PROVE  /\ rep[r] \in RepStates /\ StageOK(rep[r])
         /\ blobs \in [Backends -> [Keys -> Blobs]]
         /\ aborts \in 0 .. MaxAborts
         /\ \A t \in Targets, k \in Objects :
              Verified(rep[r], t, k) => blobs[t][k] = Whole(rep[r].snapshot[k])
BY DEF IInv, TypeOK, StoreTypeOK, Staged, Copied

\* The stages in which nothing is verified yet.
LEMMA EarlyVerifiesNothing ==
  ASSUME NEW s, s.pc \notin CopyStages
  PROVE  \A t \in Targets, k \in Objects : ~ Verified(s, t, k)
BY DEF Verified

LEMMA SnapshotStep ==
  ASSUME IInv, NEW r \in Replicators,
         ListSource(r) \/ SnapshotObject(r) \/ SnapshotTaken(r)
  PROVE  IInv'
<1> USE RepState DEF RepStates, RepStages
<1>1. CASE ListSource(r)
  <2>1. PICK worm \in BOOLEAN :
          RepGoes(r, [RepIdle EXCEPT !.pc = "snapshot", !.worm = worm,
                                     !.todo = {k \in Keys : Present(Source, k)}])
    BY <1>1 DEF ListSource
  <2> DEFINE s == [RepIdle EXCEPT !.pc = "snapshot", !.worm = worm,
                                  !.todo = {k \in Keys : Present(Source, k)}]
  <2>2. s \in RepStates /\ s.pc = "snapshot"
    BY IdleFacts DEF RepIdle
  <2>3. StageOK(s)
    BY <2>2 DEF StageOK, ProbeStages, ObjectStages, TargetStages, CopyStages
  <2>4. \A t \in Targets, k \in Objects : ~ Verified(s, t, k)
    BY <2>2 DEF Verified, CopyStages, TargetStages, ObjectStages
  <2>5. rep[r].pc \notin Fills /\ UNCHANGED blobs
    BY <1>1 DEF ListSource, Fills
  <2> QED
    BY <2>1, <2>2, <2>3, <2>4, <2>5, RepLooks
<1>2. CASE SnapshotObject(r)
  <2>1. PICK k \in rep[r].todo :
          Requires(r, Readable(Source, k),
                   [rep[r] EXCEPT !.todo = @ \ {k}, !.snapshot[k] = blobs[Source][k].form])
    BY <1>2 DEF SnapshotObject
  <2> DEFINE s == [rep[r] EXCEPT !.todo = @ \ {k}, !.snapshot[k] = blobs[Source][k].form]
  <2>2. s \in RepStates /\ s.pc = "snapshot"
    <3>1. k \in Keys /\ blobs[Source][k].form \in Forms
      BY Names DEF Blobs
    <3> QED
      BY <3>1, <1>2 DEF SnapshotObject
  <2>3. StageOK(s)
    BY <2>2 DEF StageOK, ProbeStages, ObjectStages, TargetStages, CopyStages
  <2>4. \A t \in Targets, j \in Objects : ~ Verified(s, t, j)
    BY <2>2 DEF Verified, CopyStages, TargetStages, ObjectStages
  <2>5. rep[r].pc \notin Fills
    BY <1>2 DEF SnapshotObject, Fills
  <2>6. Readable(Source, k) \in BOOLEAN
    BY DEF Readable
  <2>7. Requires(r, Readable(Source, k), s)
    BY <2>1
  <2> HIDE DEF s, RepStates, RepStages
  <2> QED
    BY <2>2, <2>3, <2>4, <2>5, <2>6, <2>7, RepRequires
<1>3. CASE SnapshotTaken(r)
  <2> DEFINE s == [rep[r] EXCEPT !.pc = "probe", !.left = Targets]
  <2>1. s \in RepStates /\ s.pc = "probe"
    OBVIOUS
  <2>2. StageOK(s)
    BY <2>1 DEF StageOK, ProbeStages, ObjectStages, TargetStages, CopyStages
  <2>3. \A t \in Targets, k \in Objects : ~ Verified(s, t, k)
    BY <2>1 DEF Verified, CopyStages, TargetStages, ObjectStages
  <2>4. rep[r].pc \notin Fills /\ RepGoes(r, s) /\ UNCHANGED blobs
    BY <1>3 DEF SnapshotTaken, Fills
  <2> QED
    BY <2>1, <2>2, <2>3, <2>4, RepLooks
<1> QED
  BY <1>1, <1>2, <1>3

\* The stages of a probe that only look at the sentinel.
LEMMA ProbeLooks ==
  ASSUME IInv, NEW r \in Replicators,
         \/ ProbeCompare(r) \/ ProbeManifest(r) \/ ProbeRead(r) \/ Reread(r)
         \/ CheckGone(r) \/ CheckKept(r)
  PROVE  IInv'
<1> DEFINE To(stage) == [rep[r] EXCEPT !.pc = stage]
<1>1. rep[r].pc \in ProbeStages /\ rep[r].pc \notin Fills
  BY DEF ProbeCompare, ProbeManifest, ProbeRead, Reread, CheckGone, CheckKept, ProbeStages, Fills
<1>2. rep[r].target \in Targets /\ rep[r].key = rep[r].target
  BY <1>1, RepState DEF StageOK
<1>3. ASSUME NEW stage \in {"probe_manifest", "probe_read", "clobber", "delete"}
      PROVE  /\ To(stage) \in RepStates
             /\ StageOK(To(stage))
             /\ \A t \in Targets, k \in Objects : ~ Verified(To(stage), t, k)
  <2>1. To(stage) \in RepStates /\ To(stage).pc = stage
        /\ To(stage).target = rep[r].target /\ To(stage).key = rep[r].key
    BY RepState DEF RepStates, RepStages
  <2> QED
    BY <2>1, <1>2 DEF StageOK, Verified, ProbeStages, ObjectStages, TargetStages, CopyStages
<1>4. Sentinel(r) \in BOOLEAN /\ Present(rep[r].target, rep[r].key) \in BOOLEAN
  BY DEF Sentinel, Readable, Present
<1>5. CASE ProbeCompare(r)
  BY <1>1, <1>3, <1>4, <1>5, RepRequires DEF ProbeCompare
<1>6. CASE ProbeManifest(r)
  BY <1>1, <1>3, <1>4, <1>6, RepRequires DEF ProbeManifest
<1>7. CASE ProbeRead(r)
  BY <1>1, <1>3, <1>4, <1>7, RepRequires DEF ProbeRead
<1>8. CASE Reread(r)
  BY <1>1, <1>3, <1>4, <1>8, RepRequires DEF Reread
<1>9. NextProbe(r) \in RepStates /\ NextProbe(r).pc = "probe"
  BY RepState DEF NextProbe, RepStates, RepStages
<1>10. CASE CheckGone(r)
  <2>1. StageOK(NextProbe(r))
    BY <1>9 DEF StageOK, ProbeStages, ObjectStages, TargetStages, CopyStages
  <2>2. \A t \in Targets, k \in Objects : ~ Verified(NextProbe(r), t, k)
    BY <1>9 DEF Verified, ObjectStages, TargetStages, CopyStages
  <2> QED
    BY <1>1, <1>4, <1>9, <1>10, <2>1, <2>2, RepRequires DEF CheckGone
<1>11. CASE CheckKept(r)
  <2> DEFINE s == [NextProbe(r) EXCEPT !.resist = @ \cup {rep[r].target}]
  <2>1. s \in RepStates /\ s.pc = "probe"
    BY <1>2, <1>9 DEF RepStates
  <2>2. StageOK(s)
    BY <2>1 DEF StageOK, ProbeStages, ObjectStages, TargetStages, CopyStages
  <2>3. \A t \in Targets, k \in Objects : ~ Verified(s, t, k)
    BY <2>1 DEF Verified, ObjectStages, TargetStages, CopyStages
  <2> QED
    BY <1>1, <1>4, <1>11, <2>1, <2>2, <2>3, RepRequires DEF CheckKept
<1> QED
  BY <1>5, <1>6, <1>7, <1>8, <1>10, <1>11

\* Creating a file: the replicator owns it and nothing else.
LEMMA RepCreates ==
  ASSUME IInv, NEW r \in Replicators, NEW s \in RepStates, NEW form \in Forms,
         rep[r].pc \notin Fills, s.pc \in Fills, s.key \in Keys,
         ~ Present(s.target, s.key), Create(s.target, s.key, form, r),
         RepGoes(r, s), StageOK(s),
         \A t \in Targets, k \in Objects :
           Verified(s, t, k) => blobs[t][k] = Whole(s.snapshot[k])
  PROVE  IInv'
<1>1. s.target \in Backends /\ TypeOK
  BY DEF RepStates, IInv
<1>2. /\ blobs' \in [Backends -> [Keys -> Blobs]]
      /\ KeepsWhole
      /\ blobs'[s.target][s.key] = Partial(form, r)
      /\ \A c \in Backends, j \in Keys :
           c # s.target \/ j # s.key => blobs'[c][j] = blobs[c][j]
  BY <1>1, CreateFacts
<1>3. \A c \in Backends, j \in Keys :
        /\ blobs[c][j].owner # Nobody => blobs[c][j].state = "partial"
        /\ blobs[c][j].owner # r
  BY DEF IInv, TypeOK, Fills
<1>4. Owners(r, s.pc \in Fills, s.target, s.key)
  BY <1>2, <1>3 DEF Owners, Partial
<1>5. KeepsReplicas
  BY <1>2, WholeGivesReplicas
<1>6. \A t \in Targets, k \in Objects :
        Verified(s, t, k) => blobs'[t][k] = Whole(s.snapshot[k])
  BY <1>5 DEF KeepsReplicas, Whole
<1>7. aborts' \in 0 .. MaxAborts
  BY RepState DEF RepGoes
<1> QED
  BY <1>2, <1>4, <1>5, <1>6, <1>7, RepMoves DEF RepGoes

\* Writing the bytes: the replicator owns nothing any more.
LEMMA RepFills ==
  ASSUME IInv, NEW r \in Replicators, NEW s \in RepStates, rep[r].pc \in Fills,
         rep[r].key \in Keys, s.pc \notin Fills, FillIn(rep[r].target, rep[r].key, r),
         RepGoes(r, s), StageOK(s),
         \A t \in Targets, k \in Objects :
           Verified(s, t, k) => blobs[t][k] = Whole(s.snapshot[k])
  PROVE  IInv'
<1> DEFINE b == rep[r].target  j == rep[r].key
<1>1. b \in Backends /\ j \in Keys /\ TypeOK
  BY RepState DEF RepStates, IInv
<1>2. /\ blobs' \in [Backends -> [Keys -> Blobs]]
      /\ KeepsWhole
      /\ blobs'[b][j] = IF blobs[b][j].owner = r THEN Whole(blobs[b][j].form)
                                                 ELSE blobs[b][j]
      /\ \A c \in Backends, i \in Keys : c # b \/ i # j => blobs'[c][i] = blobs[c][i]
  BY <1>1, FillFacts
<1>3. \A c \in Backends, i \in Keys :
        /\ blobs[c][i].owner # Nobody => blobs[c][i].state = "partial"
        /\ blobs[c][i].owner = r => c = b /\ i = j
  BY DEF IInv, TypeOK
<1>4. r # Nobody
  BY Names
<1>5. Owners(r, s.pc \in Fills, s.target, s.key)
  <2> SUFFICES ASSUME NEW c \in Backends, NEW i \in Keys
               PROVE  /\ blobs'[c][i].owner # Nobody => blobs'[c][i].state = "partial"
                      /\ blobs'[c][i].owner # r
                      /\ blobs'[c][i].owner # Nobody =>
                           blobs[c][i].owner = blobs'[c][i].owner
    BY DEF Owners
  <2>1. CASE c = b /\ i = j
    BY <1>2, <1>3, <1>4, <2>1 DEF Whole
  <2>2. CASE ~ (c = b /\ i = j)
    BY <1>2, <1>3, <2>2
  <2> QED
    BY <2>1, <2>2
<1>6. KeepsReplicas
  BY <1>2, WholeGivesReplicas
<1>7. \A t \in Targets, k \in Objects :
        Verified(s, t, k) => blobs'[t][k] = Whole(s.snapshot[k])
  BY <1>6 DEF KeepsReplicas, Whole
<1>8. aborts' \in 0 .. MaxAborts
  BY RepState DEF RepGoes
<1> QED
  BY <1>2, <1>5, <1>6, <1>7, <1>8, RepMoves DEF RepGoes

\* Removing the sentinel, or putting other bytes in its place.
LEMMA RepDisturbs ==
  ASSUME IInv, NEW r \in Replicators, NEW s \in RepStates, NEW x \in {Absent, Garbage},
         rep[r].pc \notin Fills, NEW b \in Targets,
         blobs' = [blobs EXCEPT ![b][b] = x],
         RepGoes(r, s), s.pc \notin CopyStages, StageOK(s)
  PROVE  IInv'
<1>1. blobs \in [Backends -> [Keys -> Blobs]] /\ b \in Backends /\ b \in Keys /\ b \notin Objects
  BY Names, RepState
<1>2. x \in Blobs /\ x.owner = Nobody
  BY DEF Blobs, Absent, Garbage, Forms
<1>3. blobs' \in [Backends -> [Keys -> Blobs]]
  BY <1>1, <1>2
<1>4. \A c \in Backends, j \in Keys :
        blobs'[c][j] = IF c = b /\ j = b THEN x ELSE blobs[c][j]
  BY <1>1
<1>5. \A c \in Backends, j \in Keys :
        /\ blobs[c][j].owner # Nobody => blobs[c][j].state = "partial"
        /\ blobs[c][j].owner # r
  BY DEF IInv, TypeOK, Fills
<1>6. r # Nobody
  BY Names
<1>7. Owners(r, s.pc \in Fills, s.target, s.key)
  BY <1>2, <1>4, <1>5, <1>6 DEF Owners
<1>8. KeepsReplicas
  BY <1>1, <1>4, Names DEF KeepsReplicas
<1>9. aborts' \in 0 .. MaxAborts
  BY RepState DEF RepGoes
<1>10. \A t \in Targets, k \in Objects : ~ Verified(s, t, k)
  BY DEF Verified
<1> QED
  BY <1>3, <1>7, <1>8, <1>9, <1>10, RepMoves DEF RepGoes

\* The stages of a probe that write to the target.
LEMMA ProbeWrites ==
  ASSUME IInv, NEW r \in Replicators,
         ProbePut(r) \/ ProbeFill(r) \/ Clobber(r) \/ DeleteSentinel(r)
  PROVE  IInv'
<1>1. CASE ProbePut(r)
  <2>1. PICK t \in rep[r].left :
          LET created == ~ Present(t, t) IN
          /\ RepGoes(r, [rep[r] EXCEPT !.pc = IF created THEN "probe_fill" ELSE "probe_compare",
                                       !.target = t, !.key = t])
          /\ IF created THEN Create(t, t, "none", r) ELSE UNCHANGED blobs
    BY <1>1 DEF ProbePut
  <2>2. t \in Targets /\ rep[r].pc \notin Fills
    BY RepState, <1>1 DEF RepStates, ProbePut, Fills
  <2> DEFINE s(stage) == [rep[r] EXCEPT !.pc = stage, !.target = t, !.key = t]
  <2>3. ASSUME NEW stage \in {"probe_fill", "probe_compare"}
        PROVE  /\ s(stage) \in RepStates /\ s(stage).pc = stage
               /\ s(stage).target = t /\ s(stage).key = t
    BY RepState, Names, <2>2 DEF RepStates, RepStages
  <2>4. ASSUME NEW stage \in {"probe_fill", "probe_compare"}
        PROVE  /\ StageOK(s(stage))
               /\ \A u \in Targets, k \in Objects : ~ Verified(s(stage), u, k)
    BY <2>2, <2>3
       DEF StageOK, Verified, ProbeStages, ObjectStages, TargetStages, CopyStages
  <2> HIDE DEF s
  <2>5. CASE Present(t, t)
    <3>1. RepGoes(r, s("probe_compare")) /\ UNCHANGED blobs
      BY <2>1, <2>5 DEF s
    <3> QED
      BY <2>2, <2>3, <2>4, <3>1, RepLooks
  <2>6. CASE ~ Present(t, t)
    <3>1. RepGoes(r, s("probe_fill")) /\ Create(t, t, "none", r)
      BY <2>1, <2>6 DEF s
    <3>2. "none" \in Forms /\ "probe_fill" \in Fills
      BY DEF Forms, Fills
    <3>3. t \in Keys
      BY <2>2, Names
    <3> QED
      BY <2>2, <2>3, <2>4, <2>6, <3>1, <3>2, <3>3, RepCreates
  <2> QED
    BY <2>5, <2>6
<1>2. ASSUME rep[r].pc \in ProbeStages,
             NEW stage \in {"probe_read", "reread", "gone", "kept"}
      PROVE  LET s == [rep[r] EXCEPT !.pc = stage] IN
             /\ s \in RepStates /\ s.pc = stage /\ StageOK(s)
             /\ \A t \in Targets, k \in Objects : ~ Verified(s, t, k)
             /\ rep[r].target \in Targets /\ rep[r].key = rep[r].target
  <2> DEFINE s == [rep[r] EXCEPT !.pc = stage]
  <2>1. rep[r].target \in Targets /\ rep[r].key = rep[r].target
    BY RepState, <1>2 DEF StageOK
  <2>2. s \in RepStates /\ s.pc = stage /\ s.target = rep[r].target /\ s.key = rep[r].key
    BY RepState, <1>2 DEF RepStates, RepStages
  <2> HIDE DEF s
  <2>3. StageOK(s) /\ \A t \in Targets, k \in Objects : ~ Verified(s, t, k)
    BY <1>2, <2>1, <2>2
       DEF StageOK, Verified, ProbeStages, ObjectStages, TargetStages, CopyStages
  <2> QED
    BY <2>1, <2>2, <2>3 DEF s
<1>3. CASE ProbeFill(r)
  <2>1. rep[r].pc \in ProbeStages /\ rep[r].pc \in Fills
    BY <1>3 DEF ProbeFill, ProbeStages, Fills
  <2>2. "probe_read" \notin Fills
    BY DEF Fills
  <2> QED
    BY <1>2, <1>3, <2>1, <2>2, RepFills, Names DEF ProbeFill
<1>4. CASE Clobber(r)
  <2>1. rep[r].pc \in ProbeStages /\ rep[r].pc \notin Fills
    BY <1>4 DEF Clobber, ProbeStages, Fills
  <2>2. CASE Present(rep[r].target, rep[r].key)
    BY <1>2, <1>4, <2>1, <2>2, RepLooks DEF Clobber
  <2>3. CASE ~ Present(rep[r].target, rep[r].key)
    <3>1. rep[r].target \in Targets /\ rep[r].key = rep[r].target
      BY <1>2, <2>1
    <3>2. RepIdle.pc \notin CopyStages
      BY DEF RepIdle, CopyStages, TargetStages, ObjectStages
    <3> QED
      BY <1>4, <2>1, <2>3, <3>1, <3>2, IdleFacts, RepDisturbs DEF Clobber, RepRaises
  <2> QED
    BY <2>2, <2>3
<1>5. CASE DeleteSentinel(r)
  <2> DEFINE removed == Present(rep[r].target, rep[r].key) /\ rep[r].target \notin Worm
  <2>1. rep[r].pc \in ProbeStages /\ rep[r].pc \notin Fills
    BY <1>5 DEF DeleteSentinel, ProbeStages, Fills
  <2>2. CASE removed
    <3>1. RepGoes(r, [rep[r] EXCEPT !.pc = "gone"]) /\ Remove(rep[r].target, rep[r].key)
      BY <1>5, <2>2 DEF DeleteSentinel
    <3>2. "gone" \notin CopyStages
      BY DEF CopyStages, TargetStages, ObjectStages
    <3> QED
      BY <1>2, <2>1, <3>1, <3>2, RepDisturbs DEF Remove
  <2>3. CASE ~ removed
    <3>1. RepGoes(r, [rep[r] EXCEPT !.pc = "kept"]) /\ UNCHANGED blobs
      BY <1>5, <2>3 DEF DeleteSentinel
    <3> QED
      BY <1>2, <2>1, <3>1, RepLooks
  <2> QED
    BY <2>2, <2>3
<1> QED
  BY <1>1, <1>3, <1>4, <1>5

\* Going from target to target.
LEMMA TargetSteps ==
  ASSUME IInv, NEW r \in Replicators, Probed(r) \/ NextTarget(r) \/ TargetVerified(r)
  PROVE  IInv'
<1>1. CASE Probed(r)
  <2> DEFINE s == [rep[r] EXCEPT !.pc = "target", !.left = Targets]
             ok == rep[r].worm => rep[r].resist = Targets
  <2>1. s \in RepStates /\ s.pc = "target" /\ s.left = Targets
    BY RepState DEF RepStates, RepStages
  <2>2. rep[r].pc \notin Fills /\ Requires(r, ok, s) /\ ok \in BOOLEAN
    BY <1>1, RepState DEF Probed, Fills, RepStates
  <2> HIDE DEF s, ok
  <2>3. StageOK(s)
    BY <2>1 DEF StageOK, ProbeStages, ObjectStages, TargetStages
  <2>4. \A t \in Targets, k \in Objects : ~ Verified(s, t, k)
    BY <2>1 DEF Verified
  <2> QED
    BY <2>1, <2>2, <2>3, <2>4, RepRequires
<1>2. CASE NextTarget(r)
  <2>1. PICK u \in rep[r].left :
          RepGoes(r, [rep[r] EXCEPT !.pc = "copy", !.target = u,
                                    !.todo = Snapshotted(rep[r])])
    BY <1>2 DEF NextTarget
  <2> DEFINE s == [rep[r] EXCEPT !.pc = "copy", !.target = u, !.todo = Snapshotted(rep[r])]
  <2>2. /\ s \in RepStates /\ s.pc = "copy" /\ s.target = u /\ s.todo = Snapshotted(rep[r])
        /\ s.left = rep[r].left /\ s.snapshot = rep[r].snapshot
    BY RepState, Names DEF RepStates, RepStages, Snapshotted
  <2>3. rep[r].pc = "target" /\ rep[r].pc \notin Fills /\ RepGoes(r, s) /\ UNCHANGED blobs
    BY <1>2, <2>1 DEF NextTarget, Fills
  <2> HIDE DEF s
  <2>4. StageOK(s)
    BY <2>2 DEF StageOK, ProbeStages, ObjectStages, TargetStages, Snapshotted
  <2>5. \A t \in Targets, k \in Objects :
          Verified(s, t, k) => Verified(rep[r], t, k)
    BY <2>2, <2>3, Names DEF Verified, CopyStages, Snapshotted
  <2> QED
    BY <2>2, <2>3, <2>4, <2>5, RepState, RepLooks
<1>3. CASE TargetVerified(r)
  <2> DEFINE s == [rep[r] EXCEPT !.pc = "target", !.left = @ \ {rep[r].target}]
  <2>1. /\ s \in RepStates /\ s.pc = "target" /\ s.left = rep[r].left \ {rep[r].target}
        /\ s.snapshot = rep[r].snapshot
    BY RepState DEF RepStates, RepStages
  <2>2. /\ rep[r].pc = "copy" /\ rep[r].todo = {} /\ rep[r].pc \notin Fills
        /\ RepGoes(r, s) /\ UNCHANGED blobs
    BY <1>3 DEF TargetVerified, Fills
  <2> HIDE DEF s
  <2>3. StageOK(s)
    BY <2>1 DEF StageOK, ProbeStages, ObjectStages, TargetStages
  <2>4. \A t \in Targets, k \in Objects :
          Verified(s, t, k) => Verified(rep[r], t, k)
    BY <2>1, <2>2 DEF Verified, CopyStages, TargetStages
  <2> QED
    BY <2>1, <2>2, <2>3, <2>4, RepState, RepLooks
<1> QED
  BY <1>1, <1>2, <1>3

\* Copying one object and reading it back.
LEMMA ObjectSteps ==
  ASSUME IInv, NEW r \in Replicators,
         CopyGet(r) \/ CopyPut(r) \/ CopyFill(r) \/ Readback(r)
  PROVE  IInv'
<1> DEFINE At(stage, k) == [rep[r] EXCEPT !.pc = stage, !.key = k]
<1>1. ASSUME rep[r].pc \in TargetStages,
             NEW stage \in ObjectStages, NEW k \in rep[r].todo
      PROVE  /\ At(stage, k) \in RepStates /\ At(stage, k).pc = stage /\ At(stage, k).key = k
             /\ At(stage, k).target = rep[r].target /\ StageOK(At(stage, k))
             /\ \A t \in Targets, j \in Objects :
                  Verified(At(stage, k), t, j) => blobs[t][j] = Whole(At(stage, k).snapshot[j])
  <2> DEFINE s == At(stage, k)
  <2>1. stage \in {"copy_put", "copy_fill", "readback"}
    BY DEF ObjectStages
  <2>2. /\ s \in RepStates /\ s.pc = stage /\ s.key = k /\ s.target = rep[r].target
        /\ s.snapshot = rep[r].snapshot /\ s.todo = rep[r].todo /\ s.left = rep[r].left
    BY <2>1, RepState DEF RepStates, RepStages
  <2> HIDE DEF At
  <2>3. StageOK(rep[r])
    BY RepState
  <2>4. StageOK(s)
    BY <1>1, <2>1, <2>2, <2>3 DEF StageOK, ProbeStages, ObjectStages, TargetStages, Snapshotted
  <2>5. \A t \in Targets, j \in Objects : Verified(s, t, j) => Verified(rep[r], t, j)
    BY <1>1, <2>2 DEF Verified, CopyStages, TargetStages, ObjectStages
  <2>6. \A t \in Targets, j \in Objects :
          Verified(s, t, j) => blobs[t][j] = Whole(s.snapshot[j])
    BY <2>2, <2>5, RepState
  <2> QED
    BY <2>2, <2>4, <2>6
<1>2. rep[r].pc \in ObjectStages =>
        /\ rep[r].key \in rep[r].todo /\ rep[r].key \in Keys
        /\ rep[r].snapshot[rep[r].key] \in Forms /\ rep[r].snapshot[rep[r].key] # Unknown
        /\ rep[r].target \in rep[r].left /\ rep[r].target \in Targets
        /\ \A stage : [rep[r] EXCEPT !.pc = stage] = At(stage, rep[r].key)
  BY RepState DEF StageOK, RepStates, ObjectStages, TargetStages, Snapshotted
<1>3. CASE CopyGet(r)
  <2>1. PICK k \in rep[r].todo :
          Requires(r, Readable(Source, k) /\ blobs[Source][k].form = rep[r].snapshot[k],
                   [rep[r] EXCEPT !.pc = "copy_put", !.key = k])
    BY <1>3 DEF CopyGet
  <2> DEFINE expected == Readable(Source, k) /\ blobs[Source][k].form = rep[r].snapshot[k]
  <2>2. expected \in BOOLEAN
    BY DEF Readable
  <2>3. rep[r].pc \notin Fills /\ rep[r].pc \in TargetStages /\ "copy_put" \in ObjectStages
    BY <1>3 DEF CopyGet, Fills, TargetStages, ObjectStages
  <2> HIDE DEF expected
  <2>4. Requires(r, expected, At("copy_put", k))
    BY <2>1 DEF expected
  <2> HIDE DEF At
  <2> QED
    BY <1>1, <2>2, <2>3, <2>4, RepRequires
<1>4. CASE CopyPut(r)
  <2>1. /\ rep[r].pc \notin Fills /\ rep[r].pc \in TargetStages /\ rep[r].pc \in ObjectStages
        /\ "copy_fill" \in ObjectStages /\ "readback" \in ObjectStages /\ "copy_fill" \in Fills
    BY <1>4 DEF CopyPut, Fills, TargetStages, ObjectStages
  <2>2. CASE Present(rep[r].target, rep[r].key)
    <3>1. RepGoes(r, At("readback", rep[r].key))
          /\ UNCHANGED blobs
      BY <1>2, <1>4, <2>1, <2>2 DEF CopyPut
    <3> HIDE DEF At
    <3> QED
      BY <1>1, <1>2, <2>1, <3>1, RepLooks
  <2>3. CASE ~ Present(rep[r].target, rep[r].key)
    <3>1. /\ RepGoes(r, At("copy_fill", rep[r].key))
          /\ Create(rep[r].target, rep[r].key, rep[r].snapshot[rep[r].key], r)
      BY <1>2, <1>4, <2>1, <2>3 DEF CopyPut
    <3> HIDE DEF At
    <3>2. At("copy_fill", rep[r].key) \in RepStates /\ StageOK(At("copy_fill", rep[r].key))
          /\ At("copy_fill", rep[r].key).pc = "copy_fill"
          /\ At("copy_fill", rep[r].key).target = rep[r].target
          /\ At("copy_fill", rep[r].key).key = rep[r].key
      BY <1>1, <1>2, <2>1
    <3>3. \A t \in Targets, k \in Objects :
            Verified(At("copy_fill", rep[r].key), t, k) =>
              blobs[t][k] = Whole(At("copy_fill", rep[r].key).snapshot[k])
      BY <1>1, <1>2, <2>1
    <3> QED
      BY <1>2, <2>1, <2>3, <3>1, <3>2, <3>3, RepCreates
  <2> QED
    BY <2>2, <2>3
<1>5. CASE CopyFill(r)
  <2>1. /\ rep[r].pc \in Fills /\ rep[r].pc \in TargetStages /\ rep[r].pc \in ObjectStages
        /\ "readback" \in ObjectStages /\ "readback" \notin Fills
    BY <1>5 DEF CopyFill, Fills, TargetStages, ObjectStages
  <2>2. /\ RepGoes(r, At("readback", rep[r].key))
        /\ FillIn(rep[r].target, rep[r].key, r)
    BY <1>2, <1>5, <2>1 DEF CopyFill
  <2> HIDE DEF At
  <2> QED
    BY <1>1, <1>2, <2>1, <2>2, RepFills
<1>6. CASE Readback(r)
  <2> DEFINE s == [rep[r] EXCEPT !.pc = "copy", !.todo = @ \ {rep[r].key}]
             expected == /\ Sentinel(r)
                         /\ blobs[rep[r].target][rep[r].key].form = rep[r].snapshot[rep[r].key]
  <2>1. /\ s \in RepStates /\ s.pc = "copy" /\ s.target = rep[r].target
        /\ s.snapshot = rep[r].snapshot /\ s.todo = rep[r].todo \ {rep[r].key}
        /\ s.left = rep[r].left
    BY RepState DEF RepStates, RepStages
  <2>2. /\ rep[r].pc \notin Fills /\ rep[r].pc \in TargetStages /\ rep[r].pc \in ObjectStages
        /\ Requires(r, expected, s)
    BY <1>6 DEF Readback, Fills, TargetStages, ObjectStages
  <2>3. expected \in BOOLEAN
    BY DEF Sentinel, Readable
  <2>4. expected => blobs[rep[r].target][rep[r].key] = Whole(rep[r].snapshot[rep[r].key])
    <3>1. SUFFICES ASSUME expected
                   PROVE  blobs[rep[r].target][rep[r].key] = Whole(rep[r].snapshot[rep[r].key])
      OBVIOUS
    <3> DEFINE x == blobs[rep[r].target][rep[r].key]
    <3>2. x \in Blobs
      BY <1>2, <2>2, RepState, Names
    <3>3. x.state = "whole" /\ x.form = rep[r].snapshot[rep[r].key]
      BY <3>1 DEF Sentinel, Readable
    <3>4. x.owner = Nobody
      <4>1. rep[r].target \in Backends /\ rep[r].key \in Keys
        BY <1>2, <2>2, Names
      <4>2. \A b \in Backends, k \in Keys :
              blobs[b][k].owner # Nobody => blobs[b][k].state = "partial"
        BY DEF IInv, TypeOK
      <4> QED
        BY <3>3, <4>1, <4>2
    <3> QED
      BY <3>2, <3>3, <3>4 DEF Blobs, Whole
  <2> HIDE DEF s, expected
  <2>5. StageOK(s)
    <3>1. StageOK(rep[r])
      BY RepState
    <3> QED
      BY <2>1, <2>2, <3>1 DEF StageOK, ProbeStages, ObjectStages, TargetStages, Snapshotted
  <2>6. \A t \in Targets, k \in Objects :
          Verified(s, t, k) =>
            Verified(rep[r], t, k) \/ (t = rep[r].target /\ k = rep[r].key)
    BY <2>1, <2>2 DEF Verified, CopyStages, TargetStages, ObjectStages
  <2>7. expected => \A t \in Targets, k \in Objects :
          Verified(s, t, k) => blobs[t][k] = Whole(s.snapshot[k])
    BY <2>1, <2>4, <2>6, RepState
  <2> QED
    BY <2>1, <2>2, <2>3, <2>5, <2>7, RepRequires
<1> QED
  BY <1>3, <1>4, <1>5, <1>6

\* The receipt is issued when every target has every object of the snapshot.
LEMMA ReceiptStep ==
  ASSUME IInv, NEW r \in Replicators, IssueReceipt(r)
  PROVE  IInv'
<1> DEFINE x == [worm |-> rep[r].worm, snapshot |-> rep[r].snapshot, resist |-> rep[r].resist]
<1>1. /\ rep[r].pc = "target" /\ rep[r].left = {} /\ receipts' = receipts \cup {x}
      /\ rep' = [rep EXCEPT ![r] = RepIdle] /\ UNCHANGED storeVars
  BY DEF IssueReceipt
<1>2. UNCHANGED <<blobs, writer, gc, refs, aborts>>
  BY <1>1 DEF storeVars
<1>3. /\ rep' \in [Replicators -> RepStates] /\ rep'[r] = RepIdle
      /\ \A q \in Replicators : q # r => rep'[q] = rep[q]
  BY <1>1, IdleFacts DEF IInv, TypeOK
<1>4. TypeOK'
  <2>1. x \in Receipts
    BY RepState DEF RepStates, Receipts
  <2>2. StoreTypeOK'
    BY <1>2 DEF IInv, TypeOK, StoreTypeOK
  <2>3. \A b \in Backends, k \in Keys : blobs[b][k].owner # r
    BY <1>1 DEF IInv, TypeOK
  <2> QED
    BY <1>1, <1>2, <1>3, <2>1, <2>2, <2>3 DEF IInv, TypeOK
<1>5. Staged'
  BY <1>2, <1>3, IdleFacts DEF IInv, Staged, StageOK, Snapshotted
<1>6. Copied'
  <2> SUFFICES ASSUME NEW q \in Replicators, NEW t \in Targets, NEW k \in Objects,
                      Verified(rep'[q], t, k)
               PROVE  blobs'[t][k] = Whole(rep'[q].snapshot[k])
    BY DEF Copied, Verified
  <2>1. q # r
    BY <1>3, IdleFacts
  <2> QED
    BY <1>2, <1>3, <2>1 DEF IInv, Copied
<1>7. ReplicasAreExact'
  <2>1. ASSUME NEW t \in Targets, NEW k \in Objects, x.snapshot[k] # Unknown
        PROVE  blobs[t][k] = Whole(x.snapshot[k])
    <3>1. Verified(rep[r], t, k)
      BY <1>1, <2>1 DEF Verified, CopyStages
    <3> QED
      BY <3>1, RepState
  <2> HIDE DEF x
  <2> QED
    BY <1>1, <1>2, <2>1 DEF IInv, ReplicasAreExact
<1> QED
  BY <1>4, <1>5, <1>6, <1>7 DEF IInv

LEMMA StopStep ==
  ASSUME IInv, NEW r \in Replicators, RepStops(r)
  PROVE  IInv'
<1>1. TypeOK
  BY DEF IInv
<1>2. /\ blobs' \in [Backends -> [Keys -> Blobs]]
      /\ KeepsWhole
      /\ \A c \in Backends, j \in Keys :
           /\ blobs'[c][j].state = blobs[c][j].state
           /\ blobs[c][j].owner # r => blobs'[c][j] = blobs[c][j]
           /\ blobs[c][j].owner = r => blobs'[c][j].owner = Nobody
  BY <1>1, OrphanFacts DEF RepStops
<1>3. \A c \in Backends, j \in Keys :
        blobs[c][j].owner # Nobody => blobs[c][j].state = "partial"
  BY <1>1 DEF TypeOK
<1>4. r # Nobody
  BY Names
<1>5. Owners(r, RepIdle.pc \in Fills, RepIdle.target, RepIdle.key)
  BY <1>2, <1>3, <1>4 DEF Owners
<1>6. KeepsReplicas
  BY <1>2, WholeGivesReplicas
<1>7. aborts' \in 0 .. MaxAborts
  BY RepState, ParametersAssumption DEF RepStops
<1> QED
  BY <1>2, <1>5, <1>6, <1>7, IdleFacts, RepMoves DEF RepStops

-----------------------------------------------------------------------------
(* Writers, collectors and callers                                            *)

WriterStates == [pc : WriterStages, key : Objects \cup {Source}, form : Forms]

\* A replicator never owns a file of the source.
LEMMA SourceOwners ==
  ASSUME IInv
  PROVE  \A k \in Keys, r \in Replicators : blobs[Source][k].owner # r
<1> SUFFICES ASSUME NEW k \in Keys, NEW r \in Replicators, blobs[Source][k].owner = r
             PROVE  FALSE
  OBVIOUS
<1>1. rep[r].pc \in {"probe_fill", "copy_fill"} /\ Source = rep[r].target
  BY Names DEF IInv, TypeOK
<1>2. rep[r].target \in Targets
  BY <1>1, RepState
     DEF StageOK, ProbeStages, TargetStages, ObjectStages, RepStates
<1> QED
  BY <1>1, <1>2, Names

\* A step of a writer.
LEMMA WriterMoves ==
  ASSUME IInv, NEW w \in Writers, NEW s \in WriterStates,
         writer' = [writer EXCEPT ![w] = s], UNCHANGED <<gc, rep, receipts>>,
         s.pc # "idle" => s.key \in Objects, refs' \subseteq Objects, aborts' \in 0 .. MaxAborts,
         blobs' \in [Backends -> [Keys -> Blobs]], KeepsReplicas,
         Owners(w, s.pc = "fill", Source, s.key)
  PROVE  IInv'
<1>1. writer' \in [Writers -> WriterStates] /\ writer'[w] = s
      /\ \A q \in Writers : q # w => writer'[q] = writer[q]
  BY DEF IInv, TypeOK, StoreTypeOK, WriterStates
<1>2. TypeOK'
  <2>1. StoreTypeOK'
    BY <1>1 DEF IInv, TypeOK, StoreTypeOK, WriterStates
  <2>2. (receipts \subseteq Receipts)' /\ rep' \in [Replicators -> RepStates]
    BY DEF IInv, TypeOK
  <2>3. ASSUME NEW b \in Backends, NEW k \in Keys
        PROVE  LET p == blobs'[b][k].owner IN
               /\ p # Nobody => blobs'[b][k].state = "partial"
               /\ p \in Writers =>
                    writer'[p].pc = "fill" /\ b = Source /\ k = writer'[p].key
               /\ p \in Replicators => /\ rep'[p].pc \in {"probe_fill", "copy_fill"}
                                       /\ b = rep'[p].target /\ k = rep'[p].key
    <3> DEFINE p == blobs'[b][k].owner
    <3>1. /\ p # Nobody => blobs'[b][k].state = "partial"
          /\ p = w => s.pc = "fill" /\ b = Source /\ k = s.key
          /\ p # Nobody /\ p # w => blobs[b][k].owner = p
      BY DEF Owners
    <3>2. /\ p \in Writers /\ blobs[b][k].owner = p =>
               writer[p].pc = "fill" /\ b = Source /\ k = writer[p].key
          /\ p \in Replicators /\ blobs[b][k].owner = p =>
               /\ rep[p].pc \in {"probe_fill", "copy_fill"}
               /\ b = rep[p].target /\ k = rep[p].key
      BY DEF IInv, TypeOK
    <3>3. p \in Replicators => p # w /\ p # Nobody
      BY Names
    <3>4. p \in Writers => p # Nobody
      BY Names
    <3> QED
      BY <3>1, <3>2, <3>3, <3>4, <1>1
  <2> QED
    BY <2>1, <2>2, <2>3 DEF TypeOK
<1>3. Staged'
  BY <1>1 DEF IInv, Staged, StageOK, Snapshotted
<1>4. Copied'
  BY DEF IInv, Copied, Verified, KeepsReplicas, Whole
<1>5. ReplicasAreExact'
  BY DEF IInv, ReplicasAreExact, KeepsReplicas, Whole
<1> QED
  BY <1>2, <1>3, <1>4, <1>5 DEF IInv

LEMMA WriterOwnsNothing ==
  ASSUME IInv, NEW w \in Writers, writer[w].pc # "fill", UNCHANGED blobs, NEW s
  PROVE  Owners(w, s.pc = "fill", Source, s.key)
<1>1. \A c \in Backends, j \in Keys :
        /\ blobs[c][j].owner # Nobody => blobs[c][j].state = "partial"
        /\ blobs[c][j].owner # w
  BY DEF IInv, TypeOK
<1> QED
  BY <1>1 DEF Owners

LEMMA WriterFacts ==
  ASSUME IInv, NEW w \in Writers
  PROVE  /\ writer[w] \in WriterStates /\ WriterIdle \in WriterStates
         /\ \A stage \in WriterStages : [writer[w] EXCEPT !.pc = stage] \in WriterStates
         /\ blobs \in [Backends -> [Keys -> Blobs]] /\ TypeOK
         /\ refs \subseteq Objects /\ aborts \in 0 .. MaxAborts
         /\ writer[w].pc # "idle" => writer[w].key \in Objects
<1>1. writer[w].pc # "idle" => writer[w].key \in Objects
  BY DEF IInv, Staged
<1> QED
  BY <1>1 DEF IInv, TypeOK, StoreTypeOK, WriterStates, WriterIdle, WriterStages, Forms

LEMMA WriterLooks ==
  ASSUME IInv, NEW w \in Writers,
         Compare(w) \/ Manifest(w) \/ Refer(w), UNCHANGED <<rep, receipts>>
  PROVE  IInv'
<1>1. PICK s \in WriterStates :
        /\ writer' = [writer EXCEPT ![w] = s]
        /\ s.pc # "idle" => s.key \in Objects
  <2>1. ASSUME writer[w].pc # "idle", NEW stage \in {"manifest", "written"}
        PROVE  LET s == [writer[w] EXCEPT !.pc = stage] IN
               /\ [writer EXCEPT ![w].pc = stage] = [writer EXCEPT ![w] = s]
               /\ s \in WriterStates /\ s.key \in Objects
    BY <2>1, WriterFacts DEF WriterStages, WriterStates
  <2>2. WriterIdle \in WriterStates /\ WriterIdle.pc = "idle"
    BY WriterFacts DEF WriterIdle
  <2>3. CASE Compare(w)
    BY <2>1, <2>2, <2>3 DEF Compare, WriterGoes, WriterRaises
  <2>4. CASE Manifest(w)
    BY <2>1, <2>2, <2>4 DEF Manifest, WriterGoes, WriterRaises
  <2>5. CASE Refer(w)
    BY <2>2, <2>5 DEF Refer
  <2> QED
    BY <2>3, <2>4, <2>5
<1>2. /\ writer[w].pc # "fill" /\ writer[w].pc # "idle"
      /\ UNCHANGED <<blobs, gc, aborts>>
  BY DEF Compare, Manifest, Refer, WriterGoes, WriterRaises
<1>3. refs' \subseteq Objects
  <2>1. CASE Refer(w)
    BY <1>2, <2>1, WriterFacts DEF Refer
  <2>2. CASE Compare(w) \/ Manifest(w)
    BY <2>2, WriterFacts DEF Compare, Manifest, WriterGoes, WriterRaises
  <2> QED
    BY <2>1, <2>2
<1>4. Owners(w, s.pc = "fill", Source, s.key)
  BY <1>2, WriterOwnsNothing
<1>5. KeepsReplicas /\ blobs' \in [Backends -> [Keys -> Blobs]] /\ aborts' \in 0 .. MaxAborts
  BY <1>2, WriterFacts DEF KeepsReplicas
<1>6. UNCHANGED <<gc, rep, receipts>>
  BY <1>2
<1> QED
  BY <1>1, <1>3, <1>4, <1>5, <1>6, WriterMoves

LEMMA WriterWrites ==
  ASSUME IInv, NEW w \in Writers,
         Put(w) \/ Fill(w) \/ WriterStops(w), UNCHANGED <<rep, receipts>>
  PROVE  IInv'
<1>1. CASE Put(w)
  <2>1. PICK k \in Objects, form \in Forms :
          LET created == ~ Present(Source, k) IN
          /\ writer' = [writer EXCEPT ![w] =
               [pc |-> IF created THEN "fill" ELSE "compare", key |-> k, form |-> form]]
          /\ IF created THEN Create(Source, k, form, w) ELSE UNCHANGED blobs
    BY <1>1 DEF Put
  <2> DEFINE s(stage) == [pc |-> stage, key |-> k, form |-> form]
  <2>2. writer[w].pc = "idle" /\ UNCHANGED <<gc, refs, aborts>>
    BY <1>1 DEF Put
  <2>3. \A stage \in {"fill", "compare"} :
          s(stage) \in WriterStates /\ s(stage).pc = stage /\ s(stage).key = k
    BY DEF WriterStates, WriterStages
  <2>4. k \in Keys /\ Source \in Backends
    BY Names
  <2> HIDE DEF s
  <2>5. CASE Present(Source, k)
    <3>1. writer' = [writer EXCEPT ![w] = s("compare")] /\ UNCHANGED blobs
      BY <2>1, <2>5 DEF s
    <3>2. Owners(w, s("compare").pc = "fill", Source, s("compare").key)
      BY <2>2, <3>1, WriterOwnsNothing
    <3>3. KeepsReplicas
      BY <3>1 DEF KeepsReplicas
    <3> QED
      BY <2>2, <2>3, <3>1, <3>2, <3>3, WriterFacts, WriterMoves
  <2>6. CASE ~ Present(Source, k)
    <3>1. writer' = [writer EXCEPT ![w] = s("fill")] /\ Create(Source, k, form, w)
      BY <2>1, <2>6 DEF s
    <3>2. /\ blobs' \in [Backends -> [Keys -> Blobs]]
          /\ KeepsWhole
          /\ blobs'[Source][k] = Partial(form, w)
          /\ \A c \in Backends, j \in Keys :
               c # Source \/ j # k => blobs'[c][j] = blobs[c][j]
      BY <2>4, <2>6, <3>1, WriterFacts, CreateFacts
    <3>3. \A c \in Backends, j \in Keys :
            /\ blobs[c][j].owner # Nobody => blobs[c][j].state = "partial"
            /\ blobs[c][j].owner # w
      BY <2>2 DEF IInv, TypeOK
    <3>4. Owners(w, s("fill").pc = "fill", Source, s("fill").key)
      BY <2>3, <3>2, <3>3 DEF Owners, Partial
    <3> QED
      BY <2>2, <2>3, <3>1, <3>2, <3>4, WholeGivesReplicas, WriterFacts, WriterMoves
  <2> QED
    BY <2>5, <2>6
<1>2. CASE Fill(w)
  <2> DEFINE s == [writer[w] EXCEPT !.pc = "written"]
             k == writer[w].key
  <2>1. /\ s \in WriterStates /\ s.pc = "written" /\ s.key = k /\ k \in Objects
        /\ writer' = [writer EXCEPT ![w] = s] /\ FillIn(Source, k, w)
        /\ UNCHANGED <<gc, refs, aborts>>
    BY <1>2, WriterFacts DEF Fill, WriterGoes, WriterStates, WriterStages
  <2>2. k \in Keys /\ Source \in Backends
    BY <2>1, Names
  <2> HIDE DEF s
  <2>3. /\ blobs' \in [Backends -> [Keys -> Blobs]]
        /\ KeepsWhole
        /\ blobs'[Source][k] = IF blobs[Source][k].owner = w THEN Whole(blobs[Source][k].form)
                                                            ELSE blobs[Source][k]
        /\ \A c \in Backends, i \in Keys :
             c # Source \/ i # k => blobs'[c][i] = blobs[c][i]
    BY <2>1, <2>2, WriterFacts, FillFacts
  <2>4. \A c \in Backends, i \in Keys :
          /\ blobs[c][i].owner # Nobody => blobs[c][i].state = "partial"
          /\ blobs[c][i].owner = w => c = Source /\ i = k
    BY DEF IInv, TypeOK
  <2>5. Owners(w, s.pc = "fill", Source, s.key)
    <3> SUFFICES ASSUME NEW c \in Backends, NEW i \in Keys
                 PROVE  /\ blobs'[c][i].owner # Nobody => blobs'[c][i].state = "partial"
                        /\ blobs'[c][i].owner # w
                        /\ blobs'[c][i].owner # Nobody =>
                             blobs[c][i].owner = blobs'[c][i].owner
      BY DEF Owners
    <3>1. CASE c = Source /\ i = k
      BY <2>3, <2>4, <3>1, Names DEF Whole
    <3>2. CASE ~ (c = Source /\ i = k)
      BY <2>3, <2>4, <3>2
    <3> QED
      BY <3>1, <3>2
  <2> QED
    BY <2>1, <2>3, <2>5, WholeGivesReplicas, WriterFacts, WriterMoves
<1>3. CASE WriterStops(w)
  <2>1. blobs' = Orphaned(w) /\ writer' = [writer EXCEPT ![w] = WriterIdle]
        /\ UNCHANGED <<gc, refs>> /\ aborts' = aborts + 1 /\ aborts < MaxAborts
    BY <1>3 DEF WriterStops
  <2>2. /\ blobs' \in [Backends -> [Keys -> Blobs]]
        /\ KeepsWhole
        /\ \A c \in Backends, j \in Keys :
             /\ blobs'[c][j].state = blobs[c][j].state
             /\ blobs[c][j].owner # w => blobs'[c][j] = blobs[c][j]
             /\ blobs[c][j].owner = w => blobs'[c][j].owner = Nobody
    BY <2>1, WriterFacts, OrphanFacts
  <2>3. \A c \in Backends, j \in Keys :
          blobs[c][j].owner # Nobody => blobs[c][j].state = "partial"
    BY DEF IInv, TypeOK
  <2>4. Owners(w, WriterIdle.pc = "fill", Source, WriterIdle.key)
    BY <2>2, <2>3, Names DEF Owners
  <2>5. aborts' \in 0 .. MaxAborts
    BY <2>1, WriterFacts, ParametersAssumption
  <2>6. WriterIdle.pc = "idle"
    BY DEF WriterIdle
  <2> QED
    BY <2>1, <2>2, <2>4, <2>5, <2>6, WholeGivesReplicas, WriterFacts, WriterMoves
<1> QED
  BY <1>1, <1>2, <1>3

CollectorStates == [pc : CollectorStages, refs : SUBSET Keys, candidates : SUBSET Keys]

CollectorStep(c) ==
  \/ SnapshotReferences(c) \/ PlanDeletion(c) \/ Confirm(c) \/ Delete(c)
  \/ CollectorDone(c) \/ GiveUpPlan(c)

\* What a step of garbage collection may change.
LEMMA CollectorFacts ==
  ASSUME IInv, NEW c \in Collectors, CollectorStep(c)
  PROVE  /\ gc' \in [Collectors -> CollectorStates]
         /\ \A d \in Collectors : d # c => gc'[d] = gc[d]
         /\ UNCHANGED <<writer, refs, aborts>>
         /\ blobs' \in [Backends -> [Keys -> Blobs]]
         /\ \A b \in Backends, k \in Keys :
              \/ blobs'[b][k] = blobs[b][k]
              \/ blobs'[b][k] = Absent /\ b = Source
                 /\ gc[c].pc = "delete" /\ k \in gc[c].candidates
<1> USE DEF CollectorGoes
<1>1. /\ gc \in [Collectors -> CollectorStates] /\ gc[c] \in CollectorStates
      /\ blobs \in [Backends -> [Keys -> Blobs]] /\ refs \subseteq Keys
  BY Names DEF IInv, TypeOK, StoreTypeOK, CollectorStates
<1>2. CollectorIdle \in CollectorStates
  BY DEF CollectorIdle, CollectorStates, CollectorStages
<1>3. CASE SnapshotReferences(c)
  <2>1. [pc |-> "plan", refs |-> refs, candidates |-> {}] \in CollectorStates
    BY <1>1 DEF CollectorStates, CollectorStages
  <2> QED
    BY <1>1, <1>3, <2>1 DEF SnapshotReferences
<1>4. CASE PlanDeletion(c)
  <2> DEFINE s == [gc[c] EXCEPT !.pc = "confirm",
                                !.candidates = {k \in Keys : Present(Source, k)} \ gc[c].refs]
  <2>1. s \in CollectorStates
    BY <1>1 DEF CollectorStates, CollectorStages
  <2>2. gc' = [gc EXCEPT ![c] = s] /\ UNCHANGED <<blobs, writer, refs, aborts>>
    BY <1>4 DEF PlanDeletion
  <2> HIDE DEF s
  <2> QED
    BY <1>1, <2>1, <2>2
<1>5. CASE Confirm(c)
  <2>1. [gc[c] EXCEPT !.pc = "delete"] \in CollectorStates
    BY <1>1 DEF CollectorStates, CollectorStages
  <2> QED
    BY <1>1, <1>2, <1>5, <2>1 DEF Confirm
<1>6. CASE Delete(c)
  <2>1. PICK k \in gc[c].candidates :
          Remove(Source, k) /\ gc' = [gc EXCEPT ![c] = [gc[c] EXCEPT !.candidates = @ \ {k}]]
          /\ UNCHANGED <<writer, refs, aborts>>
    BY <1>6 DEF Delete
  <2>2. [gc[c] EXCEPT !.candidates = @ \ {k}] \in CollectorStates /\ k \in Keys
    BY <1>1 DEF CollectorStates
  <2>3. Absent \in Blobs
    BY DEF Absent, Blobs, Forms
  <2>4. Source \in Backends
    BY Names
  <2>5. gc[c].pc = "delete"
    BY <1>6 DEF Delete
  <2> QED
    BY <1>1, <2>1, <2>2, <2>3, <2>4, <2>5 DEF Remove
<1>7. CASE CollectorDone(c) \/ GiveUpPlan(c)
  BY <1>1, <1>2, <1>7 DEF CollectorDone, GiveUpPlan
<1> QED
  BY <1>3, <1>4, <1>5, <1>6, <1>7 DEF CollectorStep

LEMMA CollectorMoves ==
  ASSUME IInv, NEW c \in Collectors, CollectorStep(c), UNCHANGED <<rep, receipts>>
  PROVE  IInv'
<1>1. /\ gc' \in [Collectors -> CollectorStates]
      /\ UNCHANGED <<writer, refs, aborts>>
      /\ blobs' \in [Backends -> [Keys -> Blobs]]
      /\ \A b \in Backends, k \in Keys :
           blobs'[b][k] = blobs[b][k] \/ (blobs'[b][k] = Absent /\ b = Source)
  BY CollectorFacts
<1>2. TypeOK'
  <2>1. StoreTypeOK'
    BY <1>1 DEF IInv, TypeOK, StoreTypeOK, CollectorStates
  <2>2. Absent.owner = Nobody
    BY DEF Absent
  <2> QED
    BY <1>1, <2>1, <2>2, Names DEF IInv, TypeOK
<1>3. \A t \in Targets, k \in Objects : blobs'[t][k] = blobs[t][k]
  BY <1>1, Names
<1>4. Staged'
  BY <1>1 DEF IInv, Staged, StageOK, Snapshotted
<1>5. Copied'
  BY <1>1, <1>3 DEF IInv, Copied, Verified
<1>6. ReplicasAreExact'
  BY <1>1, <1>3 DEF IInv, ReplicasAreExact
<1> QED
  BY <1>2, <1>4, <1>5, <1>6 DEF IInv

LEMMA CallerLetsGo ==
  ASSUME IInv, LetGo, UNCHANGED <<rep, receipts>>
  PROVE  IInv'
<1>1. UNCHANGED <<blobs, writer, gc, aborts>> /\ refs' \subseteq refs
  BY DEF LetGo
<1> QED
  BY <1>1 DEF IInv, TypeOK, StoreTypeOK, Staged, StageOK, Snapshotted, Copied, Verified,
              ReplicasAreExact

-----------------------------------------------------------------------------
(* The invariant                                                              *)

LEMMA InitIInv == Init => IInv
<1> SUFFICES ASSUME Init PROVE IInv
  OBVIOUS
<1>1. \A b \in Backends, k \in Keys : blobs[b][k] = Absent
  BY DEF Init, StoreInit
<1>2. Absent \in Blobs /\ Absent.owner = Nobody
  BY DEF Absent, Blobs, Forms
<1>3. StoreTypeOK
  <2>1. blobs \in [Backends -> [Keys -> Blobs]]
    BY <1>2 DEF Init, StoreInit
  <2>2. WriterIdle \in [pc : WriterStages, key : Objects \cup {Source}, form : Forms]
    BY DEF WriterIdle, WriterStages, Forms
  <2>3. CollectorIdle \in [pc : CollectorStages, refs : SUBSET Keys, candidates : SUBSET Keys]
    BY DEF CollectorIdle, CollectorStages
  <2> QED
    BY <2>1, <2>2, <2>3, ParametersAssumption DEF Init, StoreInit, StoreTypeOK
<1>4. TypeOK
  BY <1>1, <1>2, <1>3, Names, IdleFacts DEF Init, TypeOK
<1>5. Staged
  BY IdleFacts DEF Init, StoreInit, Staged, WriterIdle
<1>6. Copied /\ ReplicasAreExact
  BY IdleFacts DEF Init, Copied, ReplicasAreExact
<1> QED
  BY <1>4, <1>5, <1>6 DEF IInv

LEMMA NextIInv == IInv /\ [Next]_vars => IInv'
<1> SUFFICES ASSUME IInv, [Next]_vars PROVE IInv'
  OBVIOUS
<1>1. ASSUME NEW w \in Writers, UNCHANGED <<rep, receipts>>,
             Put(w) \/ Fill(w) \/ Compare(w) \/ Manifest(w) \/ Refer(w) \/ WriterStops(w)
      PROVE  IInv'
  BY <1>1, WriterWrites, WriterLooks
<1>2. ASSUME NEW c \in Collectors, UNCHANGED <<rep, receipts>>, CollectorStep(c)
      PROVE  IInv'
  BY <1>2, CollectorMoves
<1>3. ASSUME NEW r \in Replicators, RepStep(r)
      PROVE  IInv'
  BY <1>3, SnapshotStep, ProbeLooks, ProbeWrites, TargetSteps, ObjectSteps, ReceiptStep
     DEF RepStep
<1>4. ASSUME NEW r \in Replicators, RepStops(r)
      PROVE  IInv'
  BY <1>4, StopStep
<1>5. CASE LetGo /\ UNCHANGED <<rep, receipts>>
  BY <1>5, CallerLetsGo
<1>6. CASE UNCHANGED vars
  BY <1>6 DEF vars, storeVars, IInv, TypeOK, StoreTypeOK, Staged, StageOK, Snapshotted, Copied,
              Verified, ReplicasAreExact
<1> QED
  BY <1>1, <1>2, <1>3, <1>4, <1>5, <1>6 DEF Next, StoreNext, CollectorStep

THEOREM Invariance == Spec => []IInv
BY InitIInv, NextIInv, PTL DEF Spec

\* Types, and every open file is in the hands of the process that is writing it.
THEOREM TypeCorrect == Spec => []TypeOK
<1>1. IInv => TypeOK
  BY DEF IInv
<1> QED
  BY <1>1, Invariance, PTL

\* What a receipt says is copied is on every target, envelope for envelope, for ever: however
\* many replications, writers and garbage collections run at the same time, stop half-way
\* or share a challenge.
THEOREM ReplicasStayExact == Spec => []ReplicasAreExact
<1>1. IInv => ReplicasAreExact
  BY DEF IInv
<1> QED
  BY <1>1, Invariance, PTL

-----------------------------------------------------------------------------
(* No envelope is overwritten                                                 *)

\* What a replicator may do to the files, and that it leaves those of the source alone.
LEMMA RepTouches ==
  ASSUME IInv, NEW r \in Replicators, RepStep(r) \/ RepStops(r)
  PROVE  /\ KeepsWhole
         /\ UNCHANGED <<writer, gc, refs>>
         /\ \A k \in Keys : blobs'[Source][k] = blobs[Source][k]
<1> DEFINE b == rep[r].target  k == rep[r].key
           Same == KeepsWhole /\ \A j \in Keys : blobs'[Source][j] = blobs[Source][j]
<1>1. TypeOK /\ blobs \in [Backends -> [Keys -> Blobs]]
  BY RepState DEF IInv
<1>2. UNCHANGED blobs => Same
  BY DEF KeepsWhole
<1>3. rep[r].pc \in ProbeStages => b \in Targets /\ k = b /\ k \in Keys /\ b \in Backends
  BY RepState, Names DEF StageOK
<1>4. rep[r].pc \in ObjectStages =>
        b \in Targets /\ k \in Keys /\ b \in Backends /\ rep[r].snapshot[k] \in Forms
  BY RepState, Names DEF StageOK, RepStates, TargetStages, ObjectStages, Snapshotted
<1>5. ASSUME NEW t \in Targets, NEW j \in Keys, NEW form \in Forms,
             ~ Present(t, j), Create(t, j, form, r)
      PROVE  Same
  <2>1. t \in Backends /\ t # Source
    BY Names
  <2>2. /\ KeepsWhole
        /\ \A c \in Backends, i \in Keys : c # t \/ i # j => blobs'[c][i] = blobs[c][i]
    BY <1>1, <1>5, <2>1, CreateFacts
  <2> QED
    BY <2>1, <2>2, Names
<1>6. ASSUME b \in Targets, k \in Keys, FillIn(b, k, r)
      PROVE  Same
  <2>1. b \in Backends /\ b # Source
    BY <1>6, Names
  <2>2. /\ KeepsWhole
        /\ \A c \in Backends, i \in Keys : c # b \/ i # k => blobs'[c][i] = blobs[c][i]
    BY <1>1, <1>6, <2>1, FillFacts
  <2> QED
    BY <2>1, <2>2, Names
<1>7. CASE ProbePut(r)
  <2>1. PICK t \in rep[r].left :
          IF ~ Present(t, t) THEN Create(t, t, "none", r) ELSE UNCHANGED blobs
    BY <1>7 DEF ProbePut
  <2>2. t \in Targets /\ t \in Keys /\ "none" \in Forms
    BY RepState, Names DEF RepStates, Forms
  <2>3. Same
    BY <1>2, <1>5, <2>1, <2>2
  <2> QED
    BY <1>7, <2>3 DEF ProbePut, RepGoes
<1>8. CASE ProbeFill(r)
  BY <1>3, <1>6, <1>8 DEF ProbeFill, RepGoes, ProbeStages
<1>9. CASE Clobber(r)
  <2>1. b \in Targets /\ k = b /\ k \in Keys /\ b \in Backends
    BY <1>3, <1>9 DEF Clobber, ProbeStages
  <2>2. CASE Present(b, k)
    BY <1>2, <1>9, <2>2 DEF Clobber, RepGoes
  <2>3. CASE ~ Present(b, k)
    <3>1. blobs' = [blobs EXCEPT ![b][k] = Garbage] /\ UNCHANGED <<writer, gc, refs>>
      BY <1>9, <2>3 DEF Clobber, RepRaises, RepGoes
    <3>2. blobs[b][k].state # "whole"
      BY <2>3 DEF Present
    <3> QED
      BY <1>1, <2>1, <3>1, <3>2, Names DEF KeepsWhole
  <2> QED
    BY <2>2, <2>3
<1>10. CASE DeleteSentinel(r)
  <2>1. b \in Targets /\ k = b /\ k \in Keys /\ b \in Backends
    BY <1>3, <1>10 DEF DeleteSentinel, ProbeStages
  <2>2. UNCHANGED blobs \/ Remove(b, k)
    BY <1>10 DEF DeleteSentinel
  <2>3. CASE UNCHANGED blobs
    BY <1>2, <1>10, <2>3 DEF DeleteSentinel, RepGoes
  <2>4. CASE Remove(b, k)
    <3>1. blobs' = [blobs EXCEPT ![b][k] = Absent]
      BY <2>4 DEF Remove
    <3>2. Same
      BY <1>1, <2>1, <3>1, Names DEF KeepsWhole
    <3> QED
      BY <1>10, <3>2 DEF DeleteSentinel, RepGoes
  <2> QED
    BY <2>2, <2>3, <2>4
<1>11. CASE CopyPut(r)
  <2>1. b \in Targets /\ k \in Keys /\ rep[r].snapshot[k] \in Forms
    BY <1>4, <1>11 DEF CopyPut, ObjectStages
  <2>2. IF ~ Present(b, k) THEN Create(b, k, rep[r].snapshot[k], r) ELSE UNCHANGED blobs
    BY <1>11 DEF CopyPut
  <2>3. Same
    BY <1>2, <1>5, <2>1, <2>2
  <2> QED
    BY <1>11, <2>3 DEF CopyPut, RepGoes
<1>12. CASE CopyFill(r)
  BY <1>4, <1>6, <1>12 DEF CopyFill, RepGoes, ObjectStages
<1>13. CASE IssueReceipt(r)
  BY <1>2, <1>13 DEF IssueReceipt, storeVars
<1>14. CASE RepStops(r)
  <2>1. /\ KeepsWhole
        /\ \A c \in Backends, j \in Keys :
             blobs[c][j].owner # r => blobs'[c][j] = blobs[c][j]
    BY <1>1, <1>14, OrphanFacts DEF RepStops
  <2>2. \A j \in Keys : blobs'[Source][j] = blobs[Source][j]
    BY <2>1, SourceOwners, Names
  <2> QED
    BY <1>14, <2>1, <2>2 DEF RepStops
<1>15. CASE \/ ListSource(r) \/ SnapshotObject(r) \/ SnapshotTaken(r) \/ ProbeCompare(r)
            \/ ProbeManifest(r) \/ ProbeRead(r) \/ Reread(r) \/ CheckGone(r) \/ CheckKept(r)
            \/ Probed(r) \/ NextTarget(r) \/ CopyGet(r) \/ Readback(r) \/ TargetVerified(r)
  <2>1. UNCHANGED <<blobs, writer, gc, refs>>
    BY <1>15 DEF ListSource, SnapshotObject, SnapshotTaken, ProbeCompare, ProbeManifest,
                 ProbeRead, Reread, CheckGone, CheckKept, Probed, NextTarget, CopyGet,
                 Readback, TargetVerified, Requires, RepRaises, RepGoes
  <2> QED
    BY <1>2, <2>1
<1> QED
  BY <1>7, <1>8, <1>9, <1>10, <1>11, <1>12, <1>13, <1>14, <1>15 DEF RepStep

\* What a writer may do to the files of the source.
LEMMA WriterTouches ==
  ASSUME IInv, NEW w \in Writers, Put(w) \/ Fill(w) \/ WriterStops(w)
  PROVE  /\ KeepsWhole
         /\ \A k \in Keys : \A p \in Writers :
              p # w /\ blobs[Source][k].owner = p => blobs'[Source][k] = blobs[Source][k]
         /\ \A k \in Keys : Readable(Source, k) => Readable(Source, k)'
<1>1. TypeOK /\ Source \in Backends
  BY Names, WriterFacts
<1>2. \A k \in Keys : blobs[Source][k].owner # Nobody => blobs[Source][k].state = "partial"
  BY <1>1 DEF TypeOK
<1>3. CASE Put(w)
  <2>1. PICK k \in Objects, form \in Forms :
          IF ~ Present(Source, k) THEN Create(Source, k, form, w) ELSE UNCHANGED blobs
    BY <1>3 DEF Put
  <2>2. k \in Keys
    BY Names
  <2>3. CASE Present(Source, k)
    BY <2>1, <2>3 DEF KeepsWhole, Readable
  <2>4. CASE ~ Present(Source, k)
    <3>1. /\ KeepsWhole
          /\ \A c \in Backends, j \in Keys :
               c # Source \/ j # k => blobs'[c][j] = blobs[c][j]
      BY <1>1, <2>1, <2>2, <2>4, CreateFacts
    <3>2. blobs[Source][k].state = "absent"
      BY <2>4 DEF Present
    <3> QED
      BY <1>1, <1>2, <2>2, <3>1, <3>2, Names DEF Readable
  <2> QED
    BY <2>3, <2>4
<1>4. CASE Fill(w)
  <2>1. writer[w].key \in Keys /\ FillIn(Source, writer[w].key, w)
    BY <1>4, WriterFacts, Names DEF Fill
  <2>2. /\ KeepsWhole
        /\ blobs'[Source][writer[w].key] =
             IF blobs[Source][writer[w].key].owner = w
             THEN Whole(blobs[Source][writer[w].key].form) ELSE blobs[Source][writer[w].key]
        /\ \A c \in Backends, j \in Keys :
             c # Source \/ j # writer[w].key => blobs'[c][j] = blobs[c][j]
    BY <1>1, <2>1, FillFacts
  <2> QED
    BY <1>1, <2>2 DEF Readable, Whole
<1>5. CASE WriterStops(w)
  BY <1>1, <1>5, OrphanFacts DEF WriterStops, Readable
<1> QED
  BY <1>3, <1>4, <1>5

\* No complete envelope is ever overwritten, and only evidence in the source and probe
\* sentinels are ever deleted.
THEOREM EnvelopesStay == Spec => NoClobber
<1>1. IInv /\ [Next]_vars => KeepsWhole
  <2> SUFFICES ASSUME IInv, [Next]_vars PROVE KeepsWhole
    OBVIOUS
  <2>1. ASSUME NEW w \in Writers,
               \/ Put(w) \/ Fill(w) \/ Compare(w) \/ Manifest(w) \/ Refer(w) \/ WriterStops(w)
        PROVE  KeepsWhole
    <3>1. CASE Compare(w) \/ Manifest(w) \/ Refer(w)
      BY <3>1 DEF Compare, Manifest, Refer, KeepsWhole
    <3>2. CASE Put(w) \/ Fill(w) \/ WriterStops(w)
      BY <3>2, WriterTouches
    <3> QED
      BY <2>1, <3>1, <3>2
  <2>2. ASSUME NEW c \in Collectors, CollectorStep(c)
        PROVE  KeepsWhole
    BY <2>2, CollectorFacts DEF KeepsWhole
  <2>3. ASSUME NEW r \in Replicators, RepStep(r) \/ RepStops(r)
        PROVE  KeepsWhole
    BY <2>3, RepTouches
  <2>4. CASE LetGo
    BY <2>4 DEF LetGo, KeepsWhole
  <2>5. CASE UNCHANGED vars
    BY <2>5 DEF vars, storeVars, KeepsWhole
  <2> QED
    BY <2>1, <2>2, <2>3, <2>4, <2>5 DEF Next, StoreNext, CollectorStep
<1> QED
  BY <1>1, Invariance, PTL DEF Spec, NoClobber, KeepsWhole

-----------------------------------------------------------------------------
(* With collectors and writers kept apart, referenced evidence can be read    *)

LEMMA KeptByWriter ==
  ASSUME Exclusive, IInv, KeptInv, NEW w \in Writers, UNCHANGED gc,
         Put(w) \/ Fill(w) \/ Compare(w) \/ Manifest(w) \/ Refer(w) \/ WriterStops(w)
  PROVE  KeptInv'
<1>1. \A c \in Collectors : gc[c].pc = "idle"
  <2>1. CASE Put(w)
    BY <2>1 DEF Put, CollectorsQuiet
  <2>2. CASE Fill(w) \/ Compare(w) \/ Manifest(w) \/ Refer(w) \/ WriterStops(w)
    <3>1. writer[w].pc # "idle"
      BY <2>2 DEF Fill, Compare, Manifest, Refer, WriterStops
    <3> QED
      BY <3>1 DEF KeptInv, Excluded, WritersQuiet
  <2> QED
    BY <2>1, <2>2
<1>2. Excluded' /\ DeletionsAreUnreferenced'
  BY <1>1 DEF Excluded, DeletionsAreUnreferenced
<1>3. /\ TypeOK /\ Source \in Backends /\ Objects \subseteq Keys /\ refs \subseteq Objects
      /\ writer[w].pc # "idle" => writer[w].key \in Objects
      /\ writer \in [Writers -> WriterStates]
      /\ blobs \in [Backends -> [Keys -> Blobs]]
      /\ \A q \in Writers : writer[q].pc # "idle" => writer[q].key \in Objects
  BY Names, WriterFacts DEF IInv, TypeOK, StoreTypeOK, WriterStates
<1>4. /\ \A k \in Keys : \A p \in Writers :
           p # w /\ blobs[Source][k].owner = p => blobs'[Source][k] = blobs[Source][k]
      /\ \A k \in Keys : Readable(Source, k) => Readable(Source, k)'
  <2>1. CASE Put(w) \/ Fill(w) \/ WriterStops(w)
    BY <2>1, WriterTouches
  <2>2. CASE Compare(w) \/ Manifest(w) \/ Refer(w)
    BY <2>2 DEF Compare, Manifest, Refer, Readable
  <2> QED
    BY <2>1, <2>2
<1>5. /\ \A q \in Writers : q # w => writer'[q] = writer[q]
      /\ writer'[w].pc = "fill" => blobs'[Source][writer'[w].key].owner = w
      /\ writer'[w].pc = "written" => blobs'[Source][writer'[w].key].state = "whole"
  <2>1. CASE Put(w)
    <3>1. PICK k \in Objects, form \in Forms :
            LET created == ~ Present(Source, k) IN
            /\ writer' = [writer EXCEPT ![w] =
                 [pc |-> IF created THEN "fill" ELSE "compare", key |-> k, form |-> form]]
            /\ IF created THEN Create(Source, k, form, w) ELSE UNCHANGED blobs
      BY <2>1 DEF Put
    <3>2. k \in Keys
      BY <1>3
    <3>3. CASE Present(Source, k)
      BY <1>3, <3>1, <3>3
    <3>4. CASE ~ Present(Source, k)
      <4>1. blobs'[Source][k] = Partial(form, w)
        BY <1>3, <3>1, <3>2, <3>4, CreateFacts
      <4> QED
        BY <1>3, <3>1, <3>4, <4>1 DEF Partial
    <3> QED
      BY <3>3, <3>4
  <2>2. CASE Fill(w)
    <3>1. writer[w].key \in Keys /\ FillIn(Source, writer[w].key, w) /\ writer[w].pc = "fill"
          /\ writer' = [writer EXCEPT ![w].pc = "written"]
      BY <1>3, <2>2 DEF Fill, WriterGoes
    <3>2. blobs[Source][writer[w].key].owner = w
      BY <3>1 DEF KeptInv, WritersKnow
    <3>3. blobs'[Source][writer[w].key] = Whole(blobs[Source][writer[w].key].form)
      BY <1>3, <3>1, <3>2, FillFacts
    <3>4. writer'[w].pc = "written" /\ writer'[w].key = writer[w].key
      BY <1>3, <3>1 DEF WriterStates
    <3> QED
      BY <1>3, <3>1, <3>3, <3>4 DEF Whole
  <2>3. CASE Compare(w)
    BY <1>3, <2>3 DEF Compare, WriterGoes, WriterRaises, WriterIdle, Readable, WriterStates
  <2>4. CASE Manifest(w)
    BY <1>3, <2>4 DEF Manifest, WriterGoes, WriterRaises, WriterIdle, Readable, WriterStates
  <2>5. CASE Refer(w) \/ WriterStops(w)
    BY <1>3, <2>5 DEF Refer, WriterStops, WriterIdle, WriterStates
  <2> QED
    BY <2>1, <2>2, <2>3, <2>4, <2>5
<1>6. WritersKnow'
  <2> SUFFICES ASSUME NEW q \in Writers
               PROVE  /\ writer'[q].pc = "fill" => blobs'[Source][writer'[q].key].owner = q
                      /\ writer'[q].pc = "written" => blobs'[Source][writer'[q].key].state = "whole"
    BY DEF WritersKnow, Readable
  <2>1. CASE q = w
    BY <1>5, <2>1
  <2>2. CASE q # w
    <3>1. writer'[q] = writer[q]
      BY <1>5, <2>2
    <3>2. writer[q].pc = "fill" => blobs'[Source][writer[q].key].owner = q
      BY <1>3, <1>4, <2>2 DEF KeptInv, WritersKnow
    <3>3. writer[q].pc = "written" => blobs'[Source][writer[q].key].state = "whole"
      BY <1>3, <1>4 DEF KeptInv, WritersKnow, Readable
    <3> QED
      BY <3>1, <3>2, <3>3 DEF Readable
  <2> QED
    BY <2>1, <2>2
<1>7. ReferencedIsReadable'
  <2>1. \A k \in refs' : k \in refs \/ (k \in Keys /\ Readable(Source, k))
    <3>1. CASE Refer(w)
      BY <1>3, <3>1 DEF Refer, KeptInv, WritersKnow
    <3>2. CASE Put(w) \/ Fill(w) \/ Compare(w) \/ Manifest(w) \/ WriterStops(w)
      BY <3>2 DEF Put, Fill, Compare, Manifest, WriterStops, WriterGoes, WriterRaises
    <3> QED
      BY <3>1, <3>2
  <2>2. \A k \in refs' : k \in Keys /\ Readable(Source, k)
    BY <1>3, <2>1 DEF KeptInv, ReferencedIsReadable
  <2> QED
    BY <1>4, <2>2 DEF ReferencedIsReadable
<1> QED
  BY <1>2, <1>6, <1>7 DEF KeptInv

LEMMA KeptByCollector ==
  ASSUME Exclusive, IInv, KeptInv, NEW c \in Collectors, CollectorStep(c)
  PROVE  KeptInv'
<1>1. /\ \A d \in Collectors : d # c => gc'[d] = gc[d]
      /\ UNCHANGED <<writer, refs, aborts>>
      /\ \A b \in Backends, k \in Keys :
           \/ blobs'[b][k] = blobs[b][k]
           \/ blobs'[b][k] = Absent /\ b = Source
              /\ gc[c].pc = "delete" /\ k \in gc[c].candidates
  BY CollectorFacts
<1>2. gc \in [Collectors -> CollectorStates] /\ refs \subseteq Keys /\ Source \in Backends
  BY Names DEF IInv, TypeOK, StoreTypeOK, CollectorStates
<1>3. WritersQuiet
  <2>1. CASE gc[c].pc = "idle"
    BY <2>1 DEF CollectorStep, SnapshotReferences, PlanDeletion, Confirm, Delete, CollectorDone,
                GiveUpPlan
  <2>2. CASE gc[c].pc # "idle"
    BY <2>2 DEF KeptInv, Excluded
  <2> QED
    BY <2>1, <2>2
<1>4. WritersKnow' /\ Excluded'
  BY <1>1, <1>3 DEF WritersKnow, Excluded, WritersQuiet
<1>5. gc'[c].pc = "delete" => gc'[c].candidates \cap refs = {}
  <2>1. CASE Confirm(c)
    BY <1>2, <2>1 DEF Confirm, CollectorGoes, CollectorIdle, CollectorStates
  <2>2. CASE Delete(c)
    <3>1. PICK k \in gc[c].candidates :
            gc' = [gc EXCEPT ![c] = [gc[c] EXCEPT !.candidates = @ \ {k}]]
      BY <2>2 DEF Delete, CollectorGoes
    <3>2. gc'[c].candidates \subseteq gc[c].candidates
      BY <1>2, <3>1 DEF CollectorStates
    <3> QED
      BY <2>2, <3>2 DEF Delete, KeptInv, DeletionsAreUnreferenced
  <2>3. CASE SnapshotReferences(c)
    BY <1>2, <2>3 DEF SnapshotReferences, CollectorGoes
  <2>4. CASE PlanDeletion(c)
    BY <1>2, <2>4 DEF PlanDeletion, CollectorGoes, CollectorStates
  <2>5. CASE CollectorDone(c) \/ GiveUpPlan(c)
    BY <1>2, <2>5 DEF CollectorDone, GiveUpPlan, CollectorGoes, CollectorIdle
  <2> QED
    BY <2>1, <2>2, <2>3, <2>4, <2>5 DEF CollectorStep
<1>6. DeletionsAreUnreferenced'
  BY <1>1, <1>5 DEF KeptInv, DeletionsAreUnreferenced
<1>7. ReferencedIsReadable'
  BY <1>1, <1>2 DEF KeptInv, DeletionsAreUnreferenced, ReferencedIsReadable, Readable
<1> QED
  BY <1>4, <1>6, <1>7 DEF KeptInv

LEMMA KeptByReplicator ==
  ASSUME IInv, KeptInv, NEW r \in Replicators, RepStep(r) \/ RepStops(r)
  PROVE  KeptInv'
<1>1. UNCHANGED <<writer, gc, refs>> /\ \A k \in Keys : blobs'[Source][k] = blobs[Source][k]
  BY RepTouches
<1>2. /\ \A w \in Writers : writer[w].pc # "idle" => writer[w].key \in Keys
      /\ refs \subseteq Keys
  BY Names DEF IInv, Staged, TypeOK, StoreTypeOK
<1> QED
  BY <1>1, <1>2 DEF KeptInv, WritersKnow, Excluded, WritersQuiet, DeletionsAreUnreferenced,
                    ReferencedIsReadable, Readable

\* If the operators keep writers away while garbage collection is planned and executed,
\* evidence somebody refers to can be read, with any number of writers stopping half-way.
THEOREM ReferencedStaysReadable ==
  ASSUME Exclusive
  PROVE  Spec => []ReferencedIsReadable
<1>1. Init => KeptInv
  BY DEF Init, StoreInit, WriterIdle, CollectorIdle, KeptInv, WritersKnow, Excluded,
         WritersQuiet, DeletionsAreUnreferenced, ReferencedIsReadable
<1>2. IInv /\ KeptInv /\ [Next]_vars => KeptInv'
  <2> SUFFICES ASSUME IInv, KeptInv, [Next]_vars PROVE KeptInv'
    OBVIOUS
  <2>1. ASSUME NEW w \in Writers, UNCHANGED gc,
               \/ Put(w) \/ Fill(w) \/ Compare(w) \/ Manifest(w) \/ Refer(w) \/ WriterStops(w)
        PROVE  KeptInv'
    BY <2>1, KeptByWriter
  <2>2. ASSUME NEW c \in Collectors, CollectorStep(c)
        PROVE  KeptInv'
    BY <2>2, KeptByCollector
  <2>3. ASSUME NEW r \in Replicators, RepStep(r) \/ RepStops(r)
        PROVE  KeptInv'
    BY <2>3, KeptByReplicator
  <2>4. CASE LetGo
    BY <2>4 DEF LetGo, KeptInv, WritersKnow, Excluded, WritersQuiet, DeletionsAreUnreferenced,
                ReferencedIsReadable, Readable
  <2>5. CASE UNCHANGED vars
    BY <2>5 DEF vars, storeVars, KeptInv, WritersKnow, Excluded, WritersQuiet,
                DeletionsAreUnreferenced, ReferencedIsReadable, Readable
  <2>6. ASSUME NEW w \in Writers,
               \/ Put(w) \/ Fill(w) \/ Compare(w) \/ Manifest(w) \/ Refer(w) \/ WriterStops(w)
        PROVE  UNCHANGED gc
    BY <2>6 DEF Put, Fill, Compare, Manifest, Refer, WriterStops, WriterGoes, WriterRaises
  <2> QED
    BY <2>1, <2>2, <2>3, <2>4, <2>5, <2>6 DEF Next, StoreNext, CollectorStep
<1>3. KeptInv => ReferencedIsReadable
  BY DEF KeptInv
<1> QED
  BY <1>1, <1>2, <1>3, Invariance, PTL DEF Spec

-----------------------------------------------------------------------------
(* Worm credit, when one replication runs at a time                           *)

\* From the read of the sentinel on it is there, so that the conflicting put fails; and the
\* target that did not remove it is one that keeps its objects.
Probing(s) ==
  /\ s.pc \in {"clobber", "reread", "delete"} => Present(s.target, s.target)
  /\ s.pc = "kept" => s.target \in Worm
\* Resistance was observed on targets that have it, and suffices where it is required.
Credited(s) ==
  /\ s.resist \subseteq Worm
  /\ s.pc \in CopyStages /\ s.worm => s.resist = Targets
WormInv ==
  /\ \A r \in Replicators : Probing(rep[r]) /\ Credited(rep[r])
  /\ WormCreditIsEarned

\* A file changes, but not into garbage.
NoNewGarbage ==
  \A b \in Backends, k \in Keys : blobs'[b][k].state = "garbage" => blobs[b][k].state = "garbage"

\* Writers and collectors do not touch a target.
LEMMA StoreLeavesTargets ==
  ASSUME IInv, StoreNext
  PROVE  /\ \A t \in Targets, k \in Keys : blobs'[t][k].state = blobs[t][k].state
         /\ NoNewGarbage
<1>1. TypeOK /\ Source \in Backends /\ blobs \in [Backends -> [Keys -> Blobs]]
  BY Names DEF IInv, TypeOK, StoreTypeOK
<1>2. CASE UNCHANGED blobs
  BY <1>2 DEF NoNewGarbage
<1>3. ASSUME NEW w \in Writers, Put(w) \/ Fill(w) \/ WriterStops(w)
      PROVE  /\ \A t \in Targets, k \in Keys : blobs'[t][k].state = blobs[t][k].state
             /\ NoNewGarbage
  <2>1. CASE Put(w)
    <3>1. PICK k \in Objects, form \in Forms :
            IF ~ Present(Source, k) THEN Create(Source, k, form, w) ELSE UNCHANGED blobs
      BY <2>1 DEF Put
    <3>2. CASE Present(Source, k)
      BY <3>1, <3>2 DEF NoNewGarbage
    <3>3. CASE ~ Present(Source, k)
      <4>1. /\ blobs'[Source][k] = Partial(form, w)
            /\ \A c \in Backends, j \in Keys : c # Source \/ j # k => blobs'[c][j] = blobs[c][j]
        BY <1>1, <3>1, <3>3, CreateFacts, Names
      <4> QED
        BY <4>1, Names DEF NoNewGarbage, Partial
    <3> QED
      BY <3>2, <3>3
  <2>2. CASE Fill(w)
    <3>1. writer[w].key \in Keys /\ FillIn(Source, writer[w].key, w)
      BY <2>2, WriterFacts, Names DEF Fill
    <3>2. /\ blobs'[Source][writer[w].key] =
               IF blobs[Source][writer[w].key].owner = w
               THEN Whole(blobs[Source][writer[w].key].form) ELSE blobs[Source][writer[w].key]
          /\ \A c \in Backends, j \in Keys :
               c # Source \/ j # writer[w].key => blobs'[c][j] = blobs[c][j]
      BY <1>1, <3>1, FillFacts
    <3> QED
      BY <3>1, <3>2, Names DEF NoNewGarbage, Whole
  <2>3. CASE WriterStops(w)
    <3>1. \A c \in Backends, j \in Keys : blobs'[c][j].state = blobs[c][j].state
      BY <1>1, <2>3, OrphanFacts DEF WriterStops
    <3> QED
      BY <3>1, Names DEF NoNewGarbage
  <2> QED
    BY <1>3, <2>1, <2>2, <2>3
<1>4. ASSUME NEW c \in Collectors, Delete(c)
      PROVE  /\ \A t \in Targets, k \in Keys : blobs'[t][k].state = blobs[t][k].state
             /\ NoNewGarbage
  <2>1. PICK k \in gc[c].candidates : blobs' = [blobs EXCEPT ![Source][k] = Absent]
    BY <1>4 DEF Delete, Remove
  <2>2. k \in Keys
    BY <1>1 DEF TypeOK, StoreTypeOK
  <2> QED
    BY <1>1, <2>1, <2>2, Names DEF NoNewGarbage, Absent
<1>5. \/ UNCHANGED blobs
      \/ \E w \in Writers : Put(w) \/ Fill(w) \/ WriterStops(w)
      \/ \E c \in Collectors : Delete(c)
  BY DEF StoreNext, Compare, Manifest, Refer, SnapshotReferences, PlanDeletion, Confirm,
         CollectorDone, GiveUpPlan, LetGo
<1> QED
  BY <1>2, <1>3, <1>4, <1>5

\* A replication goes on: what has to be shown of its new state, when it is the only one.
LEMMA OneMoves ==
  ASSUME IInv, WormInv, NEW r \in Replicators, \A q \in Replicators : q = r,
         NEW s, rep' = [rep EXCEPT ![r] = s], NoNewGarbage,
         Credited(s), s.pc = "kept" => s.target \in Worm,
         s.pc \in {"clobber", "reread", "delete"} => Present(s.target, s.target)',
         receipts' \subseteq receipts \cup {[worm |-> rep[r].worm, snapshot |-> rep[r].snapshot,
                                             resist |-> rep[r].resist]},
         receipts' # receipts => rep[r].pc \in CopyStages
  PROVE  WormInv'
<1>1. rep'[r] = s /\ \A q \in Replicators : rep'[q] = s
  BY DEF IInv, TypeOK
<1>2. \A q \in Replicators : Probing(rep[q])' /\ Credited(rep[q])'
  BY <1>1 DEF Probing, Credited, Present
<1>3. WormCreditIsEarned'
  <2>1. \A b \in Backends, k \in Keys : blobs'[b][k].state # "garbage"
    BY DEF NoNewGarbage, WormInv, WormCreditIsEarned
  <2>2. \A x \in receipts' : x.resist \subseteq Worm /\ (x.worm => x.resist = Targets)
    <3>1. CASE receipts' = receipts
      BY <3>1 DEF WormInv, WormCreditIsEarned
    <3>2. CASE rep[r].pc \in CopyStages
      <4>1. rep[r].resist \subseteq Worm /\ (rep[r].worm => rep[r].resist = Targets)
        BY <3>2 DEF WormInv, Credited
      <4> QED
        BY <4>1 DEF WormInv, WormCreditIsEarned
    <3> QED
      BY <3>1, <3>2
  <2> QED
    BY <2>1, <2>2 DEF WormCreditIsEarned
<1> QED
  BY <1>2, <1>3 DEF WormInv

\* Steps that only read: they go on with the resistance observed so far, or give up.
LEMMA OneLooks ==
  ASSUME IInv, WormInv, NEW r \in Replicators, \A q \in Replicators : q = r,
         \/ ListSource(r) \/ SnapshotObject(r) \/ SnapshotTaken(r) \/ ProbeCompare(r)
         \/ ProbeManifest(r) \/ ProbeRead(r) \/ Reread(r) \/ CheckGone(r) \/ CheckKept(r)
         \/ Probed(r) \/ NextTarget(r) \/ CopyGet(r) \/ Readback(r) \/ TargetVerified(r)
  PROVE  WormInv'
<1>1. /\ UNCHANGED <<blobs, receipts>> /\ NoNewGarbage
      /\ rep[r] \in RepStates /\ StageOK(rep[r]) /\ Probing(rep[r]) /\ Credited(rep[r])
  BY RepState
     DEF WormInv, ListSource, SnapshotObject, SnapshotTaken, ProbeCompare, ProbeManifest, ProbeRead,
         Reread, CheckGone, CheckKept, Probed, NextTarget, CopyGet, Readback, TargetVerified,
         Requires, RepRaises, RepGoes, NoNewGarbage
<1>2. ASSUME NEW s, RepGoes(r, s), Credited(s), s.pc = "kept" => s.target \in Worm,
             s.pc \in {"clobber", "reread", "delete"} => Present(s.target, s.target)
      PROVE  WormInv'
  <2>1. s.pc \in {"clobber", "reread", "delete"} => Present(s.target, s.target)'
    BY <1>1, <1>2 DEF Present
  <2> QED
    BY <1>1, <1>2, <2>1, OneMoves DEF RepGoes
<1>3. CASE RepRaises(r)
  BY <1>2, <1>3 DEF RepRaises, RepIdle, Credited, CopyStages, TargetStages, ObjectStages
<1>4. CASE ListSource(r)
  <2>1. PICK worm \in BOOLEAN :
          RepGoes(r, [RepIdle EXCEPT !.pc = "snapshot", !.worm = worm,
                                     !.todo = {k \in Keys : Present(Source, k)}])
    BY <1>4 DEF ListSource
  <2> QED
    BY <1>2, <2>1 DEF RepIdle, Credited, CopyStages, TargetStages, ObjectStages
<1>5. CASE SnapshotObject(r)
  <2>1. PICK k \in rep[r].todo :
          Requires(r, Readable(Source, k),
                   [rep[r] EXCEPT !.todo = @ \ {k}, !.snapshot[k] = blobs[Source][k].form])
    BY <1>5 DEF SnapshotObject
  <2>2. rep[r].pc = "snapshot"
    BY <1>5 DEF SnapshotObject
  <2> DEFINE s == [rep[r] EXCEPT !.todo = @ \ {k}, !.snapshot[k] = blobs[Source][k].form]
  <2>3. s.pc = "snapshot" /\ s.resist = rep[r].resist
    BY <1>1, <2>2 DEF RepStates
  <2>4. RepGoes(r, s) \/ RepRaises(r)
    BY <2>1 DEF Requires
  <2> HIDE DEF s
  <2> QED
    BY <1>1, <1>2, <1>3, <2>3, <2>4 DEF Credited, CopyStages, TargetStages, ObjectStages
<1>6. CASE SnapshotTaken(r) \/ ProbeCompare(r) \/ ProbeManifest(r)
  BY <1>1, <1>2, <1>3, <1>6
     DEF SnapshotTaken, ProbeCompare, ProbeManifest, Requires, Credited, RepStates, CopyStages,
         TargetStages, ObjectStages
<1>7. CASE ProbeRead(r) \/ Reread(r)
  <2>1. /\ rep[r].pc \in {"probe_read", "reread"} /\ rep[r].key = rep[r].target
        /\ \E stage \in {"clobber", "delete"} :
             Requires(r, Sentinel(r), [rep[r] EXCEPT !.pc = stage])
    BY <1>1, <1>7 DEF ProbeRead, Reread, StageOK, ProbeStages
  <2>2. Sentinel(r) => Present(rep[r].target, rep[r].target)
    BY <2>1 DEF Sentinel, Readable, Present
  <2> QED
    BY <1>1, <1>2, <1>3, <2>1, <2>2
       DEF Requires, Credited, RepStates, CopyStages, TargetStages, ObjectStages
<1>8. CASE CheckGone(r) \/ CheckKept(r)
  <2>1. \/ RepRaises(r)
        \/ RepGoes(r, NextProbe(r))
        \/ rep[r].pc = "kept" /\ RepGoes(r, [NextProbe(r) EXCEPT !.resist = @ \cup {rep[r].target}])
    BY <1>8 DEF CheckGone, CheckKept, Requires
  <2>2. NextProbe(r).pc = "probe" /\ NextProbe(r).resist = rep[r].resist
    BY <1>1 DEF NextProbe, RepStates
  <2>3. rep[r].pc = "kept" => rep[r].target \in Worm
    BY <1>1 DEF Probing
  <2>4. [NextProbe(r) EXCEPT !.resist = @ \cup {rep[r].target}].pc = "probe"
        /\ [NextProbe(r) EXCEPT !.resist = @ \cup {rep[r].target}].resist
             = rep[r].resist \cup {rep[r].target}
    BY <1>1, <2>2 DEF NextProbe, RepStates
  <2> QED
    BY <1>1, <1>2, <1>3, <2>1, <2>2, <2>3, <2>4
       DEF Credited, CopyStages, TargetStages, ObjectStages
<1>9. CASE Probed(r)
  BY <1>1, <1>2, <1>3, <1>9
     DEF Probed, Requires, Credited, RepStates, CopyStages, TargetStages, ObjectStages
<1>10. CASE NextTarget(r)
  <2>1. PICK t \in rep[r].left :
          RepGoes(r, [rep[r] EXCEPT !.pc = "copy", !.target = t, !.todo = Snapshotted(rep[r])])
    BY <1>10 DEF NextTarget
  <2>2. rep[r].pc = "target"
    BY <1>10 DEF NextTarget
  <2> QED
    BY <1>1, <1>2, <2>1, <2>2 DEF Credited, RepStates, CopyStages, TargetStages, ObjectStages
<1>11. CASE CopyGet(r) \/ Readback(r) \/ TargetVerified(r)
  BY <1>1, <1>2, <1>3, <1>11
     DEF CopyGet, Readback, TargetVerified, Requires, Credited, RepStates, CopyStages, TargetStages,
         ObjectStages
<1> QED
  BY <1>4, <1>5, <1>6, <1>7, <1>8, <1>9, <1>10, <1>11

\* Steps that write: the conflicting put finds the sentinel that was read before.
LEMMA OneWrites ==
  ASSUME IInv, WormInv, NEW r \in Replicators, \A q \in Replicators : q = r,
         \/ ProbePut(r) \/ ProbeFill(r) \/ Clobber(r) \/ DeleteSentinel(r) \/ CopyPut(r)
         \/ CopyFill(r) \/ IssueReceipt(r) \/ RepStops(r)
  PROVE  WormInv'
<1> DEFINE b == rep[r].target  k == rep[r].key
<1>1. /\ rep[r] \in RepStates /\ StageOK(rep[r]) /\ Probing(rep[r]) /\ Credited(rep[r])
      /\ TypeOK /\ blobs \in [Backends -> [Keys -> Blobs]]
  BY RepState DEF WormInv, IInv
<1>2. ASSUME NEW t \in Backends, NEW j \in Keys, NEW form \in Forms,
             IF ~ Present(t, j) THEN Create(t, j, form, r) ELSE UNCHANGED blobs
      PROVE  NoNewGarbage
  BY <1>1, <1>2 DEF Create, Partial, NoNewGarbage
<1>3. ASSUME b \in Backends, k \in Keys, FillIn(b, k, r)
      PROVE  NoNewGarbage
  BY <1>1, <1>3 DEF FillIn, Whole, NoNewGarbage
<1>4. ASSUME NEW s, RepGoes(r, s), NoNewGarbage, s.resist = rep[r].resist,
              s.worm = rep[r].worm, s.pc \in CopyStages => rep[r].pc \in CopyStages,
              s.pc = "kept" => s.target \in Worm,
              s.pc \in {"clobber", "reread", "delete"} => blobs'[s.target][s.target].state # "absent"
       PROVE  WormInv'
  <2>1. Credited(s)
    BY <1>1, <1>4 DEF Credited
  <2>2. UNCHANGED receipts
    BY <1>4 DEF RepGoes
  <2> QED
    BY <1>4, <2>1, <2>2, OneMoves DEF RepGoes, Present
<1>5. Credited(RepIdle) /\ RepIdle.pc = "idle"
  BY DEF RepIdle, Credited, CopyStages, TargetStages, ObjectStages
<1>6. CASE ProbePut(r)
  <2>1. PICK t \in rep[r].left :
          /\ RepGoes(r, [rep[r] EXCEPT !.pc = IF ~ Present(t, t) THEN "probe_fill"
                                              ELSE "probe_compare", !.target = t, !.key = t])
          /\ IF ~ Present(t, t) THEN Create(t, t, "none", r) ELSE UNCHANGED blobs
    BY <1>6 DEF ProbePut
  <2>2. t \in Backends /\ t \in Keys /\ "none" \in Forms
    BY <1>1, Names DEF RepStates, Forms
  <2>3. NoNewGarbage
    BY <1>2, <2>1, <2>2
  <2> QED
    BY <1>1, <1>4, <2>1, <2>3 DEF RepStates, CopyStages, TargetStages, ObjectStages
<1>7. CASE ProbeFill(r) \/ CopyFill(r)
  <2>1. b \in Backends /\ k \in Keys /\ FillIn(b, k, r)
    BY <1>1, <1>7, Names
       DEF ProbeFill, CopyFill, StageOK, ProbeStages, ObjectStages, TargetStages, RepStates
  <2>2. NoNewGarbage
    BY <1>3, <2>1
  <2> QED
    BY <1>1, <1>7, <1>4, <2>2
       DEF ProbeFill, CopyFill, RepStates, CopyStages, TargetStages, ObjectStages
<1>8. CASE Clobber(r)
  <2>1. /\ rep[r].pc = "clobber" /\ b = k /\ Present(b, b)
    BY <1>1, <1>8 DEF Clobber, StageOK, ProbeStages, Probing
  <2>2. RepGoes(r, [rep[r] EXCEPT !.pc = "reread"]) /\ UNCHANGED blobs
    BY <1>8, <2>1 DEF Clobber
  <2>3. blobs'[b][b].state # "absent" /\ NoNewGarbage
    BY <2>1, <2>2 DEF Present, NoNewGarbage
  <2> QED
    BY <1>1, <1>4, <2>2, <2>3 DEF RepStates, CopyStages, TargetStages, ObjectStages
<1>9. CASE DeleteSentinel(r)
  <2>1. /\ rep[r].pc = "delete" /\ b = k /\ Present(b, b) /\ b \in Targets
    BY <1>1, <1>9 DEF DeleteSentinel, StageOK, ProbeStages, Probing
  <2>2. \/ b \in Worm /\ RepGoes(r, [rep[r] EXCEPT !.pc = "kept"]) /\ UNCHANGED blobs
        \/ RepGoes(r, [rep[r] EXCEPT !.pc = "gone"]) /\ Remove(b, k)
    BY <1>9, <2>1 DEF DeleteSentinel
  <2>3. NoNewGarbage
    BY <1>1, <2>1, <2>2, Names DEF Remove, Absent, NoNewGarbage
  <2> QED
    BY <1>1, <1>4, <2>2, <2>3 DEF RepStates, CopyStages, TargetStages, ObjectStages
<1>10. CASE CopyPut(r)
  <2>1. b \in Backends /\ k \in Keys /\ rep[r].snapshot[k] \in Forms
    BY <1>1, <1>10, Names
       DEF CopyPut, StageOK, ObjectStages, TargetStages, RepStates, Snapshotted
  <2>2. IF ~ Present(b, k) THEN Create(b, k, rep[r].snapshot[k], r) ELSE UNCHANGED blobs
    BY <1>10 DEF CopyPut
  <2>3. NoNewGarbage
    BY <1>2, <2>1, <2>2
  <2>4. PICK stage \in {"copy_fill", "readback"} : RepGoes(r, [rep[r] EXCEPT !.pc = stage])
    BY <1>10 DEF CopyPut
  <2>5. rep[r].pc = "copy_put"
    BY <1>10 DEF CopyPut
  <2> QED
    BY <1>1, <1>4, <2>3, <2>4, <2>5 DEF RepStates, CopyStages, TargetStages, ObjectStages
<1>11. CASE IssueReceipt(r)
  <2>1. /\ rep[r].pc \in CopyStages /\ rep' = [rep EXCEPT ![r] = RepIdle] /\ UNCHANGED blobs
        /\ receipts' = receipts \cup {[worm |-> rep[r].worm, snapshot |-> rep[r].snapshot,
                                       resist |-> rep[r].resist]}
    BY <1>11 DEF IssueReceipt, storeVars, CopyStages
  <2>2. NoNewGarbage
    BY <2>1 DEF NoNewGarbage
  <2> QED
    BY <1>5, <2>1, <2>2, OneMoves
<1>12. CASE RepStops(r)
  <2>1. rep' = [rep EXCEPT ![r] = RepIdle] /\ UNCHANGED receipts /\ blobs' = Orphaned(r)
    BY <1>12 DEF RepStops
  <2>2. NoNewGarbage
    BY <1>1, <2>1, OrphanFacts DEF NoNewGarbage
  <2> QED
    BY <1>5, <2>1, <2>2, OneMoves
<1> QED
  BY <1>6, <1>7, <1>8, <1>9, <1>10, <1>11, <1>12

LEMMA InitWormInv == Init => WormInv
BY DEF Init, StoreInit, WormInv, WormCreditIsEarned, Probing, Credited, RepIdle, CopyStages,
       TargetStages, ObjectStages, Absent

\* One replication at a time keeps the credit it takes.
LEMMA NextWormInv ==
  ASSUME \A q, r \in Replicators : q = r, IInv, WormInv, [Next]_vars
  PROVE  WormInv'
<1>1. CASE StoreNext /\ UNCHANGED <<rep, receipts>>
  <2>1. /\ \A t \in Targets, k \in Keys : blobs'[t][k].state = blobs[t][k].state
        /\ NoNewGarbage
    BY <1>1, StoreLeavesTargets
  <2>2. \A r \in Replicators : rep[r].pc \in ProbeStages => rep[r].target \in Targets
    BY RepState DEF StageOK
  <2>3. \A r \in Replicators : Probing(rep[r])' /\ Credited(rep[r])'
    BY <1>1, <2>1, <2>2, Names DEF WormInv, Probing, Credited, Present, ProbeStages
  <2>4. WormCreditIsEarned'
    BY <1>1, <2>1 DEF WormInv, WormCreditIsEarned, NoNewGarbage
  <2> QED
    BY <2>3, <2>4 DEF WormInv
<1>2. CASE \E r \in Replicators : RepStep(r) \/ RepStops(r)
  BY <1>2, OneLooks, OneWrites DEF RepStep
<1>3. CASE UNCHANGED vars
  BY <1>3 DEF vars, storeVars, WormInv, WormCreditIsEarned, Probing, Credited, Present
<1> QED
  BY <1>1, <1>2, <1>3 DEF Next

\* When replications do not overlap, a receipt credits only targets that refuse deletion, all
\* of them if it must, and the probe's conflicting bytes never stay: whatever writers and
\* collectors do meanwhile, and wherever a replication stops.
THEOREM CreditIsEarned ==
  ASSUME \A q, r \in Replicators : q = r
  PROVE  Spec => []WormCreditIsEarned
<1>1. IInv /\ WormInv /\ [Next]_vars => (IInv /\ WormInv)'
  BY NextIInv, NextWormInv
<1>2. IInv /\ WormInv => WormCreditIsEarned
  BY DEF WormInv
<1> QED
  BY <1>1, <1>2, InitIInv, InitWormInv, PTL DEF Spec

=============================================================================
