------------------------------ MODULE BlobStore ------------------------------
(* Content-addressed evidence blobs: FilesystemBlobBackend and                *)
(* ContentAddressedEvidenceStore (evidence/blob_store.py) and reference-safe  *)
(* garbage collection (evidence/retention.py).  A key is the hash of the      *)
(* logical evidence, so two envelopes of one key differ at most in their      *)
(* compression.  Writers and operators are processes that share a directory   *)
(* and no lock; each system call on the directory is a step, and a process    *)
(* may stop, by a signal or an I/O error, between any two of them.            *)
EXTENDS Naturals, FiniteSets

CONSTANTS Objects,     \* keys of trial evidence
          Targets,     \* replication targets; a target is also the key of its probe sentinel
          Source,      \* the backend the writers write to
          Writers,     \* processes that write evidence to Source
          Collectors,  \* operators that run garbage collection on Source
          Replicators, \* processes that replicate Source
          Nobody,      \* not a process
          Exclusive,   \* do the operators keep writers away from garbage collection?
          MaxAborts    \* bound: processes that stop half-way

ASSUME NamesAssumption ==
  /\ Source \notin Targets
  /\ Objects \cap Targets = {}
  /\ Nobody \notin Writers \cup Replicators
  /\ Writers \cap Replicators = {}
ASSUME ParametersAssumption == Exclusive \in BOOLEAN /\ MaxAborts \in Nat

Keys == Objects \cup Targets
Backends == {Source} \cup Targets
Forms == {"none", "gzip"}

VARIABLES blobs,   \* blobs[b][k]: the file of key k in backend b
          writer,  \* writer[w]: where write() of w stands, its key and its compression
          gc,      \* gc[c]: where the garbage collection of operator c stands
          refs,    \* the evidence its owners refer to
          aborts   \* how many processes stopped half-way

storeVars == <<blobs, writer, gc, refs, aborts>>

-----------------------------------------------------------------------------
(* The backend                                                                *)

\* A partial file lacks bytes; owner: the process that holds it open for writing.
Blobs == [state : {"absent", "partial", "whole", "garbage"}, form : Forms,
          owner : Writers \cup Replicators \cup {Nobody}]
Absent == [state |-> "absent", form |-> "none", owner |-> Nobody]
Partial(form, p) == [state |-> "partial", form |-> form, owner |-> p]
Whole(form) == [state |-> "whole", form |-> form, owner |-> Nobody]
Garbage == [state |-> "garbage", form |-> "none", owner |-> Nobody]

Present(b, k) == blobs[b][k].state # "absent"
\* ContentAddressedEvidenceStore.read: every other file fails one of its checks.
Readable(b, k) == blobs[b][k].state = "whole"

\* put_if_absent: the exclusive create, and then the bytes.  A file that was unlinked
\* in between gets them too, but nobody can open it any more.
Create(b, k, form, p) == blobs' = [blobs EXCEPT ![b][k] = Partial(form, p)]
FillIn(b, k, p) ==
  blobs' = IF blobs[b][k].owner = p THEN [blobs EXCEPT ![b][k] = Whole(@.form)] ELSE blobs
Remove(b, k) == blobs' = [blobs EXCEPT ![b][k] = Absent]

\* The process stops; its descriptor is closed and what it wrote so far remains.
Orphaned(p) ==
  [b \in Backends |-> [k \in Keys |->
    IF blobs[b][k].owner = p THEN [blobs[b][k] EXCEPT !.owner = Nobody] ELSE blobs[b][k]]]

-----------------------------------------------------------------------------
(* Initial state                                                              *)

WriterIdle == [pc |-> "idle", key |-> Source, form |-> "none"]
CollectorIdle == [pc |-> "idle", refs |-> {}, candidates |-> {}]

StoreInit ==
  /\ blobs = [b \in Backends |-> [k \in Keys |-> Absent]]
  /\ writer = [w \in Writers |-> WriterIdle]
  /\ gc = [c \in Collectors |-> CollectorIdle]
  /\ refs = {}
  /\ aborts = 0

-----------------------------------------------------------------------------
(* ContentAddressedEvidenceStore.write                                        *)

WritersQuiet == \A w \in Writers : writer[w].pc = "idle"
CollectorsQuiet == \A c \in Collectors : gc[c].pc = "idle"

WriterGoes(w, stage) ==
  /\ writer' = [writer EXCEPT ![w].pc = stage]
  /\ UNCHANGED <<gc, refs, aborts>>
WriterRaises(w) ==
  /\ writer' = [writer EXCEPT ![w] = WriterIdle]
  /\ UNCHANGED <<gc, refs, aborts>>

\* An existing file under the key must read back as this evidence.
Put(w) ==
  /\ writer[w].pc = "idle"
  /\ Exclusive => CollectorsQuiet
  /\ \E k \in Objects, form \in Forms :
       LET created == ~ Present(Source, k) IN
       /\ writer' = [writer EXCEPT ![w] =
                       [pc |-> IF created THEN "fill" ELSE "compare", key |-> k, form |-> form]]
       /\ IF created THEN Create(Source, k, form, w) ELSE UNCHANGED blobs
  /\ UNCHANGED <<gc, refs, aborts>>

Fill(w) ==
  /\ writer[w].pc = "fill"
  /\ FillIn(Source, writer[w].key, w)
  /\ WriterGoes(w, "written")

FaultyCompareUnread(w) ==
  /\ writer[w].pc = "compare"
  /\ WriterGoes(w, "written")
  /\ UNCHANGED blobs

\* read(), and then manifest() reads the file a second time.
Compare(w) ==
  /\ writer[w].pc = "compare"
  /\ IF Readable(Source, writer[w].key) THEN WriterGoes(w, "manifest") ELSE WriterRaises(w)
  /\ UNCHANGED blobs

Manifest(w) ==
  /\ writer[w].pc = "manifest"
  /\ IF Readable(Source, writer[w].key) THEN WriterGoes(w, "written") ELSE WriterRaises(w)
  /\ UNCHANGED blobs

\* The caller, holding the manifest, refers to the evidence; later it may let go of it.
Refer(w) ==
  /\ writer[w].pc = "written"
  /\ refs' = refs \cup {writer[w].key}
  /\ writer' = [writer EXCEPT ![w] = WriterIdle]
  /\ UNCHANGED <<blobs, gc, aborts>>

LetGo ==
  /\ \E k \in refs : refs' = refs \ {k}
  /\ UNCHANGED <<blobs, writer, gc, aborts>>

WriterStops(w) ==
  /\ writer[w].pc # "idle"
  /\ aborts < MaxAborts
  /\ aborts' = aborts + 1
  /\ blobs' = Orphaned(w)
  /\ writer' = [writer EXCEPT ![w] = WriterIdle]
  /\ UNCHANGED <<gc, refs>>

-----------------------------------------------------------------------------
(* Garbage collection                                                         *)

CollectorGoes(c, state) ==
  /\ gc' = [gc EXCEPT ![c] = state]
  /\ UNCHANGED <<writer, refs, aborts>>

\* RetentionReferenceSet.create
SnapshotReferences(c) ==
  /\ gc[c].pc = "idle"
  /\ Exclusive => WritersQuiet
  /\ CollectorGoes(c, [pc |-> "plan", refs |-> refs, candidates |-> {}])
  /\ UNCHANGED blobs

\* GarbageCollectionPlan.create
PlanDeletion(c) ==
  /\ gc[c].pc = "plan"
  /\ CollectorGoes(c, [gc[c] EXCEPT !.pc = "confirm",
                         !.candidates = {k \in Keys : Present(Source, k)} \ gc[c].refs])
  /\ UNCHANGED blobs

\* execute_garbage_collection, handed the references as they are when it is called.
Confirm(c) ==
  /\ gc[c].pc = "confirm"
  /\ IF refs = gc[c].refs /\ gc[c].candidates \cap refs = {}
     THEN CollectorGoes(c, [gc[c] EXCEPT !.pc = "delete"])
     ELSE CollectorGoes(c, CollectorIdle)
  /\ UNCHANGED blobs

Delete(c) ==
  /\ gc[c].pc = "delete"
  /\ \E k \in gc[c].candidates :
       /\ Remove(Source, k)
       /\ CollectorGoes(c, [gc[c] EXCEPT !.candidates = @ \ {k}])

CollectorDone(c) ==
  /\ gc[c].pc = "delete" /\ gc[c].candidates = {}
  /\ CollectorGoes(c, CollectorIdle)
  /\ UNCHANGED blobs

\* The operator decides against the plan, or its process stops.
GiveUpPlan(c) ==
  /\ gc[c].pc # "idle"
  /\ CollectorGoes(c, CollectorIdle)
  /\ UNCHANGED blobs

StoreNext ==
  \/ \E w \in Writers :
       Put(w) \/ Fill(w) \/ Compare(w) \/ Manifest(w) \/ Refer(w) \/ WriterStops(w)
  \/ \E c \in Collectors :
       \/ SnapshotReferences(c) \/ PlanDeletion(c) \/ Confirm(c) \/ Delete(c)
       \/ CollectorDone(c) \/ GiveUpPlan(c)
  \/ LetGo

-----------------------------------------------------------------------------
(* Properties                                                                 *)

WriterStages == {"idle", "fill", "compare", "manifest", "written"}
CollectorStages == {"idle", "plan", "confirm", "delete"}

StoreTypeOK ==
  /\ blobs \in [Backends -> [Keys -> Blobs]]
  /\ writer \in [Writers -> [pc : WriterStages, key : Objects \cup {Source}, form : Forms]]
  /\ gc \in [Collectors -> [pc : CollectorStages, refs : SUBSET Keys,
                            candidates : SUBSET Keys]]
  /\ refs \subseteq Objects
  /\ aborts \in 0 .. MaxAborts

\* Evidence somebody refers to can be read: neither a half-written file left by a dead
\* writer nor a deletion planned before the reference existed stands in its place.
ReferencedIsReadable == \A k \in refs : Readable(Source, k)

\* evidence/retention.py: execute_garbage_collection deletes "only candidates from the exact
\* still-current reference snapshot", "refusing to delete currently referenced evidence".
DeletionsAreUnreferenced ==
  \A c \in Collectors : gc[c].pc = "delete" => gc[c].candidates \cap refs = {}

=============================================================================
