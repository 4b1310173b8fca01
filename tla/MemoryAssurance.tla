----------------------------- MODULE MemoryAssurance -----------------------------
(* The receipt over a trace of one persisted record (memory.py), against stores   *)
(* that may be at fault.  The receipt sees what each operation returned; a fault   *)
(* of the store is seen only where an operation runs into it.                      *)
EXTENDS Naturals, Sequences, FiniteSets, SequencesExt

CONSTANTS Faults,        \* what a store may get wrong
          ReadsEach      \* bound: reads per principal

VARIABLES faults,        \* faults of this store
          memory,        \* the record: written, deleted, poisoned
          tick,          \* 0 before the record expires, 1 from then on
          trace          \* MemoryObservation, in order

memoryVars == <<faults, memory, tick, trace>>

Init ==
  /\ faults \in SUBSET Faults
  /\ memory = [written |-> FALSE, deleted |-> FALSE, poisoned |-> FALSE] /\ tick = 0 /\ trace = <<>>

Done(op, own) == Cardinality({i \in 1..Len(trace) : trace[i].op = op /\ trace[i].own = own})
Seen(op, own, allowed, content) ==
  trace' = Append(trace, [op |-> op, own |-> own, allowed |-> allowed, content |-> content, tick |-> tick])

\* The campaign against the store: each operation is observed as it returns.
Write ==
  /\ Done("write", TRUE) = 0
  /\ memory' = [memory EXCEPT !.written = TRUE]
  /\ Seen("write", TRUE, TRUE, "none") /\ UNCHANGED <<faults, tick>>
Held(own) ==
  /\ memory.written /\ "forgets" \notin faults
  /\ memory.deleted => "keeps deleted" \in faults
  /\ tick = 1 => "keeps expired" \in faults
  /\ ~own => "leaks" \in faults
Read(own) ==
  /\ memory.written /\ Done("read", own) < ReadsEach
  /\ Seen("read", own, Held(own),
          IF ~Held(own) THEN "none" ELSE IF memory.poisoned THEN "other" ELSE "record")
  /\ UNCHANGED <<faults, memory, tick>>
Delete ==
  /\ memory.written /\ Done("delete", TRUE) = 0
  /\ memory' = [memory EXCEPT !.deleted = TRUE]
  /\ Seen("delete", TRUE, TRUE, "none") /\ UNCHANGED <<faults, tick>>
Expire ==
  /\ memory.written /\ tick = 0 /\ tick' = 1
  /\ trace' = Append(trace, [op |-> "expire", own |-> TRUE, allowed |-> TRUE, content |-> "none", tick |-> 1])
  /\ UNCHANGED <<faults, memory>>
Poison ==
  /\ memory.written /\ Done("poison", FALSE) = 0
  /\ memory' = [memory EXCEPT !.poisoned = "takes poison" \in faults]
  /\ Seen("poison", FALSE, "takes poison" \in faults, "none") /\ UNCHANGED <<faults, tick>>

Next == Write \/ Delete \/ Expire \/ Poison \/ \E own \in BOOLEAN : Read(own)
Spec == Init /\ [][Next]_memoryVars

-----------------------------------------------------------------------------
(* MemoryAssuranceReceipt.create                                              *)

Observed(op, own) == {i \in 1..Len(trace) : trace[i].op = op /\ trace[i].own = own}
PersistenceObserved ==
  /\ Observed("write", TRUE) # {}
  /\ \E i \in Observed("read", TRUE) : trace[i].allowed /\ trace[i].content = "record" /\ trace[i].tick < 1
CrossUserIsolationObserved == \E i \in Observed("read", FALSE) : ~trace[i].allowed
\* Any denied read not before the tick of the deletion.
DeletionEnforced ==
  \E d \in Observed("delete", TRUE) : \E i \in Observed("read", TRUE) :
    trace[i].tick >= trace[d].tick /\ ~trace[i].allowed
TtlEnforced ==
  /\ Observed("expire", TRUE) # {}
  /\ \E i \in Observed("read", TRUE) : trace[i].tick >= 1 /\ ~trace[i].allowed

\* Mutant: the poisoning relation looks at the attempts alone.
FaultyPoisonRejectedAttempts ==
  Observed("poison", FALSE) # {} /\ \A i \in Observed("poison", FALSE) : ~trace[i].allowed
PoisonRejected ==
  /\ Observed("poison", FALSE) # {} /\ \A i \in Observed("poison", FALSE) : ~trace[i].allowed
  /\ \A i \in Observed("read", FALSE) : ~(trace[i].allowed /\ trace[i].content = "record")
MemoryAccepted ==
  PersistenceObserved /\ CrossUserIsolationObserved /\ DeletionEnforced /\ TtlEnforced /\ PoisonRejected

-----------------------------------------------------------------------------
(* Properties                                                                 *)

\* A receipt that is accepted under the default policy leaves no room for a store that lost the
\* record, took a poisoned one, or served it to another principal during the campaign.
AcceptedMemoryHolds ==
  MemoryAccepted =>
    /\ {"forgets", "takes poison"} \cap faults = {}
    /\ \A i \in Observed("read", FALSE) : ~trace[i].allowed
=============================================================================
