-------------------------- MODULE EvidenceRegister --------------------------
(***************************************************************************)
(* What an evidence store promises about one record key: the record is     *)
(* written at most once and never changes, and once some write has been    *)
(* acknowledged the record is never lost.                                  *)
(***************************************************************************)
CONSTANTS Values, NoRecord

VARIABLES
    record,   \* the committed evidence, or NoRecord
    acked     \* the evidence for which a write returned its manifest

vars == <<record, acked>>

Init == record = NoRecord /\ acked = {}

\* A record becomes visible once; a second body can never replace it.
Commit == record = NoRecord /\ record' \in Values /\ UNCHANGED acked

\* A write returns only for the evidence that is the record.
Acknowledge == record # NoRecord /\ acked' = acked \cup {record} /\ UNCHANGED record

\* A crash may lose a record that nobody has been promised.
Lose == acked = {} /\ record' = NoRecord /\ UNCHANGED acked

Next == Commit \/ Acknowledge \/ Lose

Spec == Init /\ [][Next]_vars
=============================================================================
