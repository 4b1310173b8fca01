-------------------------- MODULE MCEvidenceStore --------------------------
(* Instances of EvidenceStore for TLC: symmetry over interchangeable names.  *)
EXTENDS EvidenceStore, TLC

Symmetry == Permutations(Writers \ HardenedWriters) \cup Permutations(Values) \cup Permutations(Inodes)
            \cup Permutations(Operators)
=============================================================================
