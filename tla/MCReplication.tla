---------------------------- MODULE MCReplication ----------------------------
(* Instances of Replication.                                                  *)
EXTENDS Replication, TLC

\* Writers are interchangeable.
Symmetry == Permutations(Writers)

=============================================================================
