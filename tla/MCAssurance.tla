---------------------------- MODULE MCAssurance ----------------------------
(* Values for the constants of Assurance that a configuration cannot write.    *)
EXTENDS Assurance

SomePolicies ==
  { [minResolved |-> 2, minRate |-> 80, minWilson |-> 30, maxCritical |-> 0, maxBlocked |-> 0,
     maxInconclusive |-> 0],
    [minResolved |-> 1, minRate |-> 50, minWilson |-> 9, maxCritical |-> 0, maxBlocked |-> 1,
     maxInconclusive |-> 1] }
SomeLimits ==
  [attempts : 1..3, wall : {6}, interval : {1, 2}, tokens : {1, 2}, price : {1}, ceiling : {2, 4}]
SomeInputs == {[i \in 1..n |-> i] : n \in {1, 3, 4, 5}}
SomeQuorums ==
  { [quorum |-> 1, age |-> 0, delegation |-> TRUE, escalation |-> TRUE],
    [quorum |-> 2, age |-> 1, delegation |-> TRUE, escalation |-> FALSE] }
\* One pull request that others may touch twice, or two uploads for one that they leave alone.
SomeRooms == {[turns |-> 2, uploads |-> 1], [turns |-> 0, uploads |-> 2]}
=============================================================================
