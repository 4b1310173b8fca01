\* Two writers, a garbage collection that excludes them, one replication to a target that
\* refuses deletion and one that does not.
CONSTANTS
  Objects = {o1}
  Targets = {t1, t2}
  Source = source
  Worm = {t1}
  Writers = {w1, w2}
  Collectors = {c1}
  Replicators = {r1}
  Nobody = nobody
  Exclusive = TRUE
  MaxAborts = 1
SPECIFICATION Spec
INVARIANTS
  ReplicasAreExact
  WormCreditIsEarned
  ReferencedIsReadable
PROPERTY NoClobber
SYMMETRY Symmetry
