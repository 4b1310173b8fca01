\* A replication that stops once while it copies, and is retried for ever.
CONSTANTS
  Objects = {o1}
  Targets = {t1}
  Source = source
  Worm = {t1}
  Writers = {w1}
  Collectors = {}
  Replicators = {r1}
  Nobody = nobody
  Exclusive = TRUE
  MaxAborts = 1
SPECIFICATION RetrySpec
PROPERTY RetryConverges
