\* Reads with the default fetch_config (strict_max_bytes = false): checks
\* the request-wide byte budget the spec states.
CONSTANTS
  p1 = p1
  p2 = p2
  p3 = p3
  Requested <- MCRequested
  Shards = {s1, s2}
  NoShard = NoShard
  MinBytes = 3
  MaxBytes = 3
  PartitionMaxBytes = 2
  MaxWait = 2
  StrictMaxBytes = FALSE
  Overshoot = 1

SPECIFICATION Spec

INVARIANT BudgetRespected

CHECK_DEADLOCK FALSE
