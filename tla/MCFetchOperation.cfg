\* Strict reads: checks the operation's safety and termination.
CONSTANTS
  p1 = p1
  p2 = p2
  p3 = p3
  Requested <- MCRequested
  Shards = {s1, s2}
  NoShard = NoShard
  MinBytes = 3
  MaxBytes = 3
  PartitionMaxBytes = 2
  MaxWait = 2
  StrictMaxBytes = TRUE
  Overshoot = 1

SPECIFICATION Spec

INVARIANT TypeOK
INVARIANT ResponseAccounting
 
PROPERTY SlotsFinal
PROPERTY Termination

\* A single Fetch operation ends: once the response is sent and every late
\* reply dropped, no step is left.
CHECK_DEADLOCK FALSE
