\* Reconciliation rows of a node with several backend operations.
CONSTANTS
  n1 = n1
  n2 = n2
  n3 = n3
  n4 = n4
  n5 = n5
  Nodes <- MCNodes
  Previous <- MCPrevious
  Currents <- MCCurrents
  Shards = {0, 1}
  OpTypes = {add_replica}
  MaxSize = 3
  MaxOps = 2
  MaxRevision = 2
  MaxRetry = 1
  Width = 3
  Retention = TRUE
SPECIFICATION Spec
PROPERTY OperationRowsFaithful
