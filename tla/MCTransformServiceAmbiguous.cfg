\* Concurrent deploy/delete of one transform; upsert_transform may commit and still report a timeout.
CONSTANTS
  Clients = {c1, c2}
  Names = {n1}
  Keys = {k1, k2, k3}
  None = None
  AmbiguousStore = TRUE
  AmbiguousUpsert = TRUE
  AmbiguousRemove = TRUE
SYMMETRY ClientSymmetry
SPECIFICATION Spec
INVARIANTS
  NoDanglingTransform
