\* Concurrent deploy/delete of one transform; upsert_transform reports what it did.
CONSTANTS
  Clients = {c1, c2}
  Names = {n1}
  Keys = {k1, k2, k3}
  None = None
  AmbiguousStore = TRUE
  AmbiguousUpsert = FALSE
  AmbiguousRemove = TRUE
SYMMETRY ClientSymmetry
SPECIFICATION Spec
INVARIANTS
  TypeOK
  NoDanglingTransform
