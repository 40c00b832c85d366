------------------------ MODULE MCTransformService ------------------------
(* Two concurrent admin requests on one transform name, with three uuids   *)
(* so that a replaced, a removed and a fresh binary can coexist. Requests  *)
(* are interchangeable, so client permutations are a sound symmetry.      *)
EXTENDS TransformService, TLC

ClientSymmetry == Permutations(Clients)
=============================================================================
