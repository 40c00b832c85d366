--------------------- MODULE MCReconfigurationStatus ---------------------
(* A partition on n1, n2, n3 moving to one of: n1, n2, n4 (one replica     *)
(* added, as decommissioning n3 does), n1, n4, n5 (two added), or its own  *)
(* nodes (a cross-core move, nothing added).                              *)
EXTENDS ReconfigurationStatus

CONSTANTS n1, n2, n3, n4, n5

MCNodes == {n1, n2, n3, n4, n5}
MCPrevious == {n1, n2, n3}
MCCurrents == {{n1, n2, n4}, {n1, n4, n5}, {n1, n2, n3}}
=============================================================================
