------------------------- MODULE MCFetchOperation --------------------------
(***************************************************************************)
(* Model-checking instance of FetchOperation: three partitions of a        *)
(* request spread over two shards, a budget smaller than the partitions'   *)
(* combined maximum, a min_bytes that one small read does not reach, and a *)
(* wait long enough for several debounce passes.                           *)
(***************************************************************************)
EXTENDS FetchOperation

CONSTANTS p1, p2, p3

MCRequested == << p1, p2, p3 >>

=============================================================================
