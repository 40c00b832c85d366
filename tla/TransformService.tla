-------------------------- MODULE TransformService --------------------------
(***************************************************************************)
(* transform::service (src/unnamed/part_000): deploy_transform,            *)
(* delete_transform and cleanup_wasm_binary, run by concurrent admin       *)
(* requests against two collaborators: the wasm binary store reached over  *)
(* rpc (store_wasm_binary, delete_wasm_binary) and the controller's        *)
(* transform metadata (plugin_frontend upsert_transform, remove_transform).*)
(*                                                                         *)
(* Each co_await is a step boundary: a request's steps interleave with the *)
(* steps of every other request. A remote call either takes effect and     *)
(* reports success, fails without effect, or (where the flag allows it)    *)
(* takes effect and still reports a failure, as a timed-out call whose     *)
(* command was applied does.                                               *)
(***************************************************************************)
EXTENDS Naturals, FiniteSets

CONSTANTS
  Clients,          \* concurrent admin requests
  Names,            \* transform names
  Keys,             \* uuids the binary store may hand out
  None,             \* no transform of that name
  AmbiguousStore,   \* store_wasm_binary may store and still report an error
  AmbiguousUpsert,  \* upsert_transform may commit and still report an error
  AmbiguousRemove   \* remove_transform may commit and still report an error

ASSUME None \notin Keys

VARIABLES
  feature,   \* the wasm_transforms feature is active
  binaries,  \* keys of binaries held by the binary store
  used,      \* keys the store has handed out
  meta,      \* committed transform metadata: name -> uuid of its binary
  req        \* per client: the request in flight and where it is

vars == << feature, binaries, used, meta, req >>

Ops == {"deploy", "delete"}
Pcs == {"idle", "store", "upsert", "remove", "cleanup"}
Results == {"none", "success", "error", "feature_disabled"}

Idle(r) == [r EXCEPT !.pc = "idle"]
Done(c, res) == req' = [req EXCEPT ![c] = [@ EXCEPT !.pc = "idle", !.result = res]]

(***************************************************************************)
(* Entry of deploy_transform and delete_transform: the feature check       *)
(* returns feature_disabled at once; otherwise the request goes on to its  *)
(* first remote call.                                                      *)
(***************************************************************************)
Start(c, op, n) ==
  /\ req[c].pc = "idle"
  /\ req' = [req EXCEPT ![c] =
               [op |-> op, name |-> n, key |-> None,
                result |-> IF feature THEN "none" ELSE "feature_disabled",
                pc |-> IF ~feature THEN "idle"
                       ELSE IF op = "deploy" THEN "store" ELSE "remove"]]
  /\ UNCHANGED << feature, binaries, used, meta >>

\* The feature table activates a feature once and never deactivates it.
ActivateFeature ==
  /\ ~feature
  /\ feature' = TRUE
  /\ UNCHANGED << binaries, used, meta, req >>

(***************************************************************************)
(* store_wasm_binary: on success the request holds the new key and goes on *)
(* to upsert_transform; on error deploy_transform returns the error.       *)
(***************************************************************************)
\* Fault model: the stored binary's key not recorded as handed out.
StoreWasmBinary_unrecorded(c) ==
  /\ req[c].pc = "store"
  /\ \E k \in Keys \ used :
       /\ binaries' = binaries \cup {k}
       /\ req' = [req EXCEPT ![c] = [@ EXCEPT !.key = k, !.pc = "upsert"]]
  /\ UNCHANGED << feature, meta, used >>

StoreWasmBinary(c) ==
  /\ req[c].pc = "store"
  /\ \/ \E k \in Keys \ used :
          /\ used' = used \cup {k}
          /\ binaries' = binaries \cup {k}
          /\ req' = [req EXCEPT ![c] = [@ EXCEPT !.key = k, !.pc = "upsert"]]
     \/ /\ Done(c, "error")
        /\ UNCHANGED << binaries, used >>
     \/ /\ AmbiguousStore
        /\ \E k \in Keys \ used :
             /\ used' = used \cup {k}
             /\ binaries' = binaries \cup {k}
        /\ Done(c, "error")
  /\ UNCHANGED << feature, meta >>

(***************************************************************************)
(* upsert_transform with the new uuid: success ends the deploy; any other  *)
(* result sends it to cleanup_wasm_binary(key) before returning the error. *)
(***************************************************************************)
\* Fault model: the binary cleaned up whatever upsert_transform returned.
UpsertTransform_cleanup_always(c) ==
  /\ req[c].pc = "upsert"
  /\ LET n == req[c].name IN
     \/ /\ meta' = [meta EXCEPT ![n] = req[c].key]
        /\ req' = [req EXCEPT ![c] = [@ EXCEPT !.result = "success", !.pc = "cleanup"]]
     \/ /\ UNCHANGED meta
        /\ req' = [req EXCEPT ![c] = [@ EXCEPT !.result = "error", !.pc = "cleanup"]]
  /\ UNCHANGED << feature, binaries, used >>

UpsertTransform(c) ==
  /\ req[c].pc = "upsert"
  /\ LET n == req[c].name IN
     \/ /\ meta' = [meta EXCEPT ![n] = req[c].key]
        /\ Done(c, "success")
     \/ /\ UNCHANGED meta
        /\ req' = [req EXCEPT ![c] = [@ EXCEPT !.result = "error", !.pc = "cleanup"]]
     \/ /\ AmbiguousUpsert
        /\ meta' = [meta EXCEPT ![n] = req[c].key]
        /\ req' = [req EXCEPT ![c] = [@ EXCEPT !.result = "error", !.pc = "cleanup"]]
  /\ UNCHANGED << feature, binaries, used >>

(***************************************************************************)
(* remove_transform: transform_does_not_exist is success (idempotent       *)
(* delete); any other error is returned; success hands back the removed    *)
(* uuid, whose binary is then cleaned up.                                  *)
(***************************************************************************)
RemoveTransform(c) ==
  /\ req[c].pc = "remove"
  /\ LET n == req[c].name IN
     \/ /\ meta[n] = None
        /\ Done(c, "success")
        /\ UNCHANGED meta
     \/ /\ meta[n] # None
        /\ meta' = [meta EXCEPT ![n] = None]
        /\ req' = [req EXCEPT ![c] =
                     [@ EXCEPT !.key = meta[n], !.result = "success", !.pc = "cleanup"]]
     \/ /\ meta[n] # None
        /\ Done(c, "error")
        /\ UNCHANGED meta
     \/ /\ AmbiguousRemove
        /\ meta[n] # None
        /\ meta' = [meta EXCEPT ![n] = None]
        /\ Done(c, "error")
  /\ UNCHANGED << feature, binaries, used >>

(***************************************************************************)
(* cleanup_wasm_binary(key): best effort; a failed or erroring delete is   *)
(* only logged, and the request returns the result it already had.         *)
(***************************************************************************)
CleanupWasmBinary(c) ==
  /\ req[c].pc = "cleanup"
  /\ \/ binaries' = binaries \ {req[c].key}
     \/ UNCHANGED binaries
  /\ req' = [req EXCEPT ![c] = Idle(@)]
  /\ UNCHANGED << feature, used, meta >>

Init ==
  /\ feature \in BOOLEAN
  /\ binaries = {}
  /\ used = {}
  /\ meta = [n \in Names |-> None]
  /\ req = [c \in Clients |->
              [op |-> "deploy", name |-> CHOOSE n \in Names : TRUE,
               key |-> None, result |-> "none", pc |-> "idle"]]

Next ==
  \/ \E c \in Clients, op \in Ops, n \in Names : Start(c, op, n)
  \/ ActivateFeature
  \/ \E c \in Clients :
       \/ StoreWasmBinary(c)
       \/ UpsertTransform(c)
       \/ RemoveTransform(c)
       \/ CleanupWasmBinary(c)

Spec == Init /\ [][Next]_vars

-----------------------------------------------------------------------------
TypeOK ==
  /\ feature \in BOOLEAN
  /\ binaries \subseteq used /\ used \subseteq Keys
  /\ meta \in [Names -> Keys \cup {None}]
  /\ req \in [Clients -> [op : Ops, name : Names, key : Keys \cup {None},
                          result : Results, pc : Pcs]]

(***************************************************************************)
(* Every committed transform refers to a binary the store still holds,     *)
(* however deploys and deletes of the same name interleave and whatever    *)
(* their remote calls report: deploy_transform's cleanup after a failed    *)
(* upsert and delete_transform's cleanup after a remove must never delete  *)
(* a binary that committed metadata points to.                             *)
(***************************************************************************)
NoDanglingTransform ==
  \A n \in Names : meta[n] # None => meta[n] \in binaries

=============================================================================
