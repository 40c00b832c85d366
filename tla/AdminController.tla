-------------------------- MODULE AdminController --------------------------
(***************************************************************************)
(* The admin API routes that write to the controller                       *)
(* (src/v/redpanda/admin/server.cc): put_feature_handler,                  *)
(* put_license_handler, patch_cluster_config_handler,                      *)
(* set_partition_replicas_handler, force_set_partition_replicas_handler,   *)
(* cancel_partition_reconfig_handler,                                      *)
(* unclean_abort_partition_reconfig_handler, cancel_node_partition_moves,  *)
(* cancel_all_partitions_reconfigs_handler, the two                        *)
(* post_cluster_partitions handlers, the broker maintenance, decommission  *)
(* and recommission handlers and raft_transfer_leadership_handler for the  *)
(* controller's raft group, with the helpers they share:                   *)
(* validate_set_replicas, need_redirect_to_leader, redirect_to_leader and  *)
(* throw_on_error.                                                         *)
(*                                                                         *)
(* Each broker answers from its own copies of controller state: its        *)
(* feature table, configuration and topic table have applied a prefix of   *)
(* the controller log, and its metadata cache names the controller leader  *)
(* it last heard of. Both may lag. A request is served in two steps, split *)
(* at the co_await of the controller write; what comes before it reads     *)
(* only local state. A redirect sends the client, which follows it, to the *)
(* address in the Location header. One partition stands for the ntp of the *)
(* replica routes.                                                         *)
(***************************************************************************)
EXTENDS Naturals, Sequences, SequencesExt, FiniteSets

CONSTANTS
  Nodes,           \* brokers
  Clients,         \* admin API clients, each with one request at a time
  Ops,             \* routes the clients call
  Licenses,        \* well-formed, unexpired licenses
  BadBodies,       \* license bodies that are empty, make_license rejects or are expired
  InitialFeature,  \* state of enhanced_force_reconfiguration in every table at start-up
  Props,           \* cluster configuration properties
  Values,          \* property -> the values its validate() accepts
  InvalidValue,    \* a value validate() rejects
  DefaultValue,    \* property -> the value it has when unset
  RequireAuth,     \* the property admin_api_require_auth
  Superusers,      \* the property superusers
  User,            \* the authenticated user who sends the requests
  ConfigPatches,   \* bodies of PATCH cluster_config with its query flags
  Targets,         \* replica lists clients ask for
  InitialReplicas, \* replica list of the partition at start-up
  Listeners,       \* node -> number of advertised kafka listeners
  HostHeaders,     \* Host headers clients send: a listener index, Other or Missing
  Other,           \* a Host header naming no kafka advertised address of the node
  Missing,         \* no Host header
  WriteErrors,     \* errors a controller write may return on the leader
  BrokerArgs,      \* broker ids clients name in the broker routes
  MaxRequests,     \* requests each client sends
  MaxElections,    \* controller leadership changes
  None             \* no leader / no license

AllOps == {"feature", "license", "config", "set_replicas", "force_replicas",
           "cancel", "abort", "cancel_node", "cancel_all", "disable", "maintenance",
           "decommission", "recommission", "transfer", "kafka_transfer",
           "transactions", "mark_expired", "majority_lost", "force_recover"}

\* The routes about the partition's raft group rather than the controller's.
PartitionOps == {"kafka_transfer", "transactions", "mark_expired"}

ASSUME /\ None \notin Nodes /\ Ops \subseteq AllOps /\ BrokerArgs \subseteq Nodes
       /\ Listeners \in [Nodes -> Nat]
       /\ HostHeaders \subseteq Nat \cup {Other, Missing}
       /\ \A k \in Props : InvalidValue \notin Values[k]
       /\ {RequireAuth, Superusers} \subseteq Props
       /\ Values[RequireAuth] = BOOLEAN /\ DefaultValue[RequireAuth] = FALSE
       /\ DefaultValue[Superusers] = {}

VARIABLES
  log,        \* the controller log
  applied,    \* node -> entries of log its tables have applied
  tables,     \* node -> its feature table, configuration, topic and members tables
  leader,     \* the controller leader, or None during an election
  view,       \* node -> controller leader in its metadata cache
  elections,  \* leadership changes so far, of the controller and the partition
  pleader,    \* the raft leader of the partition, or None
  pview,      \* node -> leader of the partition in its metadata cache
  req,        \* client -> its request and where it is
  sent        \* client -> requests sent so far

vars == << log, applied, tables, leader, view, elections, pleader, pview, req, sent >>

HighStates == {"unavailable", "available", "preparing", "active", "disabled"}

(***************************************************************************)
(* feature_state_to_high_level: the three disabled states are reported as  *)
(* one.                                                                    *)
(***************************************************************************)
\* Fault model: disabled_active left out of the collapsed disabled states.
feature_state_to_high_level_partial(s) ==
  IF s \in {"disabled_clean", "disabled_preparing"} THEN "disabled" ELSE s

feature_state_to_high_level(s) ==
  IF s \in {"disabled_clean", "disabled_active", "disabled_preparing"}
  THEN "disabled" ELSE s

(***************************************************************************)
(* How a broker's tables apply controller commands (feature_table,         *)
(* config_manager and topic_table, none of them part of this repository's  *)
(* sources). Activation passes through preparing unless the feature was    *)
(* active before it was disabled; a value configuration validation rejects *)
(* on apply leaves the property as it was; a move, a forced update, a      *)
(* cancel and an unclean abort set the replica list and leave the          *)
(* partition in progress until reconciliation finishes it. The members     *)
(* table keeps each broker's maintenance flag and membership state.        *)
(***************************************************************************)
Activate(s) ==
  IF s \in {"available", "disabled_clean", "disabled_preparing"} THEN "preparing"
  ELSE IF s = "disabled_active" THEN "active" ELSE s

Deactivate(s) ==
  IF s = "active" THEN "disabled_active"
  ELSE IF s = "preparing" THEN "disabled_preparing"
  ELSE IF s = "available" THEN "disabled_clean" ELSE s

ApplyConfig(cfg, e) ==
  [k \in Props |->
     IF k \in e.remove THEN DefaultValue[k]
     ELSE IF k \in DOMAIN e.upsert /\ e.upsert[k] \in Values[k] THEN e.upsert[k]
     ELSE cfg[k]]

ApplyEntry(t, e) ==
  CASE e.kind = "activate" -> [t EXCEPT !.feature = Activate(@)]
    [] e.kind = "deactivate" -> [t EXCEPT !.feature = Deactivate(@)]
    [] e.kind = "complete" ->
         [t EXCEPT !.feature = IF @ = "preparing" THEN "active" ELSE @]
    [] e.kind = "license" -> [t EXCEPT !.license = e.license]
    [] e.kind = "config" -> [t EXCEPT !.config = ApplyConfig(@, e)]
    [] e.kind \in {"move", "force"} ->
         [t EXCEPT !.previous = t.replicas, !.replicas = e.replicas, !.moving = TRUE]
    [] e.kind \in {"cancel", "abort"} -> [t EXCEPT !.replicas = t.previous]
    [] e.kind = "finish" -> [t EXCEPT !.moving = FALSE]
    [] e.kind = "disable" -> [t EXCEPT !.disabled = e.disabled]
    [] e.kind = "maintenance" -> [t EXCEPT !.maintenance[e.node] = e.on]
    [] e.kind = "decommission" -> [t EXCEPT !.membership[e.node] = "draining"]
    [] e.kind = "recommission" -> [t EXCEPT !.membership[e.node] = "active"]

InitialTables ==
  [feature |-> InitialFeature, license |-> None,
   config |-> DefaultValue,
   replicas |-> InitialReplicas, previous |-> InitialReplicas, moving |-> FALSE,
   disabled |-> FALSE, maintenance |-> [n \in Nodes |-> FALSE],
   membership |-> [n \in Nodes |-> "active"]]

\* The tables of a broker that has applied the whole log.
Committed == FoldLeft(ApplyEntry, InitialTables, log)

(***************************************************************************)
(* throw_on_error: the HTTP outcome of an error code. "ok" is a normal     *)
(* return; the redirects go through redirect_to_leader.                    *)
(***************************************************************************)
Unavailable503 == {"replication_error", "update_in_progress", "leadership_changed",
                   "waiting_for_recovery", "no_leader_controller", "shutting_down"}
ClusterBadRequest == {"no_update_in_progress", "transform_does_not_exist",
                      "transform_invalid_update", "transform_invalid_create",
                      "transform_invalid_source", "transform_invalid_environment",
                      "source_topic_not_exists", "source_topic_still_in_use",
                      "invalid_partition_operation"}

throw_on_error(e) ==
  CASE e.cat = "none" -> "ok"
    [] e.cat = "cluster" ->
         CASE e.code = "node_does_not_exists" -> "not_found"
           [] e.code \in {"invalid_node_operation"} \cup ClusterBadRequest -> "bad_request"
           [] e.code = "timeout" -> "gateway_timeout"
           [] e.code \in Unavailable503 -> "service_unavailable"
           [] e.code = "not_leader" -> "redirect_ntp"
           [] e.code = "not_leader_controller" -> "redirect_controller"
           [] e.code = "throttling_quota_exceeded" -> "too_many_requests"
           [] OTHER -> "server_error"
    [] e.cat = "raft" ->
         CASE e.code \in {"exponential_backoff", "disconnected_endpoint",
                          "configuration_change_in_progress",
                          "leadership_transfer_in_progress", "shutting_down",
                          "replicated_entry_truncated"} -> "service_unavailable"
           [] e.code = "timeout" -> "gateway_timeout"
           [] e.code = "transfer_to_current_leader" -> "ok"
           [] e.code = "not_leader" -> "redirect_ntp"
           [] e.code \in {"node_does_not_exists", "not_voter"} -> "bad_request"
           [] OTHER -> "server_error"
    [] e.cat = "tx" ->
         CASE e.code = "leader_not_found" -> "redirect_ntp"
           [] e.code = "pid_not_found" -> "not_found"
           [] e.code = "partition_not_found" -> "bad_request"
           [] e.code = "not_coordinator" -> "service_unavailable"
           [] OTHER -> "server_error"
    [] e.cat = "rpc" ->
         CASE e.code = "success" -> "ok"
           [] e.code \in {"disconnected_endpoint", "exponential_backoff",
                          "shutting_down", "missing_node_rpc_client"} -> "service_unavailable"
           [] e.code \in {"client_request_timeout", "connection_timeout"} -> "gateway_timeout"
           [] e.code \in {"service_error", "method_not_found",
                          "version_not_supported", "unknown"} -> "server_error"
           [] OTHER -> "ok"
    [] OTHER -> "server_error"

NoError == [cat |-> "none", code |-> "none"]
NotLeaderController == [cat |-> "cluster", code |-> "not_leader_controller"]

(***************************************************************************)
(* redirect_to_leader on node n for the ntp: 503 when its cache names no  *)
(* leader or names n itself; otherwise a 307 to the leader. The           *)
(* host is guessed from the request's Host header: a host equal to n's     *)
(* kafka advertised address at index i means the leader's advertised       *)
(* address at index i, or its rpc address if it has fewer listeners; any   *)
(* other host means the rpc address; with no Host header only the port is  *)
(* set and the host is left empty. Following the leader's listener i, the  *)
(* client's next Host header names that listener again.                    *)
(***************************************************************************)
\* metadata_cache::get_leader_id on node n: the controller's or the partition's.
LeaderIn(n, ntp) == IF ntp = "controller" THEN view[n] ELSE pview[n]

redirect_to_leader(n, h, ntp) ==
  LET l == LeaderIn(n, ntp) IN
  CASE l = None \/ l = n -> [status |-> "service_unavailable"]
    [] h = Missing -> [status |-> "redirect", to |-> None, host |-> h]
    [] h \in 1..Listeners[n] /\ h <= Listeners[l] ->
         [status |-> "redirect", to |-> l, host |-> h]
    [] OTHER -> [status |-> "redirect", to |-> l, host |-> Other]

\* need_redirect_to_leader: throws (503) when no leader is known.
need_redirect_to_leader(n, ntp) == LeaderIn(n, ntp) # n

\* The ntp a route is about.
NtpOf(op) == IF op \in PartitionOps THEN "partition" ELSE "controller"

\* A client with no request in flight; an answered request keeps only its answer.
NoRequest ==
  [op |-> "feature", arg |-> "active", at |-> CHOOSE n \in Nodes : TRUE, host |-> Other,
   pc |-> "idle", res |-> "none", to |-> None]

Reply(c, res) == req' = [req EXCEPT ![c] = [NoRequest EXCEPT !.res = res]]

\* A redirect_exception, or the 503 redirect_to_leader throws instead.
Redirect(c) ==
  LET r == redirect_to_leader(req[c].at, req[c].host, NtpOf(req[c].op)) IN
  IF r.status = "redirect"
  THEN req' = [req EXCEPT ![c].pc = "redirected", ![c].res = "redirect",
                          ![c].to = r.to, ![c].host = r.host]
  ELSE Reply(c, r.status)

Satisfies(want, s) ==
  \/ feature_state_to_high_level(s) = want
  \/ want = "active" /\ s = "preparing"

(***************************************************************************)
(* validate_set_replicas: every replica names an existing node (and        *)
(* shard), and no node appears twice. The schema admits an empty list.     *)
(***************************************************************************)
validate_set_replicas(r) ==
  /\ \A i \in DOMAIN r : r[i] \in Nodes
  /\ \A i, j \in DOMAIN r : i < j => r[i] # r[j]

\* Fault model: replica lists compared as sets, ignoring their order.
SameReplicas_unordered(a, b) == Range(a) = Range(b)

\* current_assignment->replicas == replicas
SameReplicas(a, b) == a = b

\* The feature the feature routes toggle is enhanced_force_reconfiguration.
EnhancedForce(n) == tables[n].feature = "active"

\* cluster::is_proper_subset(replicas, current_replicas)
IsProperSubset(a, b) == Range(a) \subseteq Range(b) /\ Len(a) < Len(b)

ArgsOf(op) ==
  CASE op = "feature" -> {"active", "disabled"}
    [] op = "license" -> Licenses \cup BadBodies
    [] op = "config" -> ConfigPatches
    [] op \in {"set_replicas", "force_replicas"} -> Targets
    [] op \in {"cancel", "abort", "cancel_all"} -> {"none"}
    [] op \in {"cancel_node", "decommission", "recommission"} -> BrokerArgs
    [] op = "disable" -> [disabled : BOOLEAN]
    [] op = "maintenance" -> [node : BrokerArgs, on : BOOLEAN]
    [] op \in {"transfer", "kafka_transfer"} -> Nodes \cup {None}
    [] op = "transactions" -> {"none"}
    [] op = "majority_lost" -> SUBSET BrokerArgs
    [] op = "force_recover" -> {[dead |-> BrokerArgs, replicas |-> t] : t \in Targets}
    [] op = "mark_expired" -> {"pid"}

-----------------------------------------------------------------------------
(***************************************************************************)
(* A client sends a request to a node. The JSON validators restrict a      *)
(* feature body to "active" or "disabled"; malformed bodies and unknown    *)
(* feature names are 400s that change nothing and are left out.            *)
(***************************************************************************)
Send(c, op, arg, n, h) ==
  /\ req[c].pc = "idle" /\ sent[c] < MaxRequests
  /\ sent' = [sent EXCEPT ![c] = @ + 1]
  /\ req' = [req EXCEPT ![c] = [op |-> op, arg |-> arg, at |-> n, host |-> h,
                                pc |-> "handle", res |-> "none", to |-> None]]
  /\ UNCHANGED << log, applied, tables, leader, view, elections, pleader, pview >>

\* The client follows a 307; a Location with an empty host leads nowhere.
Follow(c) ==
  /\ req[c].pc = "redirected"
  /\ IF req[c].to = None
     THEN Reply(c, "bad_redirect")
     ELSE req' = [req EXCEPT ![c].pc = "handle", ![c].at = req[c].to]
  /\ UNCHANGED << log, applied, tables, leader, view, elections, pleader, pview, sent >>

Write(c) == req' = [req EXCEPT ![c].pc = "write"]

(***************************************************************************)
(* put_feature_handler up to the write: read the state from this node's   *)
(* feature table; a request for the state it already shows returns OK at   *)
(* once; then redirect unless this node's cache names it leader.           *)
(***************************************************************************)
\* Fault model: with no leader known the handler waits instead of failing.
HandleFeature_wait_leader(c) ==
  /\ req[c].pc = "handle" /\ req[c].op = "feature"
  /\ LET n   == req[c].at
         cur == feature_state_to_high_level(tables[n].feature)
     IN CASE cur = req[c].arg -> Reply(c, "ok")
          [] view[n] = None -> FALSE
          [] need_redirect_to_leader(n, "controller") -> Redirect(c)
          [] OTHER -> Write(c)
  /\ UNCHANGED << log, applied, tables, leader, view, elections, pleader, pview, sent >>

HandleFeature(c) ==
  /\ req[c].pc = "handle" /\ req[c].op = "feature"
  /\ LET n   == req[c].at
         cur == feature_state_to_high_level(tables[n].feature)
     IN CASE cur = req[c].arg -> Reply(c, "ok")
          [] view[n] = None -> Reply(c, "service_unavailable")
          [] need_redirect_to_leader(n, "controller") -> Redirect(c)
          [] OTHER -> Write(c)
  /\ UNCHANGED << log, applied, tables, leader, view, elections, pleader, pview, sent >>

(***************************************************************************)
(* put_license_handler up to the write: an empty body or one make_license  *)
(* rejects or finds expired is a 400; a license equal to the one this      *)
(* node's feature table holds returns OK at once. The license feature is   *)
(* taken to be active.                                                     *)
(***************************************************************************)
HandleLicense(c) ==
  /\ req[c].pc = "handle" /\ req[c].op = "license"
  /\ LET n == req[c].at IN
     CASE req[c].arg \in BadBodies -> Reply(c, "bad_request")
       [] tables[n].license = req[c].arg -> Reply(c, "ok")
       [] OTHER -> Write(c)
  /\ UNCHANGED << log, applied, tables, leader, view, elections, pleader, pview, sent >>

(***************************************************************************)
(* patch_cluster_config_handler up to the write. Unless "force" is set,    *)
(* the patch is checked against a scratch copy of this node's              *)
(* configuration: unknown names and values validate() rejects are 400s,    *)
(* and an upsert that set_value reports as unchanged is a no-op. A dry run *)
(* returns the config version; a patch whose upserts are all no-ops and    *)
(* that removes nothing returns it too, without writing.                   *)
(***************************************************************************)
\* The errors map: unknown names and rejected values, upserts then removes.
ConfigErrors(p) ==
  {k \in DOMAIN p.upsert : k \notin Props \/ p.upsert[k] \notin Values[k]} \cup (p.remove \ Props)

\* upsert_no_op_names: upserts whose set_value on the scratch copy changes nothing.
ConfigNoops(p, cfg) == {k \in DOMAIN p.upsert \cap Props : p.upsert[k] = cfg[k]}

(***************************************************************************)
(* config_multi_property_validation, its admin_api_require_auth rule, on   *)
(* the scratch copy upd with the upserts set and the removes reset. The    *)
(* rule runs only when the upserts name admin_api_require_auth or          *)
(* superusers and upd requires auth: it refuses an empty superusers list,  *)
(* and one without the requesting user unless this node's live            *)
(* configuration cur already required auth.                                *)
(***************************************************************************)
AuthErrors(p, upd, cur, u) ==
  IF /\ {RequireAuth, Superusers} \cap DOMAIN p.upsert # {}
     /\ upd[RequireAuth]
  THEN CASE upd[Superusers] = {} -> {RequireAuth}
         [] u \notin upd[Superusers] /\ ~cur[RequireAuth] -> {RequireAuth}
         [] OTHER -> {}
  ELSE {}

HandleConfig(c) ==
  /\ req[c].pc = "handle" /\ req[c].op = "config"
  /\ LET p      == req[c].arg
         cfg    == tables[req[c].at].config
         upd    == ApplyConfig(cfg, p)
         errors == IF p.force THEN {}
                   ELSE ConfigErrors(p) \cup AuthErrors(p, upd, cfg, User)
         noops  == IF p.force THEN {} ELSE ConfigNoops(p, cfg)
     IN CASE errors # {} -> Reply(c, "bad_request")
          [] p.dry_run -> Reply(c, "dry_run")
          [] Cardinality(DOMAIN p.upsert) = Cardinality(noops) /\ p.remove = {} ->
               Reply(c, "ok")
          [] OTHER -> Write(c)
  /\ UNCHANGED << log, applied, tables, leader, view, elections, pleader, pview, sent >>

(***************************************************************************)
(* set_partition_replicas_handler up to the write: no redirect; a replica  *)
(* list equal to the one in this node's topic table is a no-op.            *)
(***************************************************************************)
HandleSetReplicas(c) ==
  /\ req[c].pc = "handle" /\ req[c].op = "set_replicas"
  /\ LET r == req[c].arg IN
     CASE ~validate_set_replicas(r) -> Reply(c, "bad_request")
       [] SameReplicas(tables[req[c].at].replicas, r) -> Reply(c, "ok")
       [] OTHER -> Write(c)
  /\ UNCHANGED << log, applied, tables, leader, view, elections, pleader, pview, sent >>

(***************************************************************************)
(* force_set_partition_replicas_handler up to the write: redirect to the  *)
(* controller leader first; then, from this node's topic table, refuse     *)
(* while an update is in progress, return OK for the current list, and     *)
(* unless enhanced_force_reconfiguration is active in this node's feature  *)
(* table accept only a proper subset of the current replicas. The          *)
(* force_partition_reconfiguration feature is taken to be active.          *)
(***************************************************************************)
HandleForceReplicas(c) ==
  /\ req[c].pc = "handle" /\ req[c].op = "force_replicas"
  /\ LET n == req[c].at
         r == req[c].arg
         t == tables[n]
     IN CASE view[n] = None -> Reply(c, "service_unavailable")
          [] need_redirect_to_leader(n, "controller") -> Redirect(c)
          [] ~validate_set_replicas(r) -> Reply(c, "bad_request")
          [] t.moving -> Reply(c, "bad_request")
          [] SameReplicas(t.replicas, r) -> Reply(c, "ok")
          [] ~EnhancedForce(n) /\ ~IsProperSubset(r, t.replicas) -> Reply(c, "bad_request")
          [] OTHER -> Write(c)
  /\ UNCHANGED << log, applied, tables, leader, view, elections, pleader, pview, sent >>

(***************************************************************************)
(* get_majority_lost_partitions: redirect to the controller leader, refuse *)
(* an empty dead_nodes parameter, then ask the topics frontend, whose      *)
(* result is read-only; its errors are mapped by the handler itself, not   *)
(* by throw_on_error. The frontend's answer is the environment.            *)
(***************************************************************************)
ConcurrentModification == [cat |-> "cluster", code |-> "concurrent_modification_error"]
InvalidRequest == [cat |-> "cluster", code |-> "invalid_request"]

MajorityLostStatus(e) ==
  CASE e = NoError -> "ok"
    [] e = ConcurrentModification -> "service_unavailable"
    [] e = InvalidRequest -> "bad_request"
    [] OTHER -> "server_error"

GetMajorityLost(c) ==
  /\ req[c].pc = "handle" /\ req[c].op = "majority_lost"
  /\ LET n == req[c].at IN
     CASE view[n] = None -> Reply(c, "service_unavailable")
       [] need_redirect_to_leader(n, "controller") -> Redirect(c)
       [] req[c].arg = {} -> Reply(c, "bad_request")
       [] OTHER ->
            \E e \in {NoError, ConcurrentModification, InvalidRequest} \cup WriteErrors :
              Reply(c, MajorityLostStatus(e))
  /\ UNCHANGED << log, applied, tables, leader, view, elections, pleader, pview, sent >>

(***************************************************************************)
(* force_recover_partitions_from_nodes up to the write: refuse while       *)
(* enhanced_force_reconfiguration is not active in this node's feature     *)
(* table, before the redirect to the controller leader; the JSON body is   *)
(* checked by its validator.                                               *)
(***************************************************************************)
HandleForceRecover(c) ==
  /\ req[c].pc = "handle" /\ req[c].op = "force_recover"
  /\ LET n == req[c].at IN
     CASE ~EnhancedForce(n) -> Reply(c, "bad_request")
       [] view[n] = None -> Reply(c, "service_unavailable")
       [] need_redirect_to_leader(n, "controller") -> Redirect(c)
       [] OTHER -> Write(c)
  /\ UNCHANGED << log, applied, tables, leader, view, elections, pleader, pview, sent >>

-----------------------------------------------------------------------------
(***************************************************************************)
(* The controller writes. A frontend on a broker that is not the           *)
(* controller leader returns not_leader_controller; on the leader the      *)
(* command is replicated unless the frontend refuses it or the write       *)
(* fails, and the write returns once the leader's own tables have applied  *)
(* it. Other brokers apply it later.                                       *)
(***************************************************************************)
Outcomes(c, refusal) ==
  IF leader = req[c].at THEN {refusal} \cup WriteErrors ELSE {NotLeaderController}

Commit(entries) ==
  /\ log' = log \o entries
  /\ applied' = [applied EXCEPT ![leader] = Len(log')]
  /\ tables' = [tables EXCEPT ![leader] =
                  FoldLeft(ApplyEntry, @, SubSeq(log', applied[leader] + 1, Len(log')))]

(***************************************************************************)
(* A write whose error goes through throw_on_error: an error maps to its   *)
(* status, and not_leader_controller to a redirect.                        *)
(***************************************************************************)
ControllerWrite(c, entries, refusal) ==
  \E e \in Outcomes(c, refusal) :
    /\ IF e = NoError THEN Commit(entries) ELSE UNCHANGED << log, applied, tables >>
    /\ LET o == throw_on_error(e) IN
       IF o \in {"redirect_ntp", "redirect_controller"} THEN Redirect(c) ELSE Reply(c, o)

\* fm.write_action on the backend shard; any error becomes a 400.
WriteFeature(c) ==
  /\ req[c].pc = "write" /\ req[c].op = "feature"
  /\ \E e \in Outcomes(c, NoError) :
       IF e = NoError
       THEN /\ Commit(<<[kind |-> IF req[c].arg = "active" THEN "activate" ELSE "deactivate"]>>)
            /\ Reply(c, "ok")
       ELSE /\ Reply(c, "bad_request")
            /\ UNCHANGED << log, applied, tables >>
  /\ UNCHANGED << leader, view, elections, pleader, pview, sent >>

\* fm.update_license, then throw_on_error.
WriteLicense(c) ==
  /\ req[c].pc = "write" /\ req[c].op = "license"
  /\ ControllerWrite(c, <<[kind |-> "license", license |-> req[c].arg]>>, NoError)
  /\ UNCHANGED << leader, view, elections, pleader, pview, sent >>

\* config_frontend::patch, then throw_on_error.
WriteConfig(c) ==
  /\ req[c].pc = "write" /\ req[c].op = "config"
  /\ ControllerWrite(c, <<[kind |-> "config", upsert |-> req[c].arg.upsert,
                           remove |-> req[c].arg.remove]>>, NoError)
  /\ UNCHANGED << leader, view, elections, pleader, pview, sent >>

(***************************************************************************)
(* move_partition_replicas and force_update_partition_replicas, which the  *)
(* topics frontend refuses with update_in_progress while the partition is  *)
(* being reconfigured; cancel_moving_partition_replicas and                *)
(* abort_moving_partition_replicas, which it refuses with                  *)
(* no_update_in_progress when it is not. The cancel and abort handlers     *)
(* check nothing locally and write at once.                                *)
(***************************************************************************)
InProgress == [cat |-> "cluster", code |-> "update_in_progress"]
NoUpdateInProgress == [cat |-> "cluster", code |-> "no_update_in_progress"]

\* set_partition_replicas_handler: move_partition_replicas, then throw_on_error.
WriteReplicas(c) ==
  /\ req[c].pc = "write" /\ req[c].op = "set_replicas"
  /\ ControllerWrite(c, <<[kind |-> "move", replicas |-> req[c].arg]>>,
                     IF Committed.moving THEN InProgress ELSE NoError)
  /\ UNCHANGED << leader, view, elections, pleader, pview, sent >>

\* force_set_partition_replicas_handler: force_update_partition_replicas, then throw_on_error.
WriteForceReplicas(c) ==
  /\ req[c].pc = "write" /\ req[c].op = "force_replicas"
  /\ ControllerWrite(c, <<[kind |-> "force", replicas |-> req[c].arg]>>,
                     IF Committed.moving THEN InProgress ELSE NoError)
  /\ UNCHANGED << leader, view, elections, pleader, pview, sent >>

\* cancel_partition_reconfig_handler and unclean_abort_partition_reconfig_handler.
CancelReconfig(c) ==
  /\ req[c].pc = "handle" /\ req[c].op \in {"cancel", "abort"}
  /\ ControllerWrite(c, <<[kind |-> req[c].op]>>,
                     IF Committed.moving THEN NoError ELSE NoUpdateInProgress)
  /\ UNCHANGED << leader, view, elections, pleader, pview, sent >>

(***************************************************************************)
(* topics_frontend::force_recover_partitions_from_nodes, then              *)
(* throw_on_error: the partition is forced onto the replicas the body      *)
(* names for it. Like a forced update the frontend refuses it with         *)
(* update_in_progress while the partition is being reconfigured.           *)
(***************************************************************************)
WriteForceRecover(c) ==
  /\ req[c].pc = "write" /\ req[c].op = "force_recover"
  /\ ControllerWrite(c, <<[kind |-> "force", replicas |-> req[c].arg.replicas]>>,
                     IF Committed.moving THEN InProgress ELSE NoError)
  /\ UNCHANGED << leader, view, elections, pleader, pview, sent >>

(***************************************************************************)
(* cancel_node_partition_moves (always with direction all) and             *)
(* cancel_all_partitions_reconfigs_handler: the topics frontend cancels    *)
(* every move in progress that involves the node, or every move, and       *)
(* returns one result per partition, so with nothing to cancel the answer  *)
(* is an empty list; only an error of the whole call goes through          *)
(* throw_on_error. Neither handler checks anything locally.                *)
(***************************************************************************)
CancelEntries(involved) ==
  IF Committed.moving /\ involved THEN <<[kind |-> "cancel"]>> ELSE << >>

CancelNodeMoves(c) ==
  /\ req[c].pc = "handle" /\ req[c].op = "cancel_node"
  /\ ControllerWrite(c, CancelEntries(req[c].arg \in Range(Committed.replicas)
                                                    \cup Range(Committed.previous)),
                     NoError)
  /\ UNCHANGED << leader, view, elections, pleader, pview, sent >>

CancelAllMoves(c) ==
  /\ req[c].pc = "handle" /\ req[c].op = "cancel_all"
  /\ ControllerWrite(c, CancelEntries(TRUE), NoError)
  /\ UNCHANGED << leader, view, elections, pleader, pview, sent >>

(***************************************************************************)
(* start_broker_maintenance_handler refuses a cluster with fewer than two  *)
(* brokers in this node's members table. It, stop_broker_maintenance,      *)
(* decomission_broker_handler and recomission_broker_handler then call the *)
(* members frontend at once and pass its error to throw_on_error.          *)
(***************************************************************************)
MembersEntry(r) ==
  IF r.op = "maintenance" THEN [kind |-> "maintenance", node |-> r.arg.node, on |-> r.arg.on]
  ELSE [kind |-> r.op, node |-> r.arg]

WriteMembers(c) ==
  /\ req[c].pc = "handle" /\ req[c].op \in {"maintenance", "decommission", "recommission"}
  /\ IF req[c].op = "maintenance" /\ req[c].arg.on /\ Cardinality(Nodes) < 2
     THEN Reply(c, "bad_request") /\ UNCHANGED << log, applied, tables >>
     ELSE ControllerWrite(c, <<MembersEntry(req[c])>>, NoError)
  /\ UNCHANGED << leader, view, elections, pleader, pview, sent >>

(***************************************************************************)
(* post_cluster_partitions_topic_handler and                               *)
(* post_cluster_partitions_topic_partition_handler: redirect to the        *)
(* controller leader first, then set_topic_partitions_disabled for the     *)
(* topic or the one partition, then throw_on_error. With one partition    *)
(* the two handlers take the same steps and are one action.                *)
(***************************************************************************)
HandleDisable(c) ==
  /\ req[c].pc = "handle" /\ req[c].op = "disable"
  /\ LET n == req[c].at IN
     CASE view[n] = None -> Reply(c, "service_unavailable")
       [] need_redirect_to_leader(n, "controller") -> Redirect(c)
       [] OTHER -> Write(c)
  /\ UNCHANGED << log, applied, tables, leader, view, elections, pleader, pview, sent >>

WriteDisable(c) ==
  /\ req[c].pc = "write" /\ req[c].op = "disable"
  /\ ControllerWrite(c, <<[kind |-> "disable", disabled |-> req[c].arg.disabled]>>, NoError)
  /\ UNCHANGED << leader, view, elections, pleader, pview, sent >>

(***************************************************************************)
(* raft_transfer_leadership_handler for the controller's raft group, which *)
(* every broker hosts. Raft on a broker that is not the leader answers     *)
(* not_leader, which throw_on_error turns into a redirect; a transfer to   *)
(* the leader itself is transfer_to_current_leader, an OK; otherwise the   *)
(* leader hands leadership to the target (to a follower when none is       *)
(* given) or times out. Once MaxElections is spent a transfer times out.   *)
(***************************************************************************)
RaftTimeout == [cat |-> "raft", code |-> "timeout"]

TransferLeadership(c) ==
  /\ req[c].pc = "handle" /\ req[c].op = "transfer"
  /\ LET n == req[c].at
         t == req[c].arg
     IN CASE leader # n -> (Redirect(c) /\ UNCHANGED << leader, elections >>)
          [] t = n -> (Reply(c, "ok") /\ UNCHANGED << leader, elections >>)
          [] OTHER ->
               \/ /\ elections < MaxElections
                  /\ leader' \in (IF t = None THEN Nodes \ {n} ELSE {t})
                  /\ elections' = elections + 1
                  /\ Reply(c, "ok")
               \/ /\ Reply(c, throw_on_error(RaftTimeout))
                  /\ UNCHANGED << leader, elections >>
  /\ UNCHANGED << log, applied, tables, view, pleader, pview, sent >>

(***************************************************************************)
(* The partition routes. A node hosts the partition when its shard table  *)
(* has it: the replicas its topic table shows, and while a move is in     *)
(* progress the previous ones too.                                         *)
(***************************************************************************)
Hosts(n) ==
  n \in Range(tables[n].replicas)
       \cup (IF tables[n].moving THEN Range(tables[n].previous) ELSE {})

(***************************************************************************)
(* kafka_transfer_leadership_handler: a node not hosting the partition     *)
(* redirects to the leader its cache names; on a host, raft answers        *)
(* not_leader off the leader, transfer_to_current_leader for a transfer to *)
(* itself and node_does_not_exists for a target outside the replica set;   *)
(* otherwise it hands leadership to the target (to another replica when   *)
(* none is given) or times out.                                            *)
(***************************************************************************)
KafkaTransferLeadership(c) ==
  /\ req[c].pc = "handle" /\ req[c].op = "kafka_transfer"
  /\ LET n      == req[c].at
         t      == req[c].arg
         voters == Range(Committed.replicas)
     IN CASE ~Hosts(n) \/ pleader # n -> (Redirect(c) /\ UNCHANGED << pleader, elections >>)
          [] t = n -> (Reply(c, "ok") /\ UNCHANGED << pleader, elections >>)
          [] t # None /\ t \notin voters ->
               /\ Reply(c, throw_on_error([cat |-> "raft", code |-> "node_does_not_exists"]))
               /\ UNCHANGED << pleader, elections >>
          [] OTHER ->
               \/ /\ elections < MaxElections
                  /\ \E l \in (IF t = None THEN voters \ {n} ELSE {t}) :
                       pleader' = l
                  /\ elections' = elections + 1
                  /\ Reply(c, "ok")
               \/ /\ Reply(c, throw_on_error(RaftTimeout))
                  /\ UNCHANGED << pleader, elections >>
  /\ UNCHANGED << log, applied, tables, leader, view, pview, sent >>

(***************************************************************************)
(* get_transactions_handler and mark_transaction_expired_handler share    *)
(* their route: redirect unless this node's cache names it the partition   *)
(* leader (503 when it names none); a node without the partition in its   *)
(* shard table is a 500; then the rm_stm call, whose error goes through    *)
(* throw_on_error. Off the raft leader rm_stm answers leader_not_found,    *)
(* which throw_on_error turns into a redirect. Transaction state itself is *)
(* not modelled.                                                           *)
(***************************************************************************)
LeaderNotFound == [cat |-> "tx", code |-> "leader_not_found"]

TxRoute(c, outcomes) ==
  LET n == req[c].at IN
  CASE pview[n] = None -> Reply(c, "service_unavailable")
    [] need_redirect_to_leader(n, "partition") -> Redirect(c)
    [] ~Hosts(n) -> Reply(c, "server_error")
    [] OTHER ->
         \E e \in IF pleader = n THEN outcomes ELSE {LeaderNotFound} :
           LET o == throw_on_error(e) IN
           IF o = "redirect_ntp" THEN Redirect(c) ELSE Reply(c, o)

\* rm_stm::get_transactions on the leader succeeds.
GetTransactions(c) ==
  /\ req[c].pc = "handle" /\ req[c].op = "transactions"
  /\ TxRoute(c, {NoError})
  /\ UNCHANGED << log, applied, tables, leader, view, elections, pleader, pview, sent >>

\* rm_stm::mark_expired on the leader succeeds or knows no such producer.
MarkTransactionExpired(c) ==
  /\ req[c].pc = "handle" /\ req[c].op = "mark_expired"
  /\ TxRoute(c, {NoError, [cat |-> "tx", code |-> "pid_not_found"]})
  /\ UNCHANGED << log, applied, tables, leader, view, elections, pleader, pview, sent >>

-----------------------------------------------------------------------------
(* The controller, as the handlers see it.                                 *)

\* A broker's tables apply the next committed command.
ApplyCommand(n) ==
  /\ applied[n] < Len(log)
  /\ applied' = [applied EXCEPT ![n] = @ + 1]
  /\ tables' = [tables EXCEPT ![n] = ApplyEntry(@, log[applied[n] + 1])]
  /\ UNCHANGED << log, leader, view, elections, pleader, pview, req, sent >>

\* The feature manager finishes a preparing feature's migration, and
\* reconciliation finishes a partition's reconfiguration, after which a
\* partition leader outside the new replica set has stepped down.
Background ==
  /\ leader # None
  /\ \/ /\ Committed.feature = "preparing" /\ Commit(<<[kind |-> "complete"]>>)
        /\ UNCHANGED pleader
     \/ /\ Committed.moving /\ Commit(<<[kind |-> "finish"]>>)
        /\ pleader' = IF pleader \in Range(Committed.replicas) THEN pleader ELSE None
  /\ UNCHANGED << leader, view, elections, pview, req, sent >>

Elect(l) ==
  /\ elections < MaxElections /\ l # leader
  /\ leader' = l /\ elections' = elections + 1
  /\ UNCHANGED << log, applied, tables, view, pleader, pview, req, sent >>

\* The partition's raft group elects one of its replicas.
PElect(l) ==
  /\ elections < MaxElections /\ l # pleader
  /\ l \in Range(Committed.replicas)
  /\ pleader' = l /\ elections' = elections + 1
  /\ UNCHANGED << log, applied, tables, leader, view, pview, req, sent >>

\* A metadata cache learns the current partition leader.
PRefreshView(n) ==
  /\ pview[n] # pleader
  /\ pview' = [pview EXCEPT ![n] = pleader]
  /\ UNCHANGED << log, applied, tables, leader, view, elections, pleader, req, sent >>

\* A metadata cache learns the current controller leader.
RefreshView(n) ==
  /\ view[n] # leader
  /\ view' = [view EXCEPT ![n] = leader]
  /\ UNCHANGED << log, applied, tables, leader, elections, pleader, pview, req, sent >>

Init ==
  /\ log = << >>
  /\ applied = [n \in Nodes |-> 0]
  /\ tables = [n \in Nodes |-> InitialTables]
  /\ leader \in Nodes
  /\ view = [n \in Nodes |-> leader]
  /\ elections = 0
  /\ pleader = Head(InitialReplicas)
  /\ pview = [n \in Nodes |-> pleader]
  /\ req = [c \in Clients |-> NoRequest]
  /\ sent = [c \in Clients |-> 0]

Handlers(c) ==
  \/ HandleFeature(c) \/ WriteFeature(c)
  \/ HandleLicense(c) \/ WriteLicense(c)
  \/ HandleConfig(c) \/ WriteConfig(c)
  \/ HandleSetReplicas(c) \/ HandleForceReplicas(c) \/ WriteReplicas(c)
  \/ WriteForceReplicas(c) \/ CancelReconfig(c)
  \/ GetMajorityLost(c) \/ HandleForceRecover(c) \/ WriteForceRecover(c)
  \/ CancelNodeMoves(c) \/ CancelAllMoves(c) \/ WriteMembers(c) \/ HandleDisable(c) \/ WriteDisable(c)
  \/ TransferLeadership(c) \/ KafkaTransferLeadership(c)
  \/ GetTransactions(c) \/ MarkTransactionExpired(c)

Next ==
  \/ \E c \in Clients, op \in Ops, n \in Nodes, h \in HostHeaders :
       \E a \in ArgsOf(op) : Send(c, op, a, n, h)
  \/ \E c \in Clients : Follow(c) \/ Handlers(c)
  \/ \E n \in Nodes : ApplyCommand(n) \/ RefreshView(n) \/ PRefreshView(n)
  \/ Background
  \/ \E l \in Nodes \cup {None} : Elect(l)
  \/ \E l \in Nodes : PElect(l)

(***************************************************************************)
(* The reactor runs every handler step that can run, metadata caches       *)
(* eventually learn the leader, and a client follows the redirects it      *)
(* gets, as HTTP clients do. Clients need not send, and elections and      *)
(* table updates come when they come.                                      *)
(***************************************************************************)
Fairness ==
  /\ \A c \in Clients : WF_vars(Handlers(c)) /\ WF_vars(Follow(c))
  /\ \A n \in Nodes : WF_vars(RefreshView(n)) /\ WF_vars(PRefreshView(n))

Spec == Init /\ [][Next]_vars /\ Fairness

-----------------------------------------------------------------------------
TypeOK ==
  /\ applied \in [Nodes -> 0..Len(log)]
  /\ leader \in Nodes \cup {None} /\ view \in [Nodes -> Nodes \cup {None}]
  /\ pleader \in Nodes \cup {None} /\ pview \in [Nodes -> Nodes \cup {None}]
  /\ \A n \in Nodes : feature_state_to_high_level(tables[n].feature) \in HighStates
  /\ \A c \in Clients :
       /\ req[c].pc \in {"idle", "handle", "write", "redirected"}
       /\ req[c].op \in Ops
       /\ req[c].at \in Nodes /\ req[c].to \in Nodes \cup {None}

(***************************************************************************)
(* What an OK answer to request r promises of the committed tables t, the *)
(* controller leader l and the partition leader pl.                        *)
(***************************************************************************)
Promised(r, t, l, pl) ==
  CASE r.op = "feature" -> Satisfies(r.arg, t.feature)
    [] r.op = "license" -> t.license = r.arg
    [] r.op = "config" ->
         /\ \A k \in DOMAIN r.arg.upsert \cap Props :
              r.arg.upsert[k] \in Values[k] => t.config[k] = r.arg.upsert[k]
         /\ \A k \in r.arg.remove \cap Props : t.config[k] = DefaultValue[k]
    [] r.op \in {"set_replicas", "force_replicas"} -> t.replicas = r.arg
    [] r.op = "force_recover" -> t.replicas = r.arg.replicas
    [] r.op = "disable" -> t.disabled = r.arg.disabled
    [] r.op = "maintenance" -> t.maintenance[r.arg.node] = r.arg.on
    [] r.op = "decommission" -> t.membership[r.arg] = "draining"
    [] r.op = "recommission" -> t.membership[r.arg] = "active"
    [] r.op = "transfer" -> IF r.arg = None THEN l \notin {r.at, None} ELSE l = r.arg
    [] r.op = "kafka_transfer" ->
         IF r.arg = None THEN pl \notin {r.at, None} ELSE pl = r.arg
    [] OTHER -> TRUE

Acked(c) == req[c].pc # "idle" /\ req'[c].pc = "idle" /\ req'[c].res = "ok"

(***************************************************************************)
(* A put feature, put license, config patch or replica change answered OK  *)
(* leaves the committed controller state as asked: the feature in the      *)
(* requested state (or preparing for it), the license the one sent, the    *)
(* upserted values set and the removed properties at their defaults, the   *)
(* partition on the requested replicas. This covers the early OK each     *)
(* handler returns when this node's own tables already show the request   *)
(* as done.                                                                *)
(***************************************************************************)
AcknowledgedPutHolds ==
  [][\A c \in Clients : Acked(c) => Promised(req[c], Committed', leader', pleader')]_vars

(***************************************************************************)
(* The same promise, for answers given by a broker whose tables have       *)
(* applied the whole controller log: the no-op checks and the writes are   *)
(* right whenever the local state they read is current.                    *)
(***************************************************************************)
AcknowledgedWhenCurrent ==
  [][\A c \in Clients :
       (Acked(c) /\ applied[req[c].at] = Len(log)) => Promised(req[c], Committed', leader', pleader')]_vars

(***************************************************************************)
(* Nobody is locked out of the admin API: the committed configuration     *)
(* never requires auth while it names no superuser. This is what the      *)
(* admin_api_require_auth rule of config_multi_property_validation is     *)
(* there to keep ("Some superusers must be defined, or nobody will be     *)
(* able to use the admin API after this request"), for patches sent       *)
(* without force.                                                          *)
(***************************************************************************)
NoAdminLockout ==
  ~(Committed.config[RequireAuth] /\ Committed.config[Superusers] = {})

(***************************************************************************)
(* A request is eventually answered with something other than a redirect: *)
(* redirects between nodes whose caches disagree on the leader end once    *)
(* the caches catch up.                                                    *)
(***************************************************************************)
RequestCompletes ==
  \A c \in Clients : req[c].pc # "idle" ~> req[c].pc = "idle"

=============================================================================
