# TLA+ models of redpanda's Fetch engine, admin API controller routes, log-level overrides, reconfiguration progress and transform service

This directory holds TLA+ specifications of parts of this repository, and the TLC configurations that check them.
The repository's sources are `src/src/v/kafka/server/handlers/fetch.h`, `src/src/v/redpanda/admin/server.cc`, `src/unnamed/part_000` (`transform::service`), `src/src/v/kafka/server/group_tx_tracker_stm.h` and `src/src/v/pandaproxy/schema_registry/validation.h`.
Their behaviour is described in `spec.md`.

## The system and its parts

| Part | Source | State | Operations | Interacts with |
|---|---|---|---|---|
| Fetch operation context | fetch.h `op_context` 22-139 | `bytes_left`, `response_size`, `response_error`, `deadline`, `initial_fetch`, response slots | `should_stop_fetch`, `over_min_bytes`, `is_empty_request`, `for_each_fetch_partition`, `response_iterator::set` | planner, shards, session |
| Planner and cross-shard dispatch | fetch.h `shard_fetch`, `fetch_plan` 230-256; fetch.cc (not in the repository, so modelled from spec.md §4) | per-shard request lists, calls in flight | plan, dispatch one call per shard, place results, retry until stop | partition read, op context |
| Partition read | fetch.h `read_result`, `fetch_config`, `read_from_ntp` | none here; storage is external | read up to a cap (strict) or past it (`strict_max_bytes` false, the default) | storage engine |
| Fetch session | fetch.h 100-121 (insertion-order branch) | session partitions in insertion order | incremental fetch | op context |
| Admin log-level overrides | server.cc 320, 792-823, 1368-1443 | logger levels, `_log_level_resets`, `_log_level_timer` | set_log_level route, timer handler, rearm | HTTP clients, reactor timer |
| Admin controller and partition routes | server.cc 825-962, 1128-1292, 1495-1529, 1657-2033, 2046-2212, 2346-2470, 2603-2769, 2878-3040, 3392-3457, 3665-3712, 4199-4290 | each broker's copy of the controller tables, its metadata cache for the controller and the partition | feature, license, config patch (with the admin_api_require_auth rule), replica moves and cancels, partition disable, maintenance, decommission, controller and partition leadership transfer, transactions listing and expiry, majority-loss report and forced recovery; redirect to leader; error mapping | controller log and frontends, partition raft group and rm_stm, HTTP clients |
| Admin reconfiguration status | server.cc 2358-2429, 2771-2875 | none; reads controller state | reconfiguration and decommission progress reports | controller |
| Other admin handlers | server.cc | outside this repository | self-test, cloud storage, restart, read-only reports | self-test frontend, cloud storage |
| Transform service | part_000 87-172 | wasm binary store, committed transform metadata | deploy_transform, delete_transform, cleanup_wasm_binary | rpc binary store, plugin_frontend |
| Group tx tracker STM | group_tx_tracker_stm.h | declared only | declared only | raft |
| Schema id validator and serde | validation.h | none | validation, serialization | none |

These are the behaviours that make the code hard to get right:
- **Fetch.** Several shards run their reads concurrently against one byte budget. A partition can move between planning and the read. The deadline can race calls still in flight. Results arrive in any order and fill slots placed in request order. The long-poll loop must end.
- **Log levels.** Overrides of the same logger overlap. Permanent and temporary changes interleave. A single timer must always sit at the earliest expiry.
- **Transforms.** Deploys and deletes of one name run concurrently. Each request makes two remote calls. A call can time out after its effect was applied. The cleanup is best effort.
- **Admin controller routes.** A handler reads its own broker's tables and metadata cache, which lag the controller log and elections, before it writes. Redirects depend on the cache and on the Host header. Validation rules that look at the patch rather than at its result can be bypassed by a sequence of legal patches.

## Modules

### `FetchOperation.tla`: one Fetch operation over several shards

**State.**
- `slot`: each requested partition's response slot. It is empty, an error, or data of n bytes.
- `response_size`, `response_error`, `bytes_left`, `initial_fetch`: the fields of `op_context` with those names.
- `phase`: where the fetch loop is (plan, dispatch, wait or done).
- `calls` and `replies`: shard calls in flight and their results.
- `shardOf`: where each partition lives now. `NoShard` means it is not found.
- `now`: the clock, compared with `Deadline`.

**Actions.**
- `Plan` walks the partitions in request order (`for_each_fetch_partition`).
  - A partition that cannot be resolved gets an error slot, which sets `response_error`.
  - The byte budget is handed out in request order: `Caps`, `PlannedCaps`.
  - The partitions are grouped by shard into one call per non-empty `shard_fetch` (`ShardPlan`).
- `ServeCall(s)` is the remote shard's read.
  - A partition moved off the shard reads as an error.
  - Any other partition reads as empty, or as data up to its cap.
  - With `strict_max_bytes` false, the data may overshoot the cap by `Overshoot`.
- `ApplyReply` places one shard's results into their slots (`response_iterator::set`) and updates the totals. fetch.h only declares `set`; the fold of the results into the slots is modelled from spec.md (fetch.cc is not in the repository), and PROJECT.json marks it spec_modelled.
- `Join` waits for every call to finish, then either stops (`should_stop_fetch`) or waits to retry.
- `Replan` starts the next pass.
- `Abandon` ends the operation at the deadline while calls are still in flight.
- `DropLateReply` discards results that come back after the response was sent.
- `Tick` advances the clock.
- `Move` moves a partition between shards. It is an environment step and is not fair.

**Stop rule.** `should_stop_fetch` is translated disjunct by disjunct from fetch.h:81-85. `over_min_bytes` keeps the int32 cast of fetch.h:88 (`ToInt32`).

### `AdminLogLevel.tla`: temporary log-level overrides

**State.**
- `level`: the logger registry.
- `resets`: `_log_level_resets`, logger ↦ level to restore and ticks left.
- `armed` and `timerLeft`: `_log_level_timer`.
- `base`: a history variable holding each logger's level without temporary overrides.

**Time.** Time is relative: an expiry is a number of ticks left, and `expires <= now` becomes a count of 0.

**Actions.**
- `SetLogLevel(n, level, expires)` is the whole route. It takes the current level and sets the new one.
  - For `expires > 0` it calls `try_emplace`. The emplace only bumps the expiry if an entry exists, so the first saved level is kept.
  - For `expires = 0` it erases the entry.
  - With no `expires` it uses the default of 10 minutes (`DefaultExpiry`).
  - It then rearms the timer.
- `LogLevelTimerHandler` is the seastar timer firing, which leaves it disarmed, followed by `log_level_timer_handler`: it restores every due logger, erases its entry and rearms. Without that closing rearm (`LogLevelTimerHandler_no_rearm`) overrides still pending after a fire would never be reverted.
- `Tick` advances the clock.

**The expires=0 comment.** The comment at server.cc:1429 says "expires=0 is same as not specifying it at all". The code has already turned a missing `expires` into 10 minutes (1422-1427). So no `expires` is a temporary override, while `expires=0` erases any pending restore and is permanent (1436-1438). `ExpiresZeroAsUnset` states the comment, and the loglevel_expires_zero run shows the code disagrees.

### `TransformService.tla`: deploy and delete of wasm transforms

**State.**
- `binaries` and `used`: the binary store and the uuids it has handed out.
- `meta`: committed transform metadata, name ↦ uuid.
- `req`: one request per client, with its operation, name, key, result and step.
- `feature`: whether `wasm_transforms` is active. `ActivateFeature` turns it on once.

**Steps.** Each `co_await` is a step boundary:
- `Start` is the feature check. If the feature is inactive it returns `feature_disabled`.
- `StoreWasmBinary` stores the binary.
- `UpsertTransform` commits the metadata. On any non-success it goes to cleanup.
- `RemoveTransform`: `transform_does_not_exist` counts as success. A real removal goes to cleanup with the removed uuid.
- `CleanupWasmBinary` deletes the binary. The delete may fail, and the failure is only logged.

**Remote outcomes.** A remote call either succeeds, fails without effect, or takes effect and still reports an error (a timeout after the command was applied). That last outcome is switched per call by `AmbiguousStore`, `AmbiguousUpsert` and `AmbiguousRemove`.

### `ReconfigurationStatus.tla`: reported progress of partition moves

State:
- `current`: the partition's current assignment, against a fixed `Previous`.
- `size`: `current_partition_size`.
- `transferred`: `already_transferred_bytes` of each added replica.
- `ops`: one node's `backend_operations`.
- `report`: the last snapshot a handler returned.

The controller side changes during a move:
- `Write` and `DeleteSegment` (retention) change the size.
- `StartRecovery` and `Transfer` are the new replicas receiving bytes.
- `BackendStart`, `BackendRetry` and `BackendFinish` are the reconciliation operations.

`ReportReconfiguration` and `ReportDecommission` are the two handlers:
- Both compute `BytesProgress`, which is server.cc:2833-2846 with size_t sums and differences taken modulo `2^Width`.
- The decommission handler reports a partition only when exactly one replica was added.
- The reconfiguration handler builds one row per backend operation (`OperationRows`), translated as written: the core comes from the operation, every other field from `front()`.

### `AdminController.tla`: admin routes that write to the controller

**State.**
- `log`: the controller log, a sequence of commands (`activate`, `license`, `config`, `move`, `cancel`, `disable`, `maintenance`, ...).
- `applied` and `tables`: how much of the log each broker has applied, and its resulting feature table, configuration, topic table and members table (`ApplyEntry`, folded over the log).
- `leader`, `view`: the controller leader and each broker's metadata-cache idea of it.
- `pleader`, `pview`: the raft leader of the one data partition (or none) and each broker's metadata-cache idea of it.
- `elections`: the number of leadership changes, controller and partition together.
- `req`, `sent`: each client's request (operation, argument, broker, Host header, step) and how many it has sent. An answered request keeps only its answer (`NoRequest`, `Reply`), so finished requests with the same answer are one state.

**Actions.** A request is split at the `co_await` of the controller write:
- `HandleFeature`, `HandleLicense`, `HandleConfig`, `HandleSetReplicas`, `HandleForceReplicas`, `HandleDisable` are the handlers up to the write. Each reads only its own broker's tables and cache, in the code's order of checks and early returns.
- `WriteFeature`, `WriteLicense`, `WriteConfig`, `WriteReplicas` (move), `WriteForceReplicas`, `WriteForceRecover` and `WriteDisable` are the writes. `CancelReconfig` (cancel and unclean abort), `CancelNodeMoves`, `CancelAllMoves` and `WriteMembers` (maintenance, decommission, recommission) write without a local check.
- `ControllerWrite` passes the frontend's error through `throw_on_error`. A write on a broker that is not the leader gets `not_leader_controller`, which becomes a redirect. `put_feature` instead turns any error into a 400.
- `TransferLeadership` is `raft_transfer_leadership_handler` on the controller group: `not_leader` redirects, a transfer to the leader itself is OK, otherwise the leader moves or the call times out.
- `KafkaTransferLeadership` is `kafka_transfer_leadership_handler`. A broker whose shard table (`Hosts`, the replicas its topic table shows plus the previous ones during a move) lacks the partition, or that raft says is not the leader, redirects. A transfer to itself is OK, a target outside the replica set is a 400, otherwise the partition leader moves or the call times out.
- `GetMajorityLost` is `get_majority_lost_partitions`: 503 without a controller leader, redirect, 400 for an empty or unparsable `dead_nodes` list, then the frontend's error mapped by `MajorityLostStatus` (concurrent modification 503, invalid request 400, anything else 500). It writes nothing.
- `HandleForceRecover` and `WriteForceRecover` are `force_recover_partitions_from_nodes`. The `enhanced_force_reconfiguration` gate (`EnhancedForce`) comes first, on the local table and before the redirect. The write forces the partition's replicas and goes through `throw_on_error`.
- `HandleForceReplicas` uses the same `EnhancedForce` to relax its proper-subset rule, so the feature the feature routes activate is `enhanced_force_reconfiguration`.
- `GetTransactions` and `MarkTransactionExpired` share `TxRoute`: redirect unless the local cache names this broker the partition leader, a 500 without the partition, then rm_stm's error through `throw_on_error` (`leader_not_found` off the raft leader redirects, `pid_not_found` is a 404). Transaction state is not modelled.
- `AuthErrors` is the `admin_api_require_auth` rule of `config_multi_property_validation`. It runs only when the upserts name `admin_api_require_auth` or `superusers` and the patched configuration requires auth. It refuses an empty superusers list, and one without the requesting `User` unless the live configuration already required auth.
- `Redirect` is `redirect_to_leader` for the route's ntp (`NtpOf`, `LeaderIn`: the controller's cache entry or the partition's). `Follow` is the client following the 307.
- Environment: `ApplyCommand` (a broker applies the next command), `Background` (feature migration completes; a move finishes, and a partition leader left out of the new replicas steps down), `Elect` and `RefreshView` for the controller, `PElect` (a replica becomes partition leader) and `PRefreshView` for the partition.

**Constants.** `Values` and `DefaultValue` map each property to the values its `validate()` accepts and to its default. `RequireAuth` and `Superusers` name the two properties the auth rule reads, and `User` is the authenticated user.

### MC modules

- `MCFetchOperation.tla` gives `Requested` as a sequence of three model values.
- `MCAdminLogLevel.tla` gives the three levels.
- `MCTransformService.tla` defines the client symmetry.
- `MCAdminController.tla` gives two brokers with 2 and 1 kafka listeners, three config properties (`p1`, `admin_api_require_auth`, `superusers` with values {}, {alice}, {bob}) with five patches of p1 and three auth patches (`MCAuthPatches`: turn auth on with alice as superuser, remove superusers, upsert an empty list), four replica targets (the current list, its reverse, a proper subset, a duplicate) and a cluster timeout as the write error.
- `MCReconfigurationStatus.tla` gives the partition on n1, n2, n3 and three possible current assignments: one replica added, two added, or none added (a cross-core move).

## Runs

| Run | Config | Expect | Checks |
|---|---|---|---|
| fetch_strict | MCFetchOperation.cfg | pass | TypeOK, ResponseAccounting (size, error flag and `bytes_left` agree with the slots), BudgetRespected, SlotsFinal (a filled slot never changes and nothing changes after the response), Termination |
| fetch_overshoot | MCFetchOperationOvershoot.cfg | violation | BudgetRespected under the default non-strict reads |
| loglevel_safety | MCAdminLogLevel.cfg | pass | TypeOK, RestoresBaseLevel, TimerCoversResets, ExpiredOverrideReverted |
| loglevel_expires_zero | MCAdminLogLevelExpiresZero.cfg | violation | ExpiresZeroAsUnset (the comment at server.cc:1429) |
| transform_reliable_upsert | MCTransformService.cfg | pass | TypeOK, NoDanglingTransform |
| transform_ambiguous_upsert | MCTransformServiceAmbiguous.cfg | violation | NoDanglingTransform |
| reconfig_wrap | MCReconfigurationStatusWrap.cfg | violation | BytesLeftBounded |
| reconfig_rows | MCReconfigurationStatusRows.cfg | violation | OperationRowsFaithful |
| controller_writes | MCAdminController.cfg | pass | TypeOK, AcknowledgedWhenCurrent (an OK from a broker whose tables are current holds in the committed tables), RequestCompletes |
| controller_stale_feature | MCAdminControllerStale.cfg | violation | AcknowledgedPutHolds for put feature |
| controller_stale_replicas | MCAdminControllerStaleReplicas.cfg | violation | AcknowledgedPutHolds for set replicas |
| controller_auth_lockout | MCAdminControllerLockout.cfg | violation | NoAdminLockout (the committed configuration never requires auth with no superuser) |

### What the runs show

- **Fetch.** With strict reads the operation keeps every safety property and always ends.
  - With the default `strict_max_bytes{false}` (fetch.h:147), TLC reaches a response larger than `max_bytes` after one shard reply.
  - spec.md §3 says that cannot happen. This is recorded as a spec gap.
- **Log levels.** Overlapping overrides always restore the level from before the first override. The timer never sits later than the earliest pending expiry, and every expired override is eventually reverted, which needs the handler's rearm because the fired timer is disarmed.
  - A request with `expires=0` makes a permanent change, and the same request without `expires` a 10-minute override. The comment at server.cc:1429 says the two are the same; this is recorded as a spec/code divergence.
- **Transforms.** With a metadata upsert that reports what it did, no interleaving of two clients leaves a committed transform without its binary. This holds even with ambiguous stores and removes and failing cleanups.
  - If the upsert can commit and still report a timeout, `deploy_transform` (part_000:146-147) deletes the binary the committed transform points to. TLC finds this in four steps.

- **Reconfiguration progress.** Only violation runs check this module. Bytes left plus bytes moved add up in size_t arithmetic even through a wrap, so that identity says nothing and is not checked.
  - Retention can shrink the partition below what a new replica has already received. Then `size - bytes` wraps, and `bytes_left_to_move` is reported as almost `2^64` (`2^Width` in the model).
  - On a node with two backend operations, the second row reports the first operation's retry count, revision, status and type (server.cc:2856).

- **Admin controller routes.** Over all nineteen routes, with lagging tables and caches, a controller or partition election and leadership transfers, every request ends, even when caches name each other and bounce it, and an OK from a broker with current tables is true of the committed tables.
  - `put_feature_handler` (server.cc:2116) decides that a request is a no-op from the local feature table. A follower that has not applied a committed deactivate answers OK to an activate, and nothing is written.
  - `set_partition_replicas_handler` (server.cc:3030) does not redirect and makes the same no-op check on the local topic table.
  - The lock-out rule of `config_multi_property_validation` (server.cc:1503) runs only when the upserts name `admin_api_require_auth` or `superusers`. A client turns auth on with itself as superuser, then sends a patch that removes `superusers`. The second patch passes validation, and the committed configuration requires auth with no superuser. The rule's own comment says that must not happen.
  - With no Host header, `redirect_to_leader` (server.cc:886) sets only the port, and the Location has an empty host. HTTP/1.1 clients always send Host, so no run includes a missing header; the hazard is listed in PROJECT.json.

Every property of a passing run has a mutant in PROJECT.json: a plausible bug in a mapped definition, which TLC shows breaks the property.

## Bounds

- **Fetch.** 3 partitions, 2 shards, `MinBytes = MaxBytes = 3`, `PartitionMaxBytes = 2`, `MaxWait = 2`.
  - Two partitions' caps together exceed the budget, so the budget has to be shared.
  - `MinBytes` can be unmet after a pass, so a retry happens.
  - Two ticks let the deadline fall both before and after a join.
  - Three partitions over two shards allow a move, an unknown partition and a multi-partition call at once.
- **Log levels.** 2 loggers, 3 levels, expiries 0 (permanent) and 1, default 2. So two pending restores can have different expiries, an override can move its expiry earlier or later, and a temporary override can be overlapped by a second one and by a permanent one.
- **Transforms.** 2 clients, 1 name, 3 uuids. Two requests on the same name give every deploy/delete interleaving. Three uuids allow a replaced binary, a removed one and a fresh one. Clients are interchangeable, so client symmetry is sound; no run with symmetry checks liveness.

- **Admin controller routes.** 2 brokers, 1 client sending 2 requests, 1 leadership change of the controller or the partition. Two requests let the first change the log and the second read a lagging table. Host headers are listener 2 and another host: with listener lists of 2 and 1, that reaches the fallback to the rpc address and the non-matching case. The case where the leader has the matched listener (a request on n1's listener 1 redirected to n2) is not reached, to keep the run within its time. No property is about the redirect's address: `redirect_to_leader` names the cached leader by construction, so only reachability, which is outside the model, could go wrong. The partition starts on n1 and n2 with n1 leading, and a finished move to a proper subset makes a leader outside it step down. Broker-id arguments name n2 only, which is in the partition's replica list.

- **Reconfiguration.**
  - `Width = 3`. 2 new replicas times a size of at most 3 stays below 8, so any wrap comes from a subtraction, never from the sums.
  - `MaxOps = 2` and `MaxRevision = 2` give a node two different operations.
  - `MaxRetry = 1` lets one of them differ from the other by a retry.

## Fairness

- **Fetch.**
  - The home shard's steps, each remote shard's service of its call, and the clock are weakly fair. Seastar runs every submitted task, and the clock advances.
  - Partition movement is not fair. It is an external event.
  - `CHECK_DEADLOCK FALSE`: a single operation ends, and once it has sent its response and dropped late replies nothing remains to do.
- **Log levels.** The timer callback and the clock are weakly fair. Requests are not, because clients need not send anything.
- **Admin controller routes.** Each client's handler steps are weakly fair (the reactor runs every ready continuation), clients follow redirects, and metadata caches eventually learn the controller and the partition leader. Sending, elections and table updates are not fair. `CHECK_DEADLOCK FALSE`: once the clients have sent their requests, nothing more need happen.
- **Transforms.** Only safety is checked, so no fairness is assumed.
- **Reconfiguration.** Only safety is checked, so no fairness is assumed.

## Not modelled, and the plan

Listed in the order they will be added:
1. **FetchSession**: the incremental session protocol and insertion-order iteration (spec_modelled; the session code is not under `src/`). It will be composed with `FetchOperation`.
2. **An abstract Fetch specification.** A response of at most `max_bytes` per strict request, filled slots final, stop when the rule holds. `FetchOperation` will be shown to implement it by `INSTANCE ... WITH` a refinement mapping. The log-level route had such a refinement. It was dropped because it passed only by taking the code's meaning of `expires=0`, against the code's own comment; that disagreement is now a violation run.
3. The cloud storage and schema id rules of `config_multi_property_validation`.

The controller-side recovery routes are now modelled. The project keeps to twelve runs, so hazards that would need their own violation run keep a note in PROJECT.json. These are put_feature's 400 for every write error, the empty replica list, and the stale force-set checks.

These parts will stay unmodelled:
- Route registration and parameter parsing. They are pure I/O.
- rm_stm's transaction state, the self-test frontend, cloud storage and restart. Their state is outside this repository. Every self-test answer is decided by `self_test_frontend`'s job state, so no self-test action could be written from this repository's code.
- The fetch size cast (fetch.h:88). It overflows only above 2^31 bytes, which TLC's 32-bit integers cannot represent.
- The controller frontends' own checks (for example, refusing to decommission a draining broker). Only their errors are modelled, as the environment.
- `group_tx_tracker_stm.h`. It is declarations only.
- `validation.h`. It holds declarations and serialization.
