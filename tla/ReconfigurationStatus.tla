----------------------- MODULE ReconfigurationStatus -----------------------
(***************************************************************************)
(* The progress the admin API reports for a partition being moved          *)
(* (src/v/redpanda/admin/server.cc): get_reconfigurations_handler and      *)
(* get_decommission_progress_handler turn the controller's reconfiguration *)
(* state (current partition size, bytes each new replica has received) and *)
(* its reconciliation state (the backend operations per node) into a       *)
(* report.                                                                 *)
(*                                                                         *)
(* The controller state evolves while the move runs: the partition grows   *)
(* with writes and, with Retention, shrinks as old segments are deleted;   *)
(* new replicas receive bytes; backend operations start, are retried and   *)
(* finish. A report is a snapshot taken in one step.                       *)
(*                                                                         *)
(* Byte counts are size_t: sums and differences are taken modulo 2^Width   *)
(* (64 in the build; a small Width here shows the same wrap-around).       *)
(***************************************************************************)
EXTENDS Naturals, Sequences, FiniteSets, TLC

CONSTANTS
  Nodes,           \* brokers
  Previous,        \* previous_assignment of the partition
  Currents,        \* current_assignment values the move may have
  Shards,          \* cores of a broker
  OpTypes,         \* backend operation types
  MaxSize,         \* bound on the partition size
  MaxOps,          \* bound on backend operations of a node
  MaxRevision,     \* bound on revisions of backend operations
  MaxRetry,        \* bound on retries of one backend operation
  Width,           \* bits of size_t
  Retention        \* old segments may be deleted while the move runs

ASSUME /\ Previous \subseteq Nodes /\ Currents \subseteq SUBSET Nodes
       /\ MaxSize \in Nat /\ MaxOps \in Nat /\ Width \in Nat \ {0}

SizeT == 2^Width

\* size_t arithmetic.
U(n) == n % SizeT

VARIABLES
  current,      \* current_assignment
  size,         \* current_partition_size on the leader
  transferred,  \* already_transferred_bytes: added replica -> bytes received
  ops,          \* backend_operations of one node, front first
  revision,     \* revision of the last backend operation started
  report        \* the last report returned, or NoReport

vars == << current, size, transferred, ops, revision, report >>

NoReport == [kind |-> "none"]

\* cluster::subtract(current_assignment, previous_assignment)
Added == current \ Previous

(***************************************************************************)
(* The byte progress both handlers compute: for every replica status add   *)
(* size - bytes to left_to_move and bytes to already_moved; when both are  *)
(* zero, report the whole partition as left to move.                       *)
(***************************************************************************)
RECURSIVE SumOver(_, _)
SumOver(g, D) ==
  IF D = {} THEN 0
  ELSE LET x == CHOOSE y \in D : TRUE IN U(g[x] + SumOver(g, D \ {x}))

BytesProgress(sz, t) ==
  LET left  == SumOver([r \in DOMAIN t |-> U(sz - t[r])], DOMAIN t)
      moved == SumOver(t, DOMAIN t)
  IN [left |-> IF moved = 0 /\ left = 0 THEN sz ELSE left, moved |-> moved, size |-> sz]

(***************************************************************************)
(* One row per backend operation of the node; the code takes the core from *)
(* the operation itself and every other field from front().                *)
(***************************************************************************)
OperationRows(os) ==
  [i \in 1..Len(os) |->
     [core |-> os[i].shard, retry |-> os[1].retry, revision |-> os[1].revision,
      status |-> os[1].result, type |-> os[1].type]]

\* What a row says of the operation it stands for.
RowOf(o) ==
  [core |-> o.shard, retry |-> o.retry, revision |-> o.revision,
   status |-> o.result, type |-> o.type]

(***************************************************************************)
(* get_reconfigurations_handler, for this partition.                       *)
(***************************************************************************)
ReportReconfiguration ==
  /\ report' = [kind |-> "reconfiguration", replicas |-> Cardinality(DOMAIN transferred),
                rows |-> OperationRows(ops)]
                @@ BytesProgress(size, transferred)
  /\ UNCHANGED << current, size, transferred, ops, revision >>

(***************************************************************************)
(* get_decommission_progress_handler, for this partition: skipped unless   *)
(* exactly one replica was added; the move names that replica.            *)
(***************************************************************************)
ReportDecommission ==
  /\ report' = IF Cardinality(Added) # 1
               THEN [kind |-> "skipped"]
               ELSE [kind |-> "decommission", replicas |-> Cardinality(DOMAIN transferred),
                     moving_to |-> CHOOSE r \in Added : TRUE]
                    @@ BytesProgress(size, transferred)
  /\ UNCHANGED << current, size, transferred, ops, revision >>

-----------------------------------------------------------------------------
(* The controller and the replicas, as seen by the handlers.               *)

Write ==
  /\ size < MaxSize
  /\ size' = size + 1
  /\ UNCHANGED << current, transferred, ops, revision, report >>

DeleteSegment ==
  /\ Retention /\ size > 0
  /\ size' = size - 1
  /\ UNCHANGED << current, transferred, ops, revision, report >>

\* An added replica starts recovery and reports its first bytes.
StartRecovery(r) ==
  /\ r \in Added \ DOMAIN transferred
  /\ transferred' = [x \in DOMAIN transferred \cup {r} |->
                       IF x = r THEN 0 ELSE transferred[x]]
  /\ UNCHANGED << current, size, ops, revision, report >>

Transfer(r) ==
  /\ r \in DOMAIN transferred
  /\ transferred[r] < size
  /\ transferred' = [transferred EXCEPT ![r] = @ + 1]
  /\ UNCHANGED << current, size, ops, revision, report >>

BackendStart(s, ty) ==
  /\ Len(ops) < MaxOps /\ revision < MaxRevision
  /\ revision' = revision + 1
  /\ ops' = Append(ops, [shard |-> s, retry |-> 0, revision |-> revision + 1,
                         result |-> "in_progress", type |-> ty])
  /\ UNCHANGED << current, size, transferred, report >>

BackendRetry(i) ==
  /\ i \in DOMAIN ops /\ ops[i].retry < MaxRetry
  /\ ops' = [ops EXCEPT ![i].retry = @ + 1, ![i].result = "timeout"]
  /\ UNCHANGED << current, size, transferred, revision, report >>

BackendFinish ==
  /\ ops # << >>
  /\ ops' = Tail(ops)
  /\ UNCHANGED << current, size, transferred, revision, report >>

Init ==
  /\ current \in Currents
  /\ size \in 0..MaxSize
  /\ transferred = [r \in {} |-> 0]
  /\ ops = << >>
  /\ revision = 0
  /\ report = NoReport

Next ==
  \/ ReportReconfiguration
  \/ ReportDecommission
  \/ Write
  \/ DeleteSegment
  \/ \E r \in Nodes : StartRecovery(r) \/ Transfer(r)
  \/ \E s \in Shards, ty \in OpTypes : BackendStart(s, ty)
  \/ \E i \in 1..MaxOps : BackendRetry(i)
  \/ BackendFinish

Spec == Init /\ [][Next]_vars

-----------------------------------------------------------------------------
HasBytes == report.kind \in {"reconfiguration", "decommission"}

(***************************************************************************)
(* The bytes reported as left to move never exceed the partition size for  *)
(* every replica still being filled (or the partition size when nothing is *)
(* known yet): the subtraction in size_t must not wrap around.             *)
(***************************************************************************)
BytesLeftBounded ==
  HasBytes =>
    report.left <= (IF report.replicas = 0 THEN 1 ELSE report.replicas) * report.size

(***************************************************************************)
(* Each reconciliation row describes the backend operation it is listed    *)
(* for: its retry count, revision, result and type, not those of the       *)
(* node's first operation.                                                 *)
(***************************************************************************)
OperationRowsFaithful ==
  [][ReportReconfiguration =>
       \A i \in 1..Len(ops) : report'.rows[i] = RowOf(ops[i])]_vars

=============================================================================
