--------------------------- MODULE FetchOperation ---------------------------
(***************************************************************************)
(* One Kafka Fetch request executed by kafka::op_context                   *)
(* (src/v/kafka/server/handlers/fetch.h).                                  *)
(*                                                                         *)
(* The operation runs on the connection's home shard. Each planning pass   *)
(* groups the partitions still to be fetched by owning shard (fetch_plan / *)
(* shard_fetch), sends one cross-shard call per shard, and folds every     *)
(* reply into the pre-allocated response slots (response_iterator::set).   *)
(* After a pass the debounce loop evaluates should_stop_fetch(); if it     *)
(* does not hold, partitions that produced nothing are fetched again.      *)
(*                                                                         *)
(* Remote shards, the clock and partition movements are separate actors:  *)
(* replies arrive in any order, a partition may move between planning and  *)
(* the read, and a reply may arrive after the deadline made the operation  *)
(* finish.                                                                 *)
(***************************************************************************)
EXTENDS Integers, Sequences, FiniteSets, FiniteSetsExt, SequencesExt

CONSTANTS
  Requested,          \* partitions of the request, in request order
  Shards,             \* shards (reactors) of this node
  NoShard,            \* the Partition Locator's "not on this node"
  MinBytes,           \* request.data.min_bytes (signed 32-bit)
  MaxBytes,           \* request max_bytes: the operation's byte budget
  PartitionMaxBytes,  \* per-partition max_bytes
  MaxWait,            \* request max wait in clock ticks (debounce_delay)
  StrictMaxBytes,     \* fetch_config::strict_max_bytes of every read
  Overshoot           \* bytes a non-strict read may return beyond its cap

Partitions == ToSet(Requested)

ASSUME /\ IsInjective(Requested)
       /\ NoShard \notin Shards
       /\ MinBytes \in Int /\ MaxBytes \in Nat /\ PartitionMaxBytes \in Nat
       /\ MaxWait \in Nat /\ StrictMaxBytes \in BOOLEAN /\ Overshoot \in Nat

VARIABLES
  phase,          \* "plan" | "dispatch" | "wait" | "done"
  slot,           \* response slot of each partition
  response_size,  \* op_context::response_size
  response_error, \* op_context::response_error
  bytes_left,     \* op_context::bytes_left
  initial_fetch,  \* op_context::initial_fetch
  calls,          \* cross-shard calls sent and not yet served
  replies,        \* results computed on a shard, not yet applied at home
  shardOf,        \* Partition Locator: owning shard of each partition
  now             \* clock ticks since the request was decoded

vars == << phase, slot, response_size, response_error, bytes_left,
           initial_fetch, calls, replies, shardOf, now >>

(***************************************************************************)
(* A slot holds nothing yet, partition data, or a per-partition error.     *)
(***************************************************************************)
Empty == [kind |-> "empty", bytes |-> 0]
Err   == [kind |-> "error", bytes |-> 0]
Data(n) == [kind |-> "data", bytes |-> n]

SlotValues == {Empty, Err} \cup {Data(n) : n \in 1..(PartitionMaxBytes + Overshoot)}

\* The absolute deadline, computed once at decode time (now + max_wait).
Deadline == MaxWait

MinOf(a, b) == IF a < b THEN a ELSE b

\* Position of an element in a sequence without duplicates.
PosOf(s, x) == CHOOSE i \in 1..Len(s) : s[i] = x

(***************************************************************************)
(* The int32 cast of over_min_bytes(): a size_t below 2^32 reduced to a    *)
(* signed 32-bit integer (values from 2^31 wrap to negatives). Written so  *)
(* that no intermediate leaves TLC's own 32-bit range.                     *)
(***************************************************************************)
Int32Max == 2147483647

ToInt32(n) == IF n <= Int32Max THEN n ELSE ((n - Int32Max - 1) - Int32Max) - 1

over_min_bytes == ToInt32(response_size) >= MinBytes

\* A sessionless request with no partitions (is_empty_request).
is_empty_request == Requested = << >>

\* !request.debounce_delay(): the client asked for no wait.
no_debounce == MaxWait = 0

\* Fault model: the deadline term left out of the stop condition.
should_stop_fetch_no_deadline ==
  \/ no_debounce \/ over_min_bytes \/ is_empty_request \/ response_error

should_stop_fetch ==
  \/ no_debounce
  \/ over_min_bytes
  \/ is_empty_request
  \/ response_error
  \/ Deadline <= now

(***************************************************************************)
(* Partitions the next pass fetches: those whose slot is still empty.      *)
(***************************************************************************)
ToFetch == {p \in Partitions : slot[p].kind = "empty"}

(***************************************************************************)
(* Byte caps handed out in request order: each planned partition gets      *)
(* min(per-partition max, what is left of the budget), so the caps of one  *)
(* pass never add up to more than bytes_left.                              *)
(***************************************************************************)
RECURSIVE Caps(_, _)
Caps(ps, left) ==
  IF ps = << >> THEN << >>
  ELSE LET c == MinOf(PartitionMaxBytes, left)
       IN << c >> \o Caps(Tail(ps), left - c)

\* The partitions one pass plans, in request order, with their shard known.
Planned == SelectSeq(Requested, LAMBDA p : p \in ToFetch /\ shardOf[p] # NoShard)

PlannedCaps ==
  LET ps == Planned
      cs == Caps(ps, bytes_left)
  IN [p \in ToSet(ps) |-> cs[PosOf(ps, p)]]

\* The per-shard work lists of one pass (fetch_plan::fetches_per_shard).
ShardPlan(caps, s) == [p \in {q \in DOMAIN caps : shardOf[q] = s} |-> caps[p]]

\* Fault model: an unresolved partition's error not folded into the flag.
Plan_no_error_flag ==
  /\ phase = "plan"
  /\ LET caps       == PlannedCaps
         unresolved == {p \in ToFetch : shardOf[p] = NoShard}
     IN /\ slot' = [p \in Partitions |-> IF p \in unresolved THEN Err ELSE slot[p]]
        /\ response_error' = response_error
        /\ calls' = {[shard |-> s, caps |-> ShardPlan(caps, s)] :
                       s \in {t \in Shards : DOMAIN ShardPlan(caps, t) # {}}}
  /\ phase' = "dispatch"
  /\ UNCHANGED << response_size, bytes_left, initial_fetch, replies, shardOf, now >>

(***************************************************************************)
(* Planning pass: unresolved partitions get an error in their slot right   *)
(* away; every shard with a non-empty list gets one call.                  *)
(***************************************************************************)
Plan ==
  /\ phase = "plan"
  /\ LET caps       == PlannedCaps
         unresolved == {p \in ToFetch : shardOf[p] = NoShard}
     IN /\ slot' = [p \in Partitions |-> IF p \in unresolved THEN Err ELSE slot[p]]
        /\ response_error' = (response_error \/ unresolved # {})
        /\ calls' = {[shard |-> s, caps |-> ShardPlan(caps, s)] :
                       s \in {t \in Shards : DOMAIN ShardPlan(caps, t) # {}}}
  /\ phase' = "dispatch"
  /\ UNCHANGED << response_size, bytes_left, initial_fetch, replies, shardOf, now >>

(***************************************************************************)
(* What one read may return under its byte cap.                           *)
(***************************************************************************)
ReadLimit(cap) == IF StrictMaxBytes THEN cap ELSE cap + Overshoot

ReadOutcomes(cap) ==
  {Empty, Err} \cup (IF cap > 0 THEN {Data(n) : n \in 1..ReadLimit(cap)} ELSE {})

(***************************************************************************)
(* A remote shard serves its call: read_from_ntp for each partition. A     *)
(* partition that moved off this shard since planning yields an error.     *)
(***************************************************************************)
ServeCall(s) ==
  \E c \in calls :
    /\ c.shard = s
    /\ \E res \in [DOMAIN c.caps -> SlotValues] :
         /\ \A p \in DOMAIN c.caps :
              IF shardOf[p] = s THEN res[p] \in ReadOutcomes(c.caps[p])
                                ELSE res[p] = Err
         /\ replies' = replies \cup {[shard |-> s, result |-> res]}
    /\ calls' = calls \ {c}
    /\ UNCHANGED << phase, slot, response_size, response_error, bytes_left,
                    initial_fetch, shardOf, now >>

\* Fault model: a reply applied whatever the phase, also after the response.
ApplyReply_any_phase ==
  /\ \E r \in replies :
       LET ps    == DOMAIN r.result
           bytes == MapThenSumSet(LAMBDA p : r.result[p].bytes, ps)
       IN /\ slot' = [p \in Partitions |-> IF p \in ps THEN r.result[p] ELSE slot[p]]
          /\ response_size' = response_size + bytes
          /\ bytes_left' = bytes_left - MinOf(bytes_left, bytes)
          /\ response_error' = (response_error \/ \E p \in ps : r.result[p] = Err)
          /\ replies' = replies \ {r}
  /\ UNCHANGED << phase, initial_fetch, calls, shardOf, now >>

(***************************************************************************)
(* The home shard applies one reply: response_iterator::set for each of    *)
(* its partitions, folding the bytes and errors into the running totals.   *)
(***************************************************************************)
ApplyReply ==
  /\ phase = "dispatch"
  /\ \E r \in replies :
       LET ps    == DOMAIN r.result
           bytes == MapThenSumSet(LAMBDA p : r.result[p].bytes, ps)
       IN /\ slot' = [p \in Partitions |-> IF p \in ps THEN r.result[p] ELSE slot[p]]
          /\ response_size' = response_size + bytes
          /\ bytes_left' = bytes_left - MinOf(bytes_left, bytes)
          /\ response_error' = (response_error \/ \E p \in ps : r.result[p] = Err)
          /\ replies' = replies \ {r}
  /\ UNCHANGED << phase, initial_fetch, calls, shardOf, now >>

(***************************************************************************)
(* Join: every call of the pass has been answered and applied; the         *)
(* debounce loop decides whether to stop.                                  *)
(***************************************************************************)
Join ==
  /\ phase = "dispatch"
  /\ calls = {} /\ replies = {}
  /\ phase' = IF should_stop_fetch THEN "done" ELSE "wait"
  /\ initial_fetch' = FALSE
  /\ UNCHANGED << slot, response_size, response_error, bytes_left, calls,
                  replies, shardOf, now >>

\* The long-poll wait is over: start the next pass.
Replan ==
  /\ phase = "wait"
  /\ phase' = "plan"
  /\ UNCHANGED << slot, response_size, response_error, bytes_left,
                  initial_fetch, calls, replies, shardOf, now >>

(***************************************************************************)
(* The deadline passed while calls are outstanding: after applying the     *)
(* replies already delivered, the pass is abandoned and the response sent. *)
(***************************************************************************)
Abandon ==
  /\ phase = "dispatch"
  /\ Deadline <= now
  /\ calls # {} /\ replies = {}
  /\ phase' = "done"
  /\ UNCHANGED << slot, response_size, response_error, bytes_left,
                  initial_fetch, calls, replies, shardOf, now >>

\* A reply that arrives after the response was sent is dropped.
DropLateReply ==
  /\ phase = "done"
  /\ \E r \in replies : replies' = replies \ {r}
  /\ UNCHANGED << phase, slot, response_size, response_error, bytes_left,
                  initial_fetch, calls, shardOf, now >>

\* Fault model: the clock not stopped at the deadline.
Tick_unbounded ==
  /\ phase # "done"
  /\ now' = now + 1
  /\ UNCHANGED << phase, slot, response_size, response_error, bytes_left,
                  initial_fetch, calls, replies, shardOf >>

\* The clock advances up to the deadline.
Tick ==
  /\ phase # "done"
  /\ now < Deadline
  /\ now' = now + 1
  /\ UNCHANGED << phase, slot, response_size, response_error, bytes_left,
                  initial_fetch, calls, replies, shardOf >>

\* Leadership or a partition movement changes the owning shard.
Move(p, s) ==
  /\ phase # "done"
  /\ shardOf[p] # s
  /\ shardOf' = [shardOf EXCEPT ![p] = s]
  /\ UNCHANGED << phase, slot, response_size, response_error, bytes_left,
                  initial_fetch, calls, replies, now >>

Init ==
  /\ phase = "plan"
  /\ slot = [p \in Partitions |-> Empty]
  /\ response_size = 0
  /\ response_error = FALSE
  /\ bytes_left = MaxBytes
  /\ initial_fetch = TRUE
  /\ calls = {}
  /\ replies = {}
  /\ shardOf \in [Partitions -> Shards \cup {NoShard}]
  /\ now = 0

Next ==
  \/ Plan
  \/ \E s \in Shards : ServeCall(s)
  \/ ApplyReply
  \/ Join
  \/ Replan
  \/ Abandon
  \/ DropLateReply
  \/ Tick
  \/ \E p \in Partitions, s \in Shards \cup {NoShard} : Move(p, s)

(***************************************************************************)
(* Each shard's reactor eventually runs a ready task, and timers fire, so  *)
(* every step of the home shard, of each remote shard and of the clock is  *)
(* weakly fair. Partition movements are not: they may never happen.        *)
(***************************************************************************)
Fairness ==
  /\ WF_vars(Plan) /\ WF_vars(ApplyReply) /\ WF_vars(Join) /\ WF_vars(Replan)
  /\ WF_vars(Abandon) /\ WF_vars(DropLateReply) /\ WF_vars(Tick)
  /\ \A s \in Shards : WF_vars(ServeCall(s))

Spec == Init /\ [][Next]_vars /\ Fairness

-----------------------------------------------------------------------------
(***************************************************************************)
(* Properties                                                              *)
(***************************************************************************)

TypeOK ==
  /\ phase \in {"plan", "dispatch", "wait", "done"}
  /\ slot \in [Partitions -> SlotValues]
  /\ response_size \in Nat /\ bytes_left \in 0..MaxBytes
  /\ response_error \in BOOLEAN /\ initial_fetch \in BOOLEAN
  /\ shardOf \in [Partitions -> Shards \cup {NoShard}]
  /\ now \in 0..Deadline

(***************************************************************************)
(* The running totals kept by op_context agree with the slots, whatever    *)
(* order the shards' replies were applied in: response_size is the sum of  *)
(* the bytes in the slots, response_error says whether some slot holds an  *)
(* error (from the planner or from a read), and bytes_left is the budget   *)
(* minus what the response holds.                                          *)
(***************************************************************************)
ResponseAccounting ==
  /\ response_size = MapThenSumSet(LAMBDA p : slot[p].bytes, Partitions)
  /\ response_error = (\E p \in Partitions : slot[p] = Err)
  /\ bytes_left = IF response_size >= MaxBytes THEN 0 ELSE MaxBytes - response_size

(***************************************************************************)
(* The response never holds more than the request's max bytes, although   *)
(* the shards read concurrently and none sees what the others returned.    *)
(***************************************************************************)
BudgetRespected == response_size <= MaxBytes

(***************************************************************************)
(* A slot that holds data or an error is final: no later pass and no late  *)
(* reply changes it, and once the response is sent no slot changes.        *)
(***************************************************************************)
SlotsFinal ==
  [][/\ \A p \in Partitions : slot[p].kind # "empty" => slot'[p] = slot[p]
     /\ phase = "done" => slot' = slot]_vars

(***************************************************************************)
(* Every request is answered: the operation reaches "done", and every      *)
(* outstanding cross-shard call and reply is eventually drained.           *)
(***************************************************************************)
Termination == <>[](phase = "done" /\ calls = {} /\ replies = {})

=============================================================================
