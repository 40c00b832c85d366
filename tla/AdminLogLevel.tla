--------------------------- MODULE AdminLogLevel ---------------------------
(***************************************************************************)
(* Temporary log-level overrides of the admin API                          *)
(* (src/v/redpanda/admin/server.cc): the set_log_level route, the          *)
(* _log_level_resets table of levels to restore, and the one timer that    *)
(* restores them (rearm_log_level_timer, log_level_timer_handler).         *)
(*                                                                         *)
(* HTTP requests and the timer callback are tasks of the same reactor;     *)
(* each handler runs to completion without yielding, so a request and a    *)
(* timer expiry interleave only between handlers.                          *)
(*                                                                         *)
(* Time is kept relative: an expiry is the number of clock ticks left      *)
(* until it; "expires <= now" is a count of zero.                          *)
(***************************************************************************)
EXTENDS Naturals, FiniteSets, FiniteSetsExt, Functions, TLC

CONSTANTS
  Loggers,        \* names known to the global logger registry
  Levels,         \* log levels
  InitialLevel,   \* level of every logger at start-up
  DefaultExpiry,  \* the 10 minutes used when no "expires" is given
  Expires,        \* values a client may pass as "expires" (0 = permanent)
  NoExpires       \* the request carries no "expires" parameter

ASSUME /\ InitialLevel \in Levels
       /\ DefaultExpiry \in Nat \ {0}
       /\ Expires \subseteq Nat
       /\ NoExpires \notin Nat

VARIABLES
  level,      \* global_logger_registry(): current level of each logger
  resets,     \* _log_level_resets: logger -> [level to restore, ticks left]
  armed,      \* _log_level_timer is armed
  timerLeft,  \* ticks until the armed timer fires
  base        \* history: the level a logger has without temporary overrides

vars == << level, resets, armed, timerLeft, base >>

Horizon == Max(Expires \cup {DefaultExpiry})

Entries == UNION {[D -> [level : Levels, left : 0..Horizon]] : D \in SUBSET Loggers}

(***************************************************************************)
(* rearm_log_level_timer(): cancel the timer and arm it at the earliest    *)
(* expiry of the table, if the table is not empty.                         *)
(***************************************************************************)
\* Fault model: the timer armed at the latest expiry instead of the earliest.
Rearm_latest(r) ==
  /\ armed' = (DOMAIN r # {})
  /\ timerLeft' = IF DOMAIN r = {} THEN 0 ELSE Max({r[n].left : n \in DOMAIN r})

Rearm(r) ==
  /\ armed' = (DOMAIN r # {})
  /\ timerLeft' = IF DOMAIN r = {} THEN 0 ELSE Min({r[n].left : n \in DOMAIN r})

(***************************************************************************)
(* The set_log_level route: remember the current level, set the new one,   *)
(* and either record (or push back) the restore, or, for expires=0, drop   *)
(* any pending restore; then rearm. try_emplace keeps the level saved by   *)
(* an earlier override of the same logger.                                 *)
(***************************************************************************)
Ttl(exp) == IF exp = NoExpires THEN DefaultExpiry ELSE exp

\* Fault model: the saved level overwritten by each new override.
SetLogLevel_overwrite(n, new, exp) ==
  LET cur == level[n]
      e   == Ttl(exp)
      r   == IF e > 0
             THEN [m \in DOMAIN resets \cup {n} |->
                     IF m = n THEN [level |-> cur, left |-> e] ELSE resets[m]]
             ELSE Restrict(resets, DOMAIN resets \ {n})
  IN /\ level' = [level EXCEPT ![n] = new]
     /\ resets' = r
     /\ Rearm(r)
     /\ base' = IF e > 0 THEN base ELSE [base EXCEPT ![n] = new]

SetLogLevel(n, new, exp) ==
  LET cur == level[n]
      e   == Ttl(exp)
      r   == IF e = 0 THEN Restrict(resets, DOMAIN resets \ {n})
             ELSE IF n \in DOMAIN resets THEN [resets EXCEPT ![n].left = e]
             ELSE resets @@ (n :> [level |-> cur, left |-> e])
  IN /\ level' = [level EXCEPT ![n] = new]
     /\ resets' = r
     /\ Rearm(r)
     /\ base' = IF e > 0 THEN base ELSE [base EXCEPT ![n] = new]

(***************************************************************************)
(* log_level_timer_handler(): the seastar timer fires (and is no longer    *)
(* armed), the handler restores every logger whose expiry has passed,      *)
(* erases its entry, and rearms for the rest.                              *)
(***************************************************************************)
Due(r) == {n \in DOMAIN r : r[n].left = 0}

\* Fault model: the handler returns without calling rearm_log_level_timer().
LogLevelTimerHandler_no_rearm ==
  /\ armed /\ timerLeft = 0
  /\ LET due == Due(resets) IN
     /\ level' = [n \in Loggers |-> IF n \in due THEN resets[n].level ELSE level[n]]
     /\ resets' = Restrict(resets, DOMAIN resets \ due)
  /\ armed' = FALSE /\ timerLeft' = 0
  /\ UNCHANGED base

LogLevelTimerHandler ==
  /\ armed /\ timerLeft = 0
  /\ LET due == Due(resets)
         r   == Restrict(resets, DOMAIN resets \ due)
     IN /\ level' = [n \in Loggers |-> IF n \in due THEN resets[n].level ELSE level[n]]
        /\ resets' = r
        /\ Rearm(r)
  /\ UNCHANGED base

(***************************************************************************)
(* One clock tick: every pending expiry and the timer come one tick        *)
(* closer; those already due stay due.                                     *)
(***************************************************************************)
\* Fault model: a counter decremented past zero.
Dec_nofloor(k) == k - 1

Dec(k) == IF k > 0 THEN k - 1 ELSE 0

Tick ==
  /\ (armed /\ timerLeft > 0) \/ \E n \in DOMAIN resets : resets[n].left > 0
  /\ resets' = [n \in DOMAIN resets |-> [resets[n] EXCEPT !.left = Dec(@)]]
  /\ timerLeft' = Dec(timerLeft)
  /\ UNCHANGED << level, armed, base >>

Init ==
  /\ level = [n \in Loggers |-> InitialLevel]
  /\ resets = << >>
  /\ armed = FALSE
  /\ timerLeft = 0
  /\ base = level

Next ==
  \/ \E n \in Loggers, new \in Levels, exp \in Expires \cup {NoExpires} :
       SetLogLevel(n, new, exp)
  \/ LogLevelTimerHandler
  \/ Tick

(***************************************************************************)
(* The reactor runs the timer callback once it is due, and the clock       *)
(* advances; clients are not obliged to send anything.                     *)
(***************************************************************************)
Spec == Init /\ [][Next]_vars /\ WF_vars(LogLevelTimerHandler) /\ WF_vars(Tick)

-----------------------------------------------------------------------------
TypeOK ==
  /\ level \in [Loggers -> Levels]
  /\ resets \in Entries
  /\ armed \in BOOLEAN /\ timerLeft \in 0..Horizon
  /\ base \in [Loggers -> Levels]

(***************************************************************************)
(* A pending restore returns the logger to the level it had before the     *)
(* first of the overlapping temporary overrides, not to an intermediate    *)
(* temporary level; a logger with no pending restore is at its base level. *)
(***************************************************************************)
RestoresBaseLevel ==
  \A n \in Loggers :
    IF n \in DOMAIN resets THEN resets[n].level = base[n] ELSE level[n] = base[n]

(***************************************************************************)
(* Whenever a restore is pending the timer is armed, and no later than the *)
(* earliest pending expiry, whatever order requests and expiries came in.  *)
(***************************************************************************)
TimerCoversResets ==
  DOMAIN resets # {} =>
    /\ armed
    /\ \A n \in DOMAIN resets : timerLeft <= resets[n].left

(***************************************************************************)
(* An expired override is eventually reverted, unless a client pushes its  *)
(* expiry back first.                                                      *)
(***************************************************************************)
ExpiredOverrideReverted ==
  \A n \in Loggers :
    (n \in DOMAIN resets /\ resets[n].left = 0)
      ~> (n \notin DOMAIN resets \/ resets[n].left > 0)

(***************************************************************************)
(* The comment in set_log_level says "expires=0 is same as not specifying  *)
(* it at all": a request with expires=0 leaves the loggers, the restore    *)
(* table and the timer as the same request without "expires" would.        *)
(***************************************************************************)
ExpiresZeroAsUnset ==
  [][\A n \in Loggers, new \in Levels :
       SetLogLevel(n, new, 0) => SetLogLevel(n, new, NoExpires)]_vars

=============================================================================
