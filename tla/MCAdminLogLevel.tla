--------------------------- MODULE MCAdminLogLevel ---------------------------
(* Model of the log-level overrides for TLC: two loggers, three levels,     *)
(* expiries of 0 (permanent) and 1 tick, and a default of 2 ticks so that  *)
(* two pending restores can have different expiries.                       *)
EXTENDS AdminLogLevel

CONSTANTS info, debug, trace

MCLevels == {info, debug, trace}
=============================================================================
