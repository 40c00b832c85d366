\* Safety and liveness of the log-level restore table and timer.
CONSTANTS
  a = a
  b = b
  info = info
  debug = debug
  trace = trace
  Loggers = {a, b}
  Levels <- MCLevels
  InitialLevel = info
  DefaultExpiry = 2
  Expires = {0, 1}
  NoExpires = NoExpires
SPECIFICATION Spec
INVARIANTS
  TypeOK
  RestoresBaseLevel
  TimerCoversResets
PROPERTIES
  ExpiredOverrideReverted
