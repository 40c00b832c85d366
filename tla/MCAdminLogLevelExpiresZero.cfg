\* The comment "expires=0 is same as not specifying it at all" against what set_log_level does.
CONSTANTS
  a = a
  b = b
  info = info
  debug = debug
  trace = trace
  Loggers = {a, b}
  Levels <- MCLevels
  InitialLevel = info
  DefaultExpiry = 2
  Expires = {0, 1}
  NoExpires = NoExpires
SPECIFICATION Spec
PROPERTY ExpiresZeroAsUnset
