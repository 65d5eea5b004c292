SPECIFICATION Spec
\* Every call is made once: all may be answered.
CHECK_DEADLOCK FALSE
CONSTANTS
  NoCall = NoCall
  Calls = {c1, c2}
  Trackers = {}
  Loggers = {}
  Monitors = {m1}
  Notifiers = {n1}
  Cap = 2
  MaxDay = 1
  MaxFaults = 0
INVARIANT
  ResolverRestored
