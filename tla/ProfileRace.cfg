SPECIFICATION Spec
\* Every call is made once: all may be answered.
CHECK_DEADLOCK FALSE
CONSTANTS
  Callers = {c1, c2}
  Kinds = {"profile"}
  Fields = 2
  Facts = 1
  MaxFaults = 0
  MaxRuns = 1
INVARIANT
  OneFactPerTopic
