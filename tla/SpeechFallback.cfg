SPECIFICATION Spec
\* Every request is made once: all may be answered.
CHECK_DEADLOCK FALSE
CONSTANTS
  Requests = {r1, r2}
  Sentences = 2
INVARIANT
  FallsBackToOther
