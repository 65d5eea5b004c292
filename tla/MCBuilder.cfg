SPECIFICATION MCSpec
\* Every call is made once.
CHECK_DEADLOCK FALSE
CONSTANTS
  MaxRuns = 2
  n1 = n1
  NoName = NoName
  Sessions = {b1, b2}
  Names = {n1}
  Tasks = {t1}
  Copies = 2
  Templates = {"reminder"}
  Given <- MCGiven
  CrossDevice = TRUE
  Faults = {"move", "remove", "crash"}
  MaxInstalls = 4
SYMMETRY Symmetry
INVARIANTS
  BuiltSkillStands
  PreviousOrNewIsWhole
