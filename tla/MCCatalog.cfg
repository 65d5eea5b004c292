SPECIFICATION MCSpec
\* Everybody may leave it at that.
CHECK_DEADLOCK FALSE
CONSTANTS
  u1 = u1
  None = None
  Blank = Blank
  Kernels = {k1, k2}
  Accounts = {u1}
  Holders = {u1, u2}
  MaxSessions = 3
  MaxRenewals = 1
  Who <- MCWho
  MaxInstalls = 2
  s1 = s1
  s2 = s2
  Skills = {s1, s2}
  Template <- MCTemplate
  Period <- MCPeriod
  Interval = 2
  Poll = 1
  HourLen = 2
  DayLen = 8
  DayHour <- MCDayHour
  Zones <- MCZones
  Frozen = TRUE
  Changing = {s1}
  MaxTime = 3
  MaxRuns = 2
  Names = {"n1"}
  SpecNames = {"n1"}
  Lists <- MCLists
  slugify <- MCslugify
  CACHE_TTL = 1
SYMMETRY Symmetry
INVARIANTS
  CountWithinInstalls
  MergeIsPrecedence
  SlotOnce
PROPERTIES
  RestoresLast
  VoiceBuiltTravels
  IntervalKept
