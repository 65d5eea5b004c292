SPECIFICATION MCSpec
\* Procs bounds the spawns, the requests and the clock end: all may stop.
CHECK_DEADLOCK FALSE
CONSTANTS
  Tasks = {t1, t2}
  Procs = {p1, p2, p3}
  NoProc = NoProc
  Ops = {"dispatch", "load", "deploy", "unload"}
  ConsentOps = {"enable", "tool_call", "revoke", "execute", "unload", "discover"}
  MaxManifests = 2
  MaxRestarts = 1
  Fetches = {fetch}
  Agents = {a1}
  MaxRequests = 2
  Window = 2
  MaxTime = 3
  Fields = 2
  Facts = 2
  Kinds = {"profile", "extract", "converse", "put"}
  MaxFaults = 1
  MaxRuns = 2
  Defaults = 0
  MaxDocuments = 4
  Durations = {1, 2, 3}
  MaxMinutes = 6
  MaxSessions = 2
  Trackers = {tracker}
  Loggers = {}
  Monitors = {monitor}
  Notifiers = {notifier}
  Cap = 1
  MaxDay = 2
SYMMETRY Symmetry
INVARIANTS
  NoProcessLost
  RevokedMeansDenied
  RevokeIsSticky
  ExecutionsAudited
  HeardUnlessShifted
  AnsweredIsStored
  RecordsAreTrue
  SessionsRunFull
PROPERTIES
  ReplacedIsInBak
