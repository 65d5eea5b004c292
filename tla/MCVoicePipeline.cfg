SPECIFICATION MCSpec
\* One request at a time; MaxStarts, MaxStops and MaxChats bound what is begun.
CHECK_DEADLOCK FALSE
CONSTANTS
  Callers = {c1}
  MaxStarts = 2
  MaxStops = 2
  MaxChats = 1
  Sessions = {1, 2}
  Last = 2
  Number = 2
  Size = 2
  Calls = {1}
  MaxFaults = 2
  MaxRestarts = 1
INVARIANTS
  StoppedMeansOff
  StartedMeansListening
  
  BusyHasOwner
  InstalledIsVerified
PROPERTIES
  RequestsEnd
  RetrySucceeds
