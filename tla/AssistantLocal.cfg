SPECIFICATION Spec
CHECK_DEADLOCK FALSE
CONSTANTS
  Together = {{c1, c2}, {v1, v2}}
  Chats = {c1, c2}
  Voices = {v1, v2}
  Extracting = {c1}
  MaxCalls = 2
  Emitted = 3
  MaxTurns = 1
  Cap = 1
  MaxListens = 2
INVARIANT
  LocalOnlyStaysLocal
