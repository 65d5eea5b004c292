SPECIFICATION MCSpec
\* Every request is made once: all may be answered.
CHECK_DEADLOCK FALSE
CONSTANTS
  c1 = c1
  c2 = c2
  v1 = v1
  v2 = v2
  Together <- MCTogether
  Chats = {c1, c2}
  Voices = {v1, v2}
  Extracting = {c1}
  MaxCalls = 2
  Emitted = 3
  MaxTurns = 1
  Cap = 1
  MaxListens = 2
  Requests = {r1, r2}
  Downloads = {d1, d2}
  Sentences = 2
  Models = {m1, m2}
  Blocks = 2
  MinSamples = 2
  MaxLines = 6
SYMMETRY Symmetry
INVARIANTS
  LocalOnlyPerRouter
  TurnsPaired
  SaidInFull
  NoSilentWork
  NothingSaidTwice
  WholeUnlessDisturbed
  NoSilentTranscript
  AnswersExplained
