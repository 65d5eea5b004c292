SPECIFICATION MCSpec
\* MaxCommands, MaxWakes and the bridge's calls bound what is begun.
CHECK_DEADLOCK FALSE
CONSTANTS
  Ids = {i1, i2, i3}
  ChanCap = 1
  PipeCap = 1
  NoId = NoId
  MinSpeech = 1
  SilenceToEnd = 1
  QueueCap = 2
  MaxWakes = 2
  MaxCommands = 3
INVARIANTS
  EchoSafeUnlessAbandoned
  
PROPERTIES
  OwnResultUnlessAbandoned
  BusyEnds
