SPECIFICATION FairSpec
CONSTANTS
  Clients = {c1, c2}
  Stopper = stopper
  NoOne = NoOne
  MaxRequests = 3
  MaxPrints = 1
  Disturbances = {"timeout", "cancel", "print", "proxy_raise"}
INVARIANTS
  OwnAnswerUnlessDisturbed
PROPERTIES
  ProxyReplyReachesItsCall
  ImplementsService
  EveryCallReturns
