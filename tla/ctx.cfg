CONSTANTS
  Clients = {"c1"}
  Proxy = "proxy"
  MayClose = {"c1", "proxy"}
  MaxRequests = 2
SPECIFICATION FairSpec
CHECK_DEADLOCK FALSE
INVARIANT TypeOK
INVARIANT NoLostWakeup
INVARIANT NoLostCompletion
INVARIANT OneServiceAtATime
INVARIANT NoLostResponse
INVARIANT AnswersInOrder
PROPERTY RequestsAnswered
PROPERTY ImplementsServer
