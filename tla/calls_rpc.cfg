CONSTANTS
  Actors = {"calc1","add1","step_two1","echo1"}
  Nodes = {"calc","add","step_two","echo"}
  NodeOf <- ForkNodeOf
  Services = {"svc_step","svc_add","svc_step_two","svc_echo"}
  ServiceMap <- ForkMap
  Calls <- ForkCalls
  ClientNodes = {"calc","add"}
  MaxSends = 2
  SeqSize = 1
  MaxClients = 2
  MaxCrashes = 0
  NoCall = NoCall
  NoActor = NoActor
  NoRequest = NoRequest
  NoMsg = NoMsg
  NoReq = NoReq
SPECIFICATION ReadySpec
CHECK_DEADLOCK FALSE
INVARIANT ResponseToRequester
INVARIANT ChainHasWork
INVARIANT NoRequestWaits
PROPERTY ImplementsRpc
