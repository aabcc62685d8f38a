CONSTANTS
  Actors = {"calc1","calc2","step_two1","echo1"}
  Nodes = {"calc","step_two","echo"}
  NodeOf <- TwoNodeOf
  Services = {"svc_step","svc_step_two","svc_echo"}
  ServiceMap <- TwoMap
  Calls <- TwoCalls
  ClientNodes = {"calc"}
  MaxSends = 2
  SeqSize = 2
  MaxClients = 3
  MaxCrashes = 0
  NoCall = NoCall
  NoActor = NoActor
  NoRequest = NoRequest
  NoMsg = NoMsg
  NoReq = NoReq
SPECIFICATION ReadySpec
CHECK_DEADLOCK FALSE
INVARIANT ResultIsOwn
