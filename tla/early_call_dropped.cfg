CONSTANTS
  Actors = {"calc1","calc2","add1"}
  Nodes = {"calc","add"}
  NodeOf <- AddNodeOf
  Services = {"svc_calc","svc_add"}
  ServiceMap <- AddMap
  Calls <- AddCalls
  ClientNodes = {"calc"}
  MaxSends = 1
  SeqSize = 2
  MaxClients = 1
  MaxCrashes = 0
  NoCall = NoCall
  NoActor = NoActor
  NoRequest = NoRequest
  NoMsg = NoMsg
  NoReq = NoReq
SPECIFICATION ConnectingSpec
CHECK_DEADLOCK FALSE
PROPERTY SendReturns
