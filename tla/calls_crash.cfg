CONSTANTS
  Actors = {"front1","front2","back1"}
  Nodes = {"front","back"}
  NodeOf <- MixNodeOf
  Services = {"svc_front","svc_back","svc_none"}
  ServiceMap <- MixMap
  Calls <- MixCalls
  ClientNodes = {"front"}
  MaxSends = 1
  SeqSize = 2
  MaxClients = 2
  MaxCrashes = 1
  NoCall = NoCall
  NoActor = NoActor
  NoRequest = NoRequest
  NoMsg = NoMsg
  NoReq = NoReq
SPECIFICATION FairSpec
CHECK_DEADLOCK FALSE
INVARIANT TypeOK
INVARIANT BackDefined
INVARIANT AckFirst
INVARIANT RequestInOnePlace
INVARIANT WaitingMirror
INVARIANT ResponderEndsChain
PROPERTY HangsOnlyByLossOrCycle
