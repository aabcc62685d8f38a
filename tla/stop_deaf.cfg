CONSTANTS
  Masters = {m1, m2}
  Nodes = {"echo", "calc"}
  Endpoints = {"127.0.0.1:7777"}
  NoFile = NoFile
  Empty = Empty
  Mixed = Mixed
  Nobody = Nobody
  MaxStops = 2
SPECIFICATION FairSpec
CHECK_DEADLOCK FALSE
PROPERTY StopEndsMaster
