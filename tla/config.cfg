CONSTANTS
  Names = {"echo", "calc"}
  Services = {"echo", "add", "sub"}
  Addresses = {"127.0.0.1"}
  Ports = {"7777", "7778"}
  None = None
SPECIFICATION Spec
CHECK_DEADLOCK FALSE
INVARIANT TypeOK
INVARIANT MapsAgree
INVARIANT LoadsRight
INVARIANT RefusedRightly
