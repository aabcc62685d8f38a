CONSTANTS
  N = 2
  ProxyPid = proxy
  MaxCrashes = 0
  MaxForkFails = 0
SPECIFICATION FairSpec
CHECK_DEADLOCK FALSE
PROPERTY StopsAll
