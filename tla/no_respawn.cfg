CONSTANTS
  N = 2
  ProxyPid = proxy
  MaxCrashes = 1
  MaxForkFails = 0
SPECIFICATION FairSpec
CHECK_DEADLOCK FALSE
PROPERTY Respawns
