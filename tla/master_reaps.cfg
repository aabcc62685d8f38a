CONSTANTS
  N = 3
  ProxyPid = proxy
  MaxCrashes = 2
  MaxForkFails = 1
SPECIFICATION FairSpec
CHECK_DEADLOCK FALSE
INVARIANT TypeOK
INVARIANT NoExitForgotten
INVARIANT ExitedIsReaped
PROPERTY StopsRunning
