SPECIFICATION Spec
CONSTANTS
  MaxU64 = 255
  Second = 4
  Grain = 2
  MaxTokens = 4
  MaxWait = 100
  NIL = NIL
  Specs <- LogOnly
  StartTimes = {0}
  MaxN = 3
  Steps = {1}
  MaxTime = 7
  MaxBack = 2
  MaxCalls = 4

INVARIANT LogLiveWindow
