SPECIFICATION Spec
CONSTANTS
  MaxU64 = 255
  Second = 4
  Grain = 2
  MaxTokens = 4
  MaxWait = 100
  NIL = NIL
  Specs <- FineCounter
  StartTimes = {0}
  MaxN = 3
  Steps = {1}
  MaxTime = 8
  MaxBack = 2
  MaxCalls = 8

INVARIANT CounterWindow
