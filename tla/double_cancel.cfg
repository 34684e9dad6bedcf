SPECIFICATION Spec
CONSTANTS
  MaxU64 = 255
  Second = 4
  Grain = 2
  MaxTokens = 4
  MaxWait = 100
  NIL = NIL
  Goroutines = {g1, g2}
  Keys = {k1}
  Shard <- OneShard
  Specs <- GcraOnly
  IdleTTL = 2
  Ns = {1}
  MaxTime = 0
  MaxLag = 1
  MaxGrants = 1
  MaxResets = 1

INVARIANT CancelOnce
