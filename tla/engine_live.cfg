SPECIFICATION FairSpec
CONSTANTS
  MaxU64 = 255
  Second = 4
  Grain = 2
  MaxTokens = 4
  MaxWait = 100
  NIL = NIL
  Goroutines = {g1, g2}
  Keys = {k1, k2}
  Shard <- OneShard
  Specs <- GcraAndLog
  IdleTTL = 1
  Ns = {1, 2}
  MaxTime = 0
  MaxLag = 1
  MaxGrants = 1
  MaxResets = 1

PROPERTY CallsReturn
