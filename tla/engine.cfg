SPECIFICATION Spec
CONSTANTS
  MaxU64 = 255
  Second = 4
  Grain = 2
  MaxTokens = 4
  MaxWait = 100
  NIL = NIL
  Goroutines = {g1, g2}
  Keys = {k1}
  Shard <- OneShard
  Specs <- Gates
  IdleTTL = 2
  Ns = {1}
  MaxTime = 3
  MaxLag = 1
  MaxGrants = 2
  MaxResets = 1

SYMMETRY Symmetry

INVARIANTS
  TypeOK
  GcraKeyBound
  BucketKeyBound
  LogKeyBound

PROPERTY
  SweepHarmless
