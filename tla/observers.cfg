SPECIFICATION Spec
CONSTANTS
  NIL = NIL
  Goroutines = {g1, g2, g3}
  Keys = {"k1", "k2"}
  Shards <- TwoShards
  ShardOf <- OneEach
  Policies = {"api"}
  Reasons = {"rate"}
  Waits = {0, 2, 3}
  MaxU64 = 9
  MaxCalls = 3

SYMMETRY Symmetry

CHECK_DEADLOCK FALSE

INVARIANTS
  TypeOK
  SnapshotAddsUp
  AverageCovers
  NothingLost
  StatsBalance
  WalkBounds
