SPECIFICATION Spec
CONSTANTS
  MaxU64 = 255
  Second = 4
  Grain = 2
  MaxTokens = 4
  MaxWait = 100
  NIL = NIL
  Specs <- AllSpecs
  StartTimes = {1}
  MaxN = 3
  Steps = {1}
  MaxTime = 6
  MaxBack = 1
  MaxCalls = 3

INVARIANTS
  TypeOK
  BucketBound
  BucketFormula
  GcraBound
  GcraFormula
  LogWindow
  CounterWeighs
  WaitExact
  RollsBack
  PeekAgrees
  RingImplements

PROPERTY
  ImplementsLeaky
