SPECIFICATION Spec
CONSTANTS
  MaxU64 = 31
  Tenants = {t1}
  NIL = NIL
  Plans <- OnePlan
  Units <- WideUnits
  Steps = {1}
  MinTime = 2
  MaxTime = 3
  MaxReceipts = 3
  MaxOpenings = 3
  MaxReplans = 0

INVARIANT
  UsedNeverNegative
