SPECIFICATION Spec
CONSTANTS
  MaxU64 = 31
  Tenants = {t1, t2}
  NIL = NIL
  Plans <- SmallPlans
  Units <- SmallUnits
  Steps = {1}
  MinTime = 2
  MaxTime = 3
  MaxReceipts = 3
  MaxOpenings = 3
  MaxReplans = 1

SYMMETRY Symmetry

INVARIANTS
  TypeOK
  WithinHard
  HardPerPeriod
  Balance
  RemainingTells

PROPERTY
  NoFreeQuota
