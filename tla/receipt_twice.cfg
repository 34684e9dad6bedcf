SPECIFICATION Spec
CONSTANTS
  MaxU64 = 31
  Second = 2
  NIL = NIL
  Names = {"default", "gold", "free"}
  DefaultName = "default"
  Specs <- TwoSpecs
  Bindings <- TenantBindings
  Keys <- SomeKeys
  Texts <- NoTexts
  Goroutines = {g1}
  MaxWrites = 5
  Tenants = {"acme"}
  Units = {1}
  MaxPaid = 2
  MaxResets = 0

CHECK_DEADLOCK FALSE

INVARIANT
  ReceiptOnce
