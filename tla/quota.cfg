SPECIFICATION Spec
CONSTANTS
  MaxU64 = 31
  Second = 2
  NIL = NIL
  Names = {"default", "gold", "free"}
  DefaultName = "default"
  Specs <- SomeSpecs
  Bindings <- SomeBindings
  Keys <- SomeKeys
  Texts <- SomeTexts
  Goroutines = {g1, g2}
  MaxWrites = 2
  Tenants = {"acme", "beta"}
  Units = {1}
  MaxPaid = 2
  MaxResets = 1

SYMMETRY Symmetry

CHECK_DEADLOCK FALSE

INVARIANTS
  TypeOK
  MostSpecific
  LoadedInForce
  LedgerFollowsPolicy
  ChargesOnOneBook
  ParsesAsWritten
  KeysApart

PROPERTY
  NeverFallsBack
