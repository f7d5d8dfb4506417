SPECIFICATION Spec
CONSTANTS
  f = f
  x = x
  Names = {f, x}
  Definitions <- Shadowing
  MaxValues = 2
  MaxArgs = 2
  MaxCallDepth = 2
  MaxNesting = 3
  MaxHeld = 1
INVARIANTS
  TypeOK
  OwnershipExact
  DepthCounts
PROPERTIES
  CallsRestoreGlobals
