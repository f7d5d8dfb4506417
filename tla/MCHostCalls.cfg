SPECIFICATION Spec
CONSTANTS
  Names = {f}
  MaxValues = 2
  MaxArgs = 2
  MaxDepth = 3
  MaxHeld = 1
  MaxLeaked = 1
INVARIANTS
  TypeOK
  OwnershipExact
  FramesInStep
