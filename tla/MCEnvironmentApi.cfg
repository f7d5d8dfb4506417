SPECIFICATION Spec
CONSTANTS
  Envs = {e1, e2}
  Names = {f, g}
  Callbacks = {p, q}
  MaxValues = 2
  MaxIds = 2
  MaxCalls = 2
  MaxHeld = 1
SYMMETRY Symmetry
INVARIANTS
  TypeOK
  OwnershipExact
  UnreplacedNamesReachTheirCallback
  CallsRunTheirCallback
  SlotsAccountedFor
PROPERTIES
  FailedAddChangesNothing
