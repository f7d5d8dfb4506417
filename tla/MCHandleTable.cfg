SPECIFICATION Spec
CONSTANTS
  Runtimes = {r1, r2}
  NoRuntime = NoRuntime
  Names = {x}
  BadName = BadName
  HostIds = {o1}
  Scalar = Scalar
  MaxValues = 2
  MaxHeld = 1
SYMMETRY Symmetry
INVARIANTS
  TypeOK
  RefsExact
  NothingDangles
PROPERTIES
  RefusalsChangeNothing
  HandlesNeverReused
  RuntimesIsolated
