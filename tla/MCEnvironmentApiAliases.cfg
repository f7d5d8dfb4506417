SPECIFICATION Spec
CONSTANTS
  Envs = {e1}
  Names = {f, g}
  Callbacks = {p, q}
  MaxValues = 3
  MaxIds = 2
  MaxCalls = 1
  MaxHeld = 1
INVARIANTS
  DirectNamesReachTheirCallback
