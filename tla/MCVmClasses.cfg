SPECIFICATION Spec
CONSTANTS
  HostTypes = {dict}
  Statements <- MCStatements
  MaxBases = 1
  MaxDeleted = 0
  MaxChain = 3
CHECK_DEADLOCK FALSE
INVARIANTS
  SuperNeverRevisits
