SPECIFICATION Spec
CONSTANTS
  Envs = {e1, e2}
  Direct = Direct
  Names = {x}
  BadName = BadName
  Values = {int, str}
  Ints = {int}
  x = x
  int = int
  str = str
  EntryLists <- MCEntryLists
  Unbound = Unbound
  NoSnapshot = NoSnapshot
  MaxHandles = 2
  MaxHeld = 2
  MaxDepth = 2
SYMMETRY Symmetry
INVARIANTS
  TypeOK
  RefsExact
  FailuresExplained
  ClosedTogether
PROPERTIES
  ClosedForGood
