SPECIFICATION MCSpec
CONSTANTS
  Programs <- MCPrograms
  Dense <- MCDense
  Junk <- MCJunk
  AtStart <- MCAtStart
  Separator = ";"
  Runtimes = {r1, r2}
  Names = {a, b}
  Values = {v, w}
  MaxSlots = 4
SYMMETRY Symmetry
CHECK_DEADLOCK FALSE
INVARIANTS
  FollowsPython
  Balanced
  BlocksFollowPython
  OneSlotPerName
PROPERTIES
  ImplementsNamespace
