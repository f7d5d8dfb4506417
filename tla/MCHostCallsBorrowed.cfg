SPECIFICATION Spec
CONSTANTS
  Names = {f}
  MaxValues = 2
  MaxArgs = 1
  MaxDepth = 2
  MaxHeld = 1
  MaxLeaked = 1
INVARIANTS
  BorrowedArgumentsValid
