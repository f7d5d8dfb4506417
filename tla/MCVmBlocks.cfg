SPECIFICATION Spec
CONSTANTS
  Errors = {"ValueError", "KeyError"}
  MaxItems = 2
  MaxTrace = 10
  Functions <- MCPrograms
CHECK_DEADLOCK FALSE
INVARIANTS
  FollowsPython
  ProtectionInStep
  ExitsNewestFirst
  ReturnExitsAll
