SPECIFICATION Spec
CONSTANTS
  Errors = {"ValueError", "KeyError"}
  MaxItems = 2
  MaxTrace = 8
  Functions <- MCBreaks
INVARIANT IteratorsKeepToTheirLoops
CHECK_DEADLOCK FALSE
