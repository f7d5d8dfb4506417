SPECIFICATION MCSpec
CONSTANTS
  dict = dict
  Definitions <- MCDefinitions
  Calls <- MCCalls
CHECK_DEADLOCK FALSE
INVARIANTS
  CallsFollowPython
  ArgumentsArrive
  EvaluationFollowsPython
  StackBalanced
  
  SuperFollowsPython
PROPERTIES
  EveryStatementEnds
