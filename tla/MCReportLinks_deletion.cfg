SPECIFICATION Spec
CONSTANTS
  Requests = {1, 2}
  MaxRuns = 2
  MaxMarks = 1
  Visitors = {1}
INVARIANT DeletionRemovesEverything
CHECK_DEADLOCK FALSE
