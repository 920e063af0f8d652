SPECIFICATION Spec
CONSTANTS
  Runs = {1}
  w1 = w1
  q1 = q1
  q2 = q2
  Workers = {w1}
  Questions = {q1, q2}
  Plans = {{q1, q2}}
  Generated = {}
  Bypass = {}
  MaxAttempts = 2
  AskCost = 0
  GenCost = 0
  Cap = 1
  MaxStops = 1
  MaxEdits = 0
  Faults = {"kill"}
INVARIANT InterruptionsAreRefunded
