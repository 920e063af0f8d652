SPECIFICATION FairSpec
CONSTANTS
  Runs = {1}
  w1 = w1
  w2 = w2
  q1 = q1
  q2 = q2
  Workers = {w1, w2}
  Questions = {q1, q2}
  Plans = {{q1, q2}, {q1}}
  Generated = {1}
  Bypass = {}
  MaxAttempts = 2
  AskCost = 1
  GenCost = 1
  Cap = 1
  MaxStops = 0
  MaxEdits = 0
  Faults = {"crash", "dberror"}
INVARIANT CostNeverOverstated
PROPERTIES EveryRunSettles GeneratedPanelIsKept
