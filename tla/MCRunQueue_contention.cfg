SPECIFICATION Spec
CONSTANTS
  Runs = {1}
  w1 = w1
  w2 = w2
  q1 = q1
  q2 = q2
  Workers = {w1, w2}
  Questions = {q1, q2}
  Plans = {{q1, q2}, {q1}}
  Generated = {}
  Bypass = {}
  MaxAttempts = 2
  AskCost = 0
  GenCost = 0
  Cap = 1
  MaxStops = 1
  MaxEdits = 1
  Faults = {"crash", "dberror", "lostack", "kill"}
SYMMETRY WorkerSymmetry
INVARIANTS
  OneHolder
  OneRowPerQuestion
  DoneReportIsSound
  FailuresArePaidFor
  AlertsAreTrueAndSingle
PROPERTIES
  ImplementsLifecycle
  AnswersKept
