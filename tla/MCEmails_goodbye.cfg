SPECIFICATION EmailsSpec
CONSTANTS
  q1 = q1
  w1 = w1
  w2 = w2
  w3 = w3
  l1 = l1
  l2 = l2
  t1 = t1
  t2 = t2
  Requests = {q1}
  Workers = {w1, w2}
  MaxAttempts = 3
  MaxCrashes = 2
  MaxReruns = 1
  Faults = {"lost", "dberror"}
  Leads = {l1, l2}
  Tabs = {t1}
  MaxSends = 2
  OutreachFaults = {"lost", "crash"}
  LinkRequests = {1, 2}
  MaxRuns = 2
  MaxMarks = 1
  Visitors = {1}
  Calls = {1, 2, 3}
  Closed = {1, 2}
  Keys = {"ip", "email"}
  KeysOf <- ByAddress
  Limit <- OneEach
  MaxWindow = 1
INVARIANT GoodbyeIsForThePerson
CHECK_DEADLOCK FALSE
