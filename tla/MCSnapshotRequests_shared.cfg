SPECIFICATION Spec
SYMMETRY Symmetry
CHECK_DEADLOCK FALSE
CONSTANTS
  f1 = f1
  f2 = f2
  p1 = p1
  v1 = v1
  v2 = v2
  a1 = a1
  plumbing = plumbing
  roofing = roofing
  site = site
  Panels = {plumbing, roofing}
  Sites = {site}
  Forms = {f1, f2}
  Prospects = {p1}
  Visitors = {v1, v2}
  Admins = {a1}
  PanelOf <- SamePanel
  SitesOf <- ProspectSites
  RunIds = {1, 2, 3}
  MaxReruns = 1
  MaxTx = 3
  Faults = {"abort"}
INVARIANTS ReportFitsTheRequest SameRunEveryVisit OneLiveRunPerQuestionSet RunsFollowRequests
