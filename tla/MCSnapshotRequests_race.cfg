SPECIFICATION Spec
SYMMETRY Symmetry
CHECK_DEADLOCK FALSE
CONSTANTS
  f1 = f1
  f2 = f2
  p1 = p1
  v1 = v1
  v2 = v2
  a1 = a1
  a2 = a2
  plumbing = plumbing
  roofing = roofing
  site = site
  Panels = {plumbing, roofing}
  Sites = {site}
  Forms = {f1, f2}
  Prospects = {}
  Visitors = {v1}
  Admins = {a1}
  PanelOf <- SamePanel
  SitesOf <- NoSites
  RunIds = {1, 2}
  MaxReruns = 0
  MaxTx = 2
  Faults = {}
INVARIANTS LinkStaysValid
