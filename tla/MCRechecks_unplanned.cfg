SPECIFICATION FairSpec

CONSTANTS
  l1 = l1
  l2 = l2
  w1 = w1
  w2 = w2
  s1 = s1
  s2 = s2
  s3 = s3
  Leads = {l1}
  Returning = {}
  Workers = {w1}
  Slots = {s1}
  MaxPerDay = 1
  MaxAttempts = 1
  MaxNights = 0
  Events = {}
PROPERTY EveryLeadHearsBack
