SPECIFICATION Spec
CONSTANTS
  ann = ann
  bob = bob
  app = app
  site = site
  paidSite = paidSite
  added = added
  web = web
  Requests = {added}
  KindOf <- MCKindOf
  Donates = {}
  People = {ann}
  PersonOf <- MCPersonOf
  Starts = {s1}
  Capacity = 2
  MaxReviews = 0
  MaxFaults = 0
  s1 = s1
  s2 = s2
  None = None
CHECK_DEADLOCK FALSE
INVARIANT
  FirstStartDelivers
