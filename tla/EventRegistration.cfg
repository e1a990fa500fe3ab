SPECIFICATION MCSpec
SYMMETRY MCSymmetry
CONSTANTS
  ann = ann
  bob = bob
  app = app
  site = site
  paidSite = paidSite
  added = added
  web = web
  Requests = {app, site, web, paidSite, added}
  KindOf <- MCKindOf
  Donates = {web, paidSite}
  People = {ann, bob}
  PersonOf <- MCPersonOf
  Starts = {s1, s2}
  Capacity = 1
  MaxReviews = 2
  MaxFaults = 1
  s1 = s1
  s2 = s2
  None = None
CHECK_DEADLOCK FALSE
INVARIANTS
  OneRowPerPerson
  CompletedMeansRegistered
  TicketsConfirmed
  WaitingTicketsOnce
  StartsClaimWaiting
PROPERTIES
  WithinLimits
