SPECIFICATION Spec
CONSTANTS
  u1 = u1
  group = group
  super = super
  other = other
  Orders = {1}
  Customers = {u1}
  CustomerOf <- MCCustomerOf
  Chats = {group, super}
  SuperOf <- MCSuperOf
  InitialChats = {group, None}
  Refused = {}
  Batch = 2
  MaxMoves = 2
  MaxToggles = 2
  MaxFaults = 1
  MaxClears = 0
  Unlimited = Unlimited
  None = None
CONSTRAINT TwoTroubles
INVARIANTS
  TypeOK
  CardCurrent
  NoticesInOrder
  RepeatsHaveCause
  NothingOwedIsLost
