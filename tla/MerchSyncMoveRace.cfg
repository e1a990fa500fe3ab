SPECIFICATION Spec
CONSTANTS
  u1 = u1
  group = group
  super = super
  other = other
  Orders = {1}
  Customers = {u1}
  CustomerOf <- MCCustomerOf
  Chats = {group, other}
  SuperOf <- MCSuperOf
  InitialChats = {group}
  Refused = {}
  Batch = 2
  MaxMoves = 1
  MaxToggles = 0
  MaxFaults = 0
  MaxClears = 0
  Unlimited = Unlimited
  None = None
INVARIANTS
  CardFollowsChat
