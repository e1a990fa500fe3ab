SPECIFICATION FairSpec
ACTION_CONSTRAINT OneMoves
CONSTANTS
  u1 = u1
  group = group
  super = super
  other = other
  Orders = {1, 2, 3}
  Customers = {u1}
  CustomerOf <- MCCustomerOf
  Chats = {group}
  SuperOf <- MCSuperOf
  InitialChats = {group}
  Refused = {1}
  Batch = 2
  MaxMoves = 0
  MaxToggles = 0
  MaxFaults = 1
  MaxClears = 1
  Unlimited = Unlimited
  None = None
PROPERTIES
  MessagesSettle
  CardsArrive
