SPECIFICATION MCSpec
SYMMETRY MCSymmetry
CONSTANTS
  a1 = a1
  a2 = a2
  b1 = b1
  c1 = c1
  c2 = c2
  k1 = k1
  k2 = k2
  v1 = v1
  v2 = v2
  p1 = p1
  g1 = g1
  f1 = f1
  f2 = f2
  Attempts = {a1, a2, b1}
  Variants = {v1, v2}
  Groups = {g1}
  Forms = {f1, f2}
  KeyOf <- MCKeyOf
  CustomerOf <- MCCustomerOf
  CartOf <- MCCartOf
  ProductOf <- MCProductOf
  MemberOf <- MCMemberOf
  FormProduct <- MCFormProduct
  StockChoices <- LimitOrNone
  InitialStock <- BothOnSale
  InitialGroups <- MCInitialGroups
  MaxQty = 2
  MaxPending = 1
  OrdersPerWindow = 1
  MaxClears = 1
  Unlimited = Unlimited
  Unborn = Unborn
  Gone = Gone
  None = None
INVARIANTS
  StockConserved
  OneOrderPerKey
  AnswersAgree
PROPERTIES
  NoSaveReverted
  ImplementsLifecycle
CHECK_DEADLOCK FALSE
