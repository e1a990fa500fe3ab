SPECIFICATION MCSpec
CONSTANTS
  ax = ax
  ay = ay
  az = az
  bx = bx
  early = early
  late = late
  lateY = lateY
  lateI = lateI
  halX = halX
  halY = halY
  idaY = idaY
  k1 = k1
  k2 = k2
  k3 = k3
  k4 = k4
  k5 = k5
  noon = noon
  t1 = t1
  t2 = t2
  Candidates = {ax, ay, az, bx}
  PersonOf <- MCPersonOf
  DepartmentOf <- MCDepartmentOf
  Slots = {early, late, noon, lateY, lateI}
  BatchOf <- MCBatchOf
  Batches = {halX, halY, idaY}
  HostOf <- MCHostOf
  OfferedIn <- MCOfferedIn
  StartOf <- MCStartOf
  EndOf <- MCEndOf
  Bookings = {k1, k2, k3, k4, k5}
  ForOf <- MCForOf
  TargetOf <- MCTargetOf
  Ticks = {t1, t2}
  Lead = 2
  ReminderBefore = 1
  MaxDepartments = 2
  MaxHandler = 1
  MaxTime = 3
  None = None
CONSTRAINT TeamWhileOffering
CHECK_DEADLOCK FALSE
INVARIANTS
  IInv
  RemindersTrue
  DoubledOnlyWhenRaced
PROPERTIES
  BookingsKept
