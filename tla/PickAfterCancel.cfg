SPECIFICATION Spec
CONSTANTS
  p1 = p1
  p2 = p2
  p3 = p3
  s1 = s1
  s2 = s2
  b1 = b1
  b2 = b2
  c1 = c1
  u1 = u1
  None = None
  Shipment = {s1, s2}
  Package = {p1, p2, p3}
  Batch = {b1, b2}
  Clerk = {c1}
  User = {u1}
  ShipmentOf <- ShipmentOfPackage
  MaxVoids = 0
  MaxMishaps = 0
  MaxEvents = 0
  MaxActive = 1
PROPERTY PendingIsBatchedBeforePicked
CHECK_DEADLOCK FALSE
