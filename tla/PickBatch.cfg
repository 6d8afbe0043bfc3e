SPECIFICATION Spec
CONSTANTS
  p1 = p1
  p2 = p2
  p3 = p3
  s1 = s1
  s2 = s2
  b1 = b1
  b2 = b2
  c1 = c1
  c2 = c2
  u1 = u1
  u2 = u2
  None = None
  Shipment = {s1, s2}
  Package = {p1, p2, p3}
  Batch = {b1, b2}
  Clerk = {c1, c2}
  User = {u1, u2}
  ShipmentOf <- ShipmentOfPackage
  MaxVoids = 1
  MaxMishaps = 1
  MaxEvents = 1
  MaxActive = 2
CONSTRAINT Bound
SYMMETRY Symmetry
INVARIANT TypeOK
INVARIANT StatusFollowsThePackages
INVARIANT ShippedLeavesTheLists
INVARIANT OneListPerShipment
INVARIANT LastPickEndsTheBatch
CHECK_DEADLOCK FALSE
