SPECIFICATION FairSpec
CONSTANTS
  p1 = p1
  p2 = p2
  r1 = r1
  r2 = r2
  s1 = s1
  x1 = x1
  x2 = x2
  None = None
  Ghost = Ghost
  Package = {p1, p2}
  Request = {r1, r2}
  Sync = {s1}
  Purchase = {x1, x2}
  MaxVoids = 1
  MaxMishaps = 1
CHECK_DEADLOCK FALSE
INVARIANT TypeOK
INVARIANT OneKnownPurchase
INVARIANT KnownPurchaseIsFindable
PROPERTY VoidedLabelIsCleared
