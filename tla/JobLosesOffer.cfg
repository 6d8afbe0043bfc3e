SPECIFICATION Spec
CONSTANTS
  None = None
  p1 = p1
  o1 = o1
  o2 = o2
  r1 = r1
  Package = {p1}
  Sourced = {p1}
  Offer = {o1, o2}
  Request = {r1}
  Manual = {}
  Job = {r1}
  LockMayLapse = FALSE
  RefusedMeansUnsold = TRUE
  MaxCrashes = 0
  MaxSwitches = 0
PROPERTY UnresolvedOffersSurvive
CHECK_DEADLOCK FALSE
