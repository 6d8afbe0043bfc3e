SPECIFICATION Spec
CONSTANTS
  None = None
  p1 = p1
  p2 = p2
  o1 = o1
  o2 = o2
  r1 = r1
  r2 = r2
  r3 = r3
  Package = {p1, p2}
  Sourced = {p1}
  Offer = {o1, o2}
  Request = {r1, r2, r3}
  Manual = {r2}
  Job = {r3}
  LockMayLapse = FALSE
  RefusedMeansUnsold = TRUE
  MaxCrashes = 1
  MaxSwitches = 0
SYMMETRY Symmetry
INVARIANT TypeOK
INVARIANT RecordedLabelWasSoldForThePackage
INVARIANT NoPurchaseWhileUnresolved
INVARIANT PaidOfferKeepsItsEvidence
INVARIANT OneUnresolvedPurchase
INVARIANT OneUnaccountedLabel
INVARIANT LockHasAnOwner
CHECK_DEADLOCK FALSE
