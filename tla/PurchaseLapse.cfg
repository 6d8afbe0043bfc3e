SPECIFICATION FairSpec
CONSTANTS
  None = None
  p1 = p1
  o1 = o1
  o2 = o2
  r1 = r1
  r2 = r2
  Package = {p1}
  Sourced = {p1}
  Offer = {o1, o2}
  Request = {r1, r2}
  Manual = {}
  Job = {}
  LockMayLapse = TRUE
  RefusedMeansUnsold = FALSE
  MaxCrashes = 1
  MaxSwitches = 1
INVARIANT OneRequestSpendsAnOffer
PROPERTY RecordedLabelIsFinal
PROPERTY OffersLiveTheirLife
PROPERTY LockIsReturned
CHECK_DEADLOCK FALSE
