SPECIFICATION Spec
CONSTANTS
  p1 = p1
  p2 = p2
  x1 = x1
  x2 = x2
  f1 = f1
  f2 = f2
  w1 = w1
  w2 = w2
  None = None
  External = External
  Package = {p1, p2}
  Label = {x1, x2}
  Form = {f1, f2}
  Worker = {w1, w2}
  Attempts = 3
  MaxMishaps = 1
SYMMETRY Symmetry
INVARIANT TypeOK
INVARIANT LiveLabelIsOnRecord
INVARIANT RowSpeaksOfItsLabel
INVARIANT DeliveryIsRemembered
INVARIANT FormsHoldTheirLabels
PROPERTY RunRecordsItsForms
CHECK_DEADLOCK FALSE
