SPECIFICATION Spec
CONSTANTS
  d1 = d1
  s1 = s1
  None = None
  Destination = {d1}
  Primary = d1
  Once = {}
  Elsewhere = Elsewhere
  CallsAreShort = TRUE
  Sweeper = {s1}
  Tries = 1
  MaxAttempts = 2
  VoidsWait = TRUE
  JobsKeepUp = FALSE
  MaxVoids = 1
  MaxCrashes = 0
  MaxReopens = 0
INVARIANT ExportedMeansTold
CHECK_DEADLOCK FALSE
