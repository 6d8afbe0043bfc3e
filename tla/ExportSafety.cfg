SPECIFICATION Spec
CONSTANTS
  d1 = d1
  d2 = d2
  s1 = s1
  None = None
  Destination = {d1, d2}
  Primary = d1
  Once = {d1}
  Elsewhere = Elsewhere
  CallsAreShort = TRUE
  Sweeper = {s1}
  Tries = 1
  MaxAttempts = 1
  VoidsWait = TRUE
  JobsKeepUp = TRUE
  MaxVoids = 1
  MaxCrashes = 1
  MaxReopens = 1
INVARIANT TypeOK
INVARIANT OneSenderPerDestination
INVARIANT GivesUpInTime
INVARIANT ExportedMeansTold
INVARIANT AttemptsAreAccountedFor
PROPERTY SucceededIsFinal
PROPERTY ExportKeepsItsPromise
CHECK_DEADLOCK FALSE
