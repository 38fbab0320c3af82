SPECIFICATION ServicesSpec
CONSTANTS
  Worker = {w1, w2}
  Idle = Idle
  Nothing = Nothing
  MaxMail = 1
  MaxAttempts = 2
  MaxCrashes = 2
  Running = {"media"}
INVARIANTS
  LivePhotosHaveFiles
CHECK_DEADLOCK FALSE
