SPECIFICATION ServicesSpec
CONSTANTS
  Worker = {w1, w2}
  Idle = Idle
  Nothing = Nothing
  MaxMail = 1
  MaxAttempts = 2
  MaxCrashes = 1
  Running = {"corrections"}
INVARIANT StatisticsAudit
CHECK_DEADLOCK FALSE
