SPECIFICATION FairSpec
CONSTANTS
  w1 = w1
  w2 = w2
  admin = admin
  root = root
  Nobody = Nobody
  Idle = Idle
  Worker = {w1}
  Editor = {root}
  Superadmin = {root}
  MaxAttempts = 2
  MaxSource = 1
  MaxCycle = 1
  MaxVersion = 4
  MaxPublication = 0
PROPERTIES
  ExhaustedIsReleased
CHECK_DEADLOCK FALSE
