SPECIFICATION Spec
CONSTANTS
  w1 = w1
  w2 = w2
  admin = admin
  root = root
  Nobody = Nobody
  Idle = Idle
  Worker = {w1}
  Editor = {admin, root}
  Superadmin = {root}
  MaxAttempts = 1
  MaxSource = 2
  MaxCycle = 2
  MaxVersion = 4
  MaxPublication = 1
INVARIANTS
  PublicIsChecked
PROPERTIES
  HumanWorkKept
  PublishedAsChecked
CHECK_DEADLOCK FALSE
