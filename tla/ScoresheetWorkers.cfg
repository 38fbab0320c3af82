SPECIFICATION FairSpec
CONSTANTS
  w1 = w1
  w2 = w2
  admin = admin
  root = root
  Nobody = Nobody
  Idle = Idle
  Worker = {w1, w2}
  Editor = {root}
  Superadmin = {root}
  MaxAttempts = 2
  MaxSource = 2
  MaxCycle = 1
  MaxVersion = 5
  MaxPublication = 0
INVARIANTS
  DraftIsOfItsSource
  OneCallAtATime
  ReadOnlyWhileRecognising
  TypeOK
PROPERTIES
  RecognitionsEnd
  EvidenceStaysEvidence
CHECK_DEADLOCK FALSE
