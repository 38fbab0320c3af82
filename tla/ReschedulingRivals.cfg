SPECIFICATION Spec
CONSTANTS
  g1 = g1
  g2 = g2
  A = A
  B = B
  C = C
  D = D
  a = a
  b = b
  c = c
  d = d
  v1 = v1
  v2 = v2
  r1 = r1
  r2 = r2
  NoRequest = NoRequest
  NoAccount = NoAccount
  NoGame = NoGame
  NoPlace = NoPlace
  Game = {g1, g2}
  Request = {r1, r2}
  Team = {A, B, C, D}
  Account = {a, b, c, d}
  Slot = {"thu1", "mon"}
  Venue = {v1, v2}
  Hall = {}
  Home <- RivalHome
  Away <- RivalAway
  StartSlot <- RivalStart
  Capacity <- RivalCapacity
  VoterScope <- NobodyVotes
  Appointments = {}
  LeaderAdjustable = {g1, g2}
  Day <- MCDay
  VenueRank <- MCVenueRank
  StartLeader <- OneLeaderEach
  MaxGameVersion = 3
  LockWait = 0
  Horizon = 2
  MaybeVoid = {g2}
INVARIANTS
  TypeOK
  PlacesInOrder
  LedgerAgrees
  FingerprintIdentifies
PROPERTIES
  GameMovesByConsent
  BookingImplemented
SYMMETRY Symmetry
\* the clock and the request numbers are bounded: everything may be decided
CHECK_DEADLOCK FALSE
