SPECIFICATION EditSpec
CONSTANTS
  g1 = g1
  g2 = g2
  A = A
  B = B
  C = C
  D = D
  a = a
  b = b
  c = c
  d = d
  v1 = v1
  v2 = v2
  r1 = r1
  r2 = r2
  NoRequest = {r1}
  NoAccount = NoAccount
  NoGame = NoGame
  NoPlace = NoPlace
  Game = {g1, g2}
  Request = {r1}
  Team = {A, B, C, D}
  Account = {a, b, c, d}
  Slot = {"thu1", "mon"}
  Venue = {v1}
  Hall = {"hall"}
  Home <- RivalHome
  Away <- RivalAway
  StartSlot <- RivalStart
  Capacity <- RivalCapacity
  VoterScope <- NobodyVotes
  Appointments = {}
  LeaderAdjustable = {g1, g2}
  Day <- MCDay
  VenueRank <- MCVenueRank
  StartLeader <- OneLeaderEach
  MaxGameVersion = 3
  LockWait = 0
  Horizon = 0
  MaybeVoid = {}
  Overrides <- AnyOverride
  MaxEditVersion = 4
  Edited = {g1}
INVARIANTS
  EditKeepsRows
PROPERTIES
  GameNotPulledAway
  OnlyOverridesOverfill
CHECK_DEADLOCK FALSE
