SPECIFICATION FairSpec
CONSTANTS
  g1 = g1
  g2 = g2
  A = A
  B = B
  C = C
  D = D
  a = a
  b = b
  c = c
  d = d
  v1 = v1
  v2 = v2
  r1 = r1
  r2 = r2
  NoRequest = NoRequest
  NoAccount = NoAccount
  NoGame = NoGame
  NoPlace = NoPlace
  Game = {g1}
  Request = {r1}
  Team = {A, B, C, D}
  Account = {a, b, c, d}
  Slot = {"thu1", "thu2", "mon"}
  Venue = {v1}
  Hall = {}
  Home <- VoteHome
  Away <- VoteAway
  StartSlot <- VoteStart
  Capacity <- VoteCapacity
  VoterScope <- WholeDivision
  Appointments <- VoteAppointments
  LeaderAdjustable = {g1}
  Day <- MCDay
  VenueRank <- MCVenueRank
  StartLeader <- OneLeaderEach
  MaxGameVersion = 3
  LockWait = 1
  Horizon = 2
  MaybeVoid = {}
INVARIANTS
  NobodyOverruled
  SchemaConstraints
PROPERTIES
  DecisionsStand
  TeamWaitEnds
\* the clock and the request numbers are bounded: everything may be decided
CHECK_DEADLOCK FALSE
