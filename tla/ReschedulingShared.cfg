SPECIFICATION Spec
CONSTANTS
  g1 = g1
  g2 = g2
  A = A
  B = B
  C = C
  D = D
  a = a
  b = b
  c = c
  d = d
  v1 = v1
  v2 = v2
  r1 = r1
  r2 = r2
  NoRequest = NoRequest
  NoAccount = NoAccount
  NoGame = NoGame
  NoPlace = NoPlace
  Game = {g1, g2}
  Request = {r1, r2}
  Team = {A, B, C}
  Account = {a, b, c}
  Slot = {"thu1", "thu2", "mon"}
  Venue = {v1, v2}
  Hall = {}
  Home <- SharedHome
  Away <- SharedAway
  StartSlot <- SharedStart
  Capacity <- SharedCapacity
  VoterScope <- NobodyVotes
  Appointments = {}
  LeaderAdjustable = {g1, g2}
  Day <- MCDay
  VenueRank <- MCVenueRank
  StartLeader <- OneLeaderEach
  MaxGameVersion = 1
  LockWait = 0
  Horizon = 2
  MaybeVoid = {}
INVARIANTS
  TeamExclusive
  PreviewHonest
SYMMETRY Symmetry
\* the clock and the request numbers are bounded: everything may be decided
CHECK_DEADLOCK FALSE
