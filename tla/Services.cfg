SPECIFICATION FairServicesSpec
CONSTANTS
  Worker = {w1, w2}
  Idle = Idle
  Nothing = Nothing
  MaxMail = 1
  MaxAttempts = 2
  MaxCrashes = 2
  Running = {"mail", "media", "archives", "backup", "corrections", "seasons",
             "squads", "leaders", "superadmins", "sessions", "imports",
             "tasks", "turnover", "reviews", "group"}
INVARIANTS
  ServicesTyped
  PurgedWasPackaged
  BackupIsWhole
  RecordsAgree
  InUseIsKept
  ValidRostersAreSaved
  AccountsAreGoverned
  StandingsAreFair
  LostOnlyToSweep
PROPERTIES
  MailIsAccountedFor
  CorrectionsSettleWinners
  MeetOnlyUnreserved
  TeamsInUseStay
  ImportsAreWhole
  InboxFollows
  ServicesSettle
CHECK_DEADLOCK FALSE
