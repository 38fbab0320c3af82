----------------------------- MODULE MCServices -----------------------------
(***************************************************************************)
(* Small instances for TLC of the services that share no state in the       *)
(* model.  A behaviour runs one of them, the one named by focus; they take  *)
(* turns with the variables s1, s2, ..., which say nothing to the others.   *)
(* The outbox has variables of its own and rests in its initial state when  *)
(* another service runs.                                                    *)
(***************************************************************************)
EXTENDS EmailOutbox, TLC

CONSTANTS Running,   \* the services this instance runs
          Nothing

(* Nothing is not a game.                                                    *)
ASSUME NothingAssumption ==
  Nothing \notin [place : {1, 2, 3}, batch : {"i", "j"}, live : BOOLEAN]

VARIABLES focus, s1, s2, s3, s4, s5, s6, s7, s8, s9, s10, s11

shared == <<s1, s2, s3, s4, s5, s6, s7, s8, s9, s10, s11>>
all == <<focus, vars, shared>>
backupVars == <<s1, s2, s3, s4, s5, s6, s7>>

-----------------------------------------------------------------------------
(* A group photo and another that competes for its place; a group photo     *)
(* sent twice; the replacement of a scoresheet sent twice.                  *)
Uploads == {"photo", "rival", "sheet2"}

Media == INSTANCE GameMedia WITH
  Keys <- Uploads, Old <- {"sheet"}, NoAsset <- "none",
  Kind <- [k \in Uploads \cup {"sheet"} |->
             IF k \in {"photo", "rival"} THEN "GROUP_PHOTO" ELSE "SCORESHEET"],
  Image <- [k \in Uploads \cup {"sheet"} |-> k],
  Target <- [k \in Uploads |-> IF k = "sheet2" THEN "sheet" ELSE "none"],
  Web <- {"sheet2"}, MaxSeason <- 3,
  Budgets <- {[k \in Uploads |-> IF k = "sheet2" THEN 0 ELSE 1],
              [k \in Uploads |-> IF k = "photo" THEN 2 ELSE 0],
              [k \in Uploads |-> IF k = "sheet2" THEN 2 ELSE 0]},
  season <- s1, published <- s2, staging <- s3, expects <- s4, asset <- s5,
  file <- s6, call <- s7, answered <- s8, tries <- s9, sweep <- s10, met <- s11

(* One photograph, a package of data and one of photographs, one purge.     *)
Archives == INSTANCE ArchiveExports WITH
  Photos <- {31}, Packages <- {1, 2}, Purges <- {11}, Workers <- {21},
  Nobody <- 0, MaxVersion <- 3,
  season <- s1, photo <- s2, purgeOf <- s3, onDisk <- s4, pack <- s5,
  artifact <- s6, purge <- s7, worker <- s8

(* One upload, two orders that may wait for each other, one photograph.     *)
Backup == INSTANCE SystemBackup WITH
  Uploads <- {1}, Orders <- {11, 12}, Old <- {},
  at <- s1, row <- s2, file <- s3, backup <- s4, dump <- s5, listed <- s6, target <- s7

-----------------------------------------------------------------------------
(* A group game to be played, a semifinal that was, and a final whose home  *)
(* side a superadmin chose and whose away side is open.                     *)
GameRow(home, away, status, won, place, version) ==
  [team |-> [home |-> home, away |-> away], status |-> status, won |-> won,
   place |-> place, version |-> version, request |-> 0]
Sheet(teams) == [published |-> teams # {}, pending |-> 0, stats |-> teams]
Slot(team, mode) == [team |-> team, source |-> 0, version |-> 0, mode |-> mode]
CorrectionStart ==
  [version |-> 5,
   game |-> <<GameRow(1, 2, "SCHEDULED", "none", 1, 2), GameRow(1, 2, "COMPLETED", "home", 2, 3),
              GameRow(3, 0, "SCHEDULED", "none", 3, 3)>>,
   sheet |-> <<Sheet({}), Sheet({1, 2}), Sheet({})>>,
   assignment |->
     [s \in {11, 12, 13, 31, 32, 41, 42} |->
        IF s = 41 THEN Slot(3, "SUPERADMIN_OVERRIDE") ELSE IF s = 42 THEN Slot(0, "NONE")
        ELSE Slot(IF s \in {11, 31} THEN 1 ELSE IF s = 13 THEN 3 ELSE 2, "NOT_APPLICABLE")]]

Repairs == INSTANCE CompetitionCorrections WITH
  Games <- {1, 2, 3}, Teams <- {1, 2, 3}, Corrections <- {1},
  GroupSlots <- {11, 12, 13}, Slots <- {11, 12, 13, 31, 32, 41, 42},
  SlotOf <- <<[home |-> 11, away |-> 12], [home |-> 31, away |-> 32], [home |-> 41, away |-> 42]>>,
  Phase <- <<0, 1, 2>>, Places <- {1, 2, 3, 4}, Halls <- {2}, TimeOf <- <<1, 2, 2, 3>>,
  Capacity <- 2,
  NoTeam <- 0, NoGame <- 0, NoPlace <- 0, NoCorrection <- 0,
  Outcomes <- {[status |-> "VOID", won |-> "none"], [status |-> "COMPLETED", won |-> "home"],
               [status |-> "COMPLETED", won |-> "away"]},
  Draws <- {[home |-> 3, away |-> 1], [home |-> 1, away |-> 2]}, MaxWork <- 15,
  Start <- {CorrectionStart},
  season <- s1, game <- s2, allocated <- s3, forced <- s4, assignment <- s5,
  revision <- s6, sheet <- s7, history <- s8, correction <- s9

(* Two seasons between a small and a large configuration, one flow.         *)
Lifecycle == INSTANCE SeasonSetup WITH
  Seasons <- {1, 2}, Divisions <- {"m", "w"}, Venues <- {"v1", "v2"}, Flows <- {"r1"},
  Configurations <- {"small", "large"},
  DivisionsOf <- [small |-> {"m"}, large |-> {"m", "w"}],
  VenuesOf <- [small |-> {"v1"}, large |-> {"v2"}], Default <- "small",
  NoSeason <- 0, NoVenue <- "none", NoToken <- Nothing, MaxVersion <- 4,
  season <- s1, divisions <- s2, scheduled <- s3, venues <- s4, flow <- s5, shown <- s6

-----------------------------------------------------------------------------
(* Two teams and two players; then two teams and two accounts.              *)
Rows == {[number |-> 1, active |-> TRUE], [number |-> 2, active |-> TRUE],
         [number |-> 1, active |-> FALSE]}

Squads == INSTANCE Rosters WITH
  Teams <- {"A", "B"}, Players <- {"p", "q"}, Names <- {"x", "y"}, Accounts <- {},
  Batches <- {"i"}, Numbers <- {1, 2}, Entries <- Rows,
  Files <- {[x |-> {1}, y |-> {}], [x |-> {1, 2}]},
  NoNumber <- 0, NoTeam <- "none", NoBase <- 0, NoPreview <- Nothing, MaxVersion <- 4,
  season <- s1, batch <- s2, team <- s3, player <- s4, leader <- s5, led <- s6,
  drawn <- s7, shown <- s8

Leaders == INSTANCE Rosters WITH
  Teams <- {"A", "B"}, Players <- {}, Names <- {"x", "y"}, Accounts <- {"a", "b"},
  Batches <- {"i"}, Numbers <- {1, 2}, Entries <- Rows, Files <- {[x |-> {}, y |-> {}]},
  NoNumber <- 0, NoTeam <- "none", NoBase <- 0, NoPreview <- Nothing, MaxVersion <- 4,
  season <- s1, batch <- s2, team <- s3, player <- s4, leader <- s5, led <- s6,
  drawn <- s7, shown <- s8

(* Two superadmins against each other; then one, who resets the password of *)
(* somebody with sessions in two browsers.                                  *)
Superadmins == INSTANCE AdminAccounts WITH
  Accounts <- {"a", "f"}, Founders <- {"a", "f"}, Browsers <- {"b1"},
  Commands <- {"c1", "c2"}, Nobody <- "none", MaxVersion <- 2,
  account <- s1, browser <- s2, challenge <- s3, command <- s4, revoked <- s5

Sessions == INSTANCE AdminAccounts WITH
  Accounts <- {"a", "f"}, Founders <- {"f"}, Browsers <- {"b1", "b2"},
  Commands <- {"c1"}, Nobody <- "none", MaxVersion <- 3,
  account <- s1, browser <- s2, challenge <- s3, command <- s4, revoked <- s5

(* Three games at two times, of which a hall holds two and one.             *)
Imports == INSTANCE ScheduleImports WITH
  Matchups <- {"x", "y", "z"}, Places <- {1, 2, 3}, Batches <- {"i", "j"},
  SlotsOf <- [x |-> {1, 2}, y |-> {1, 3}, z |-> {3, 4}],
  TimeOf <- <<1, 1, 2>>, Capacity <- <<2, 1>>,
  Grids <- {[p \in {1} |-> "x"], [p \in {2, 3} |-> IF p = 2 THEN "z" ELSE "y"]},
  Families <- {{"x"}, {"x", "y", "z"}}, NoGame <- Nothing, MaxVersion <- 4,
  season <- s1, draft <- s2, batch <- s3, game <- s4, drawn <- s5

(* A request with two voters among teams that change their leaders; one     *)
(* decided by superadmins who come and go; two recognitions of a sheet.     *)
Tasks == INSTANCE Inbox WITH
  Accounts <- {"a", "f"}, Roles <- {"SUPERADMIN"}, Opponents <- {"O"}, Voters <- {"V", "W"},
  Nobody <- "none", MaxSerial <- 0,
  request <- s1, leader <- s2, staff <- s3, sheet <- s4, task <- s5

Turnover == INSTANCE Inbox WITH
  Accounts <- {"a", "f"}, Roles <- {"NONE", "SUPERADMIN"}, Opponents <- {"O"}, Voters <- {},
  Nobody <- "none", MaxSerial <- 0,
  request <- s1, leader <- s2, staff <- s3, sheet <- s4, task <- s5

Reviews == INSTANCE Inbox WITH
  Accounts <- {"a", "f"}, Roles <- {"NONE", "ADMIN", "SUPERADMIN"}, Opponents <- {}, Voters <- {},
  Nobody <- "none", MaxSerial <- 2,
  request <- s1, leader <- s2, staff <- s3, sheet <- s4, task <- s5

(* Three teams that play each other once.                                   *)
Score(status, home, away) == [status |-> status, home |-> home, away |-> away]
Group == INSTANCE Standings WITH
  Teams <- {1, 2, 3}, Games <- {1, 2, 3}, Home <- <<1, 2, 3>>, Away <- <<2, 3, 1>>,
  Outcomes <- {Score("VOID", 0, 0), Score("COMPLETED", 3, 1), Score("COMPLETED", 2, 1),
               Score("COMPLETED", 1, 3), Score("FORFEIT", 20, 0), Score("FORFEIT", 0, 20)},
  drawn <- s1, result <- s2

-----------------------------------------------------------------------------
Resting(s) == s = "resting"
Rest9 == Resting(s10) /\ Resting(s11)
Rest8 == Resting(s9) /\ Rest9
Rest7 == Resting(s8) /\ Rest8
Rest6 == Resting(s7) /\ Rest7
Rest5 == Resting(s6) /\ Rest6
Rest2 == Resting(s3) /\ Resting(s4) /\ Resting(s5) /\ Rest5
Still5 == UNCHANGED <<focus, vars, s6, s7, s8, s9, s10, s11>>

ServicesInit ==
  /\ Init
  /\ focus \in Running
  /\ \/ /\ focus = "mail"
        /\ Resting(s1) /\ Resting(s2) /\ Rest2
     \/ focus = "media" /\ Media!Init
     \/ focus = "archives" /\ Archives!Init /\ Rest8
     \/ focus = "backup" /\ Backup!Init /\ Rest7
     \/ focus = "corrections" /\ Repairs!Init /\ Rest9
     \/ focus = "seasons" /\ Lifecycle!Init /\ Rest6
     \/ focus = "squads" /\ Squads!Init /\ Rest8
     \/ focus = "leaders" /\ Leaders!Init /\ Rest8
     \/ focus = "superadmins" /\ Superadmins!Init /\ Rest5
     \/ focus = "sessions" /\ Sessions!Init /\ Rest5
     \/ focus = "imports" /\ Imports!Init /\ Rest5
     \/ focus = "tasks" /\ Tasks!Init /\ Rest5
     \/ focus = "turnover" /\ Turnover!Init /\ Rest5
     \/ focus = "reviews" /\ Reviews!Init /\ Rest5
     \/ focus = "group" /\ Group!Init /\ Rest2

ServicesNext ==
  \/ focus = "mail" /\ Next /\ UNCHANGED <<focus, shared>>
  \/ focus = "media" /\ Media!Next /\ UNCHANGED <<focus, vars>>
  \/ focus = "archives" /\ Archives!Next /\ UNCHANGED <<focus, vars, s9, s10, s11>>
  \/ focus = "backup" /\ Backup!Next /\ UNCHANGED <<focus, vars, s8, s9, s10, s11>>
  \/ focus = "corrections" /\ Repairs!Next /\ UNCHANGED <<focus, vars, s10, s11>>
  \/ focus = "seasons" /\ Lifecycle!Next /\ UNCHANGED <<focus, vars, s7, s8, s9, s10, s11>>
  \/ focus = "squads" /\ Squads!Next /\ UNCHANGED <<focus, vars, s9, s10, s11>>
  \/ focus = "leaders" /\ Leaders!Next /\ UNCHANGED <<focus, vars, s9, s10, s11>>
  \/ focus = "superadmins" /\ Superadmins!Next /\ Still5
  \/ focus = "sessions" /\ Sessions!Next /\ Still5
  \/ focus = "imports" /\ Imports!Next /\ Still5
  \/ focus = "tasks" /\ Tasks!Next /\ Still5
  \/ focus = "turnover" /\ Turnover!Next /\ Still5
  \/ focus = "reviews" /\ Reviews!Next /\ Still5
  \/ focus = "group" /\ Group!Next /\ UNCHANGED <<s3, s4, s5>> /\ Still5

(* The fairness of each service, as its module states it.                   *)
ServicesFairness ==
  /\ Fairness
  /\ \A k \in Uploads :
        /\ WF_shared(focus = "media" /\ Media!RequestStep(k))
        /\ WF_shared(focus = "media" /\ Media!SweepStep(k))
  /\ WF_backupVars(focus = "backup" /\ Backup!BackupStep)
  /\ \A s \in {1, 11, 12} : WF_backupVars(focus = "backup" /\ Backup!SessionStep(s))

ServicesSpec == ServicesInit /\ [][ServicesNext]_all
FairServicesSpec == ServicesSpec /\ ServicesFairness

-----------------------------------------------------------------------------
(* Every service keeps its rows among those its tables can hold.            *)
ServicesTyped ==
  /\ TypeOK
  /\ focus = "media" => Media!TypeOK
  /\ focus = "archives" => Archives!TypeOK
  /\ focus = "backup" => Backup!TypeOK
  /\ focus = "corrections" => Repairs!TypeOK
  /\ focus = "seasons" => Lifecycle!TypeOK
  /\ focus = "squads" => Squads!TypeOK
  /\ focus = "leaders" => Leaders!TypeOK
  /\ focus = "superadmins" => Superadmins!TypeOK
  /\ focus = "sessions" => Sessions!TypeOK
  /\ focus = "imports" => Imports!TypeOK
  /\ focus = "tasks" => Tasks!TypeOK
  /\ focus = "turnover" => Turnover!TypeOK
  /\ focus = "reviews" => Reviews!TypeOK
  /\ focus = "group" => Group!TypeOK

(* A photograph the database calls online has its whole file, unless a      *)
(* request and the reconciler worked on its upload at the same time,        *)
(* whatever crashed and whoever finished the upload                         *)
(* (services/game_media.py).                                                *)
LostOnlyToSweep == focus = "media" => Media!LostOnlyToSweep

(* It has its file even then (_store_or_resume_staging,                     *)
(* reconcile_game_media_uploads.py).                                        *)
LivePhotosHaveFiles == focus = "media" => Media!LivePhotosHaveFiles

(* Only photographs that the named final package holds are removed, through *)
(* corrections, restored photographs and resumed purges                     *)
(* (services/archive_exports.py).                                           *)
PurgedWasPackaged == focus = "archives" => Archives!PurgedWasPackaged

(* A restored backup has a file for every photograph online and a row for   *)
(* every file, and no upload half done (_build_system_raw).                 *)
BackupIsWhole == focus = "backup" => Backup!BackupIsWhole

(* Revisions, pending scoresheets, slots of the bracket and confirmed       *)
(* winners agree with the games (services/competition_corrections.py).      *)
RecordsAgree == focus = "corrections" => Repairs!RecordsAgree

(* Two games come to share a court, which nobody forced, only by a          *)
(* correction applied or a request approved, and one of them holds no       *)
(* reservation (apply_correction, _approve_request, update_admin_game).     *)
MeetOnlyUnreserved ==
  [][focus = "corrections" => \A g, h \in {1, 2, 3} :
       Repairs!Meet(g, h)' /\ ~Repairs!Meet(g, h) => Repairs!MeetUnreserved(g, h)]_shared

(* Corrections, requests and edits put two games on one court only when a   *)
(* superadmin forced them there (docs/USER_GUIDE.md).                       *)
CourtsExclusive == focus = "corrections" => Repairs!CourtsExclusive

(* No applied correction leaves behind a confirmed winner who is not the    *)
(* winner any more (_downstream_impacts, apply_correction).                 *)
CorrectionsSettleWinners ==
  [][focus = "corrections" => ~Repairs!Disputes(1)]_shared

(* Statistics are those of the participants (audit_season_integrity.py).    *)
StatisticsAudit == focus = "corrections" => Repairs!StatisticsAudit

(* One season is public, games keep their divisions and requests their      *)
(* courts, though configurations are previewed before they are applied and  *)
(* requests checked before they are written (services/season_management.py).*)
InUseIsKept == focus = "seasons" => Lifecycle!InUseIsKept

(* An archived season has no running requests, leases or recognitions       *)
(* (docs/USER_GUIDE.md).                                                    *)
ArchivedSeasonIsQuiet == focus = "seasons" => Lifecycle!ArchivedSeasonIsQuiet

(* A roster that is right as a whole is saved whatever the order of its     *)
(* rows (save_team_roster).                                                 *)
ValidRostersAreSaved == focus = "squads" => Squads!ValidRostersAreSaved

(* Teams that are drawn or led stay active, with one leader each, and those *)
(* who lose a team to a transfer were shown to whoever confirmed it         *)
(* (services/roster_management.py, services/leader_bindings.py).            *)
TeamsInUseStay ==
  /\ [](focus = "leaders" => Leaders!TeamsInUseStay)
  /\ [][focus = "leaders" => Leaders!AsShown]_shared

(* One superadmin is always left, though they demote and suspend each other *)
(* at the same time; and a session whose account's password was set by      *)
(* another never works again, not even through a change of password begun   *)
(* before (services/admin_accounts.py, api_auth.py).                        *)
AccountsAreGoverned ==
  /\ focus = "superadmins" => Superadmins!AccountsAreGoverned
  /\ focus = "sessions" => Sessions!AccountsAreGoverned

(* Every game is of a confirmed import and every confirmed import has its   *)
(* games, which share no court or slot; and a confirmation that empties the *)
(* draft made games of all it held (services/schedule_imports_v3.py,        *)
(* services/schedule_drafts.py).                                            *)
ImportsAreWhole ==
  /\ [](focus = "imports" => Imports!ImportsAreWhole)
  /\ [][focus = "imports" => Imports!UsedUpAsGames]_shared

(* Open tasks ask what is still to be done, and a request that begins to    *)
(* wait for somebody has a task for them, though leaders and superadmins    *)
(* change in between and the inbox is reconciled (services/inbox_tasks.py). *)
InboxFollows ==
  /\ [](focus = "tasks" => Tasks!TasksAreCurrent)
  /\ [](focus = "turnover" => Turnover!TasksAreCurrent)
  /\ [](focus = "reviews" => Reviews!TasksAreCurrent)
  /\ [][focus = "tasks" => Tasks!WaitReachesSomebody]_shared
  /\ [][focus = "turnover" => Turnover!WaitReachesSomebody]_shared

(* The table of a group is the one the rules ask for, whatever was decided, *)
(* forfeited and corrected in which order (services/standings.py).          *)
StandingsAreFair == focus = "group" => Group!StandingsAreFair

(* What was begun ends: mail is sent or given up and reported, an upload is *)
(* promoted or given up, and a backup that waits for the write fence does   *)
(* not wait for ever.                                                       *)
ServicesSettle ==
  /\ EveryMailSettles
  /\ \A k \in Uploads :
       (focus = "media" /\ Media!Pending(k)) ~> (focus = "media" /\ ~Media!Pending(k))
  /\ (focus = "backup" /\ s4 = "WAITING") ~> (focus = "backup" /\ s4 # "WAITING")
=============================================================================
