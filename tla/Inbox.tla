-------------------------------- MODULE Inbox --------------------------------
(***************************************************************************)
(* The inbox tells people what waits for them (services/inbox_tasks.py).    *)
(* Each command on a rescheduling request ends by synchronising the tasks   *)
(* of the request with its state; a recognition that ends does so for its   *)
(* scoresheet, and the commands that make a review pointless close its      *)
(* tasks.  A task is created once per account and key and never reopened.   *)
(* Leaders, superadmins and the reconciliation of the whole inbox come and  *)
(* go between those commands without any of them being told.                *)
(*                                                                          *)
(* A key names what is asked and of whom: a team, or the photograph and     *)
(* cycle of a recognition, numbered here in one series.                     *)
(***************************************************************************)
EXTENDS Naturals

CONSTANTS Accounts, Roles,     \* and the roles of administrators that they take up
          Opponents, Voters,   \* teams a request may ask; Opponents = {} for no request
          Nobody,
          MaxSerial            \* bound on the recognitions of the sheet; 0 for no sheet

VARIABLES request,      \* [stage, asked] where asked are the teams still to answer
          leader,       \* the active leader of each team
          staff,        \* the role of each account: NONE, ADMIN or SUPERADMIN
          sheet,        \* [serial, run, published, before, played]
          task          \* status of each account's task of each key

vars == <<request, leader, staff, sheet, task>>

Teams == Opponents \cup Voters
AsksTeams == {"WAITING_OPPONENT", "WAITING_SELECTED_TEAMS"}
AsksStaff == {"WAITING_ADMIN_DECISION", "WAITING_ADMIN_FINAL"}
RequestKeys == ({"opponent", "voter", "missing"} \X Teams) \cup (AsksStaff \X {Nobody})
SheetKeys == {"review", "failed"} \X (1 .. MaxSerial)
Keys == RequestKeys \cup SheetKeys

TypeOK ==
  /\ request \in [stage : {"NONE", "ENDED"} \cup AsksTeams \cup AsksStaff, asked : SUBSET Teams]
  /\ leader \in [Teams -> Accounts \cup {Nobody}]
  /\ staff \in [Accounts -> Roles]
  /\ sheet \in [serial : 0 .. MaxSerial, run : {"NONE", "ACTIVE", "SUCCEEDED", "FAILED", "EVIDENCE"},
                published : BOOLEAN, before : BOOLEAN, played : BOOLEAN]
  /\ task \in [Accounts -> [Keys -> {"NONE", "OPEN", "CLOSED"}]]

Init ==
  /\ request = [stage |-> "NONE", asked |-> {}]
  /\ leader \in {f \in [Teams -> Accounts \cup {Nobody}] :
                   \A s, t \in Teams : s # t /\ f[s] = f[t] => f[s] = Nobody}
  /\ staff \in [Accounts -> Roles]
  /\ \E a \in Accounts : staff[a] = "SUPERADMIN"
  /\ sheet = [serial |-> 0, run |-> "NONE", published |-> FALSE, before |-> FALSE, played |-> TRUE]
  /\ task = [a \in Accounts |-> [k \in Keys |-> "NONE"]]

-----------------------------------------------------------------------------
Superadmins == {a \in Accounts : staff[a] = "SUPERADMIN"}
Reviewers == {a \in Accounts : staff[a] # "NONE"}

(* What the state of a request asks, as pairs of an account and a key: its  *)
(* team's leader, or the superadmins when the team has none.                *)
AskOf(r, t) ==
  IF leader[t] # Nobody
  THEN {<<leader[t], <<IF r.stage = "WAITING_OPPONENT" THEN "opponent" ELSE "voter", t>>>>}
  ELSE Superadmins \X {<<"missing", t>>}

Wanted(r) ==
  IF r.stage \in AsksStaff THEN Superadmins \X {<<r.stage, Nobody>>}
  ELSE UNION {AskOf(r, t) : t \in r.asked}

KeptTasksOnly(wanted) == {w[2] : w \in wanted} \ ({"missing"} \X Teams)
Kept(wanted) == {w[2] : w \in wanted}

(* _create_tasks, then close_tasks on the keys of the same object that are  *)
(* not kept.                                                                *)
Synced(wanted, own) ==
  LET kept == Kept(wanted) IN
  [a \in Accounts |-> [k \in Keys |->
     IF k \notin own THEN task[a][k]
     ELSE IF k \in kept
          THEN IF <<a, k>> \in wanted /\ task[a][k] = "NONE" THEN "OPEN" ELSE task[a][k]
     ELSE IF task[a][k] = "OPEN" \/ <<a, k>> \in wanted THEN "CLOSED" ELSE task[a][k]]]

SyncRequest(r) == Synced(Wanted(r), RequestKeys)
MoveTo(stage, asked) ==
  /\ request' = [stage |-> stage, asked |-> asked]
  /\ task' = SyncRequest(request')
  /\ UNCHANGED <<leader, staff, sheet>>

Submit == request.stage = "NONE" /\ \E t \in Opponents : MoveTo("WAITING_OPPONENT", {t})
OpponentAgrees == request.stage = "WAITING_OPPONENT" /\ MoveTo("WAITING_ADMIN_DECISION", {})
CallVote ==
  /\ request.stage = "WAITING_ADMIN_DECISION"
  /\ \E selected \in (SUBSET Voters) \ {{}} : MoveTo("WAITING_SELECTED_TEAMS", selected)

Vote(t) ==
  /\ request.stage = "WAITING_SELECTED_TEAMS" /\ t \in request.asked /\ leader[t] # Nobody
  /\ IF request.asked = {t} THEN MoveTo("WAITING_ADMIN_FINAL", {})
     ELSE MoveTo(request.stage, request.asked \ {t})

(* Approved, refused, withdrawn, expired or cancelled.                      *)
EndRequest == request.stage \in AsksTeams \cup AsksStaff /\ MoveTo("ENDED", {})

-----------------------------------------------------------------------------
(* The sheet of a game.  A new photograph is recognised, or fails at once   *)
(* when the rosters are incomplete, and that of a forfeited game is only    *)
(* kept.  A forfeit or a void game turns a recognition into evidence.       *)
Review(s) == Reviewers \X {<<"review", s.serial>>}
Failure(s) == Superadmins \X {<<"failed", s.serial>>}

SyncSheet(s) ==
  Synced(IF ~s.played \/ s.run = "EVIDENCE" THEN {}
         ELSE IF s.run = "SUCCEEDED" /\ ~s.published THEN Review(s)
         ELSE IF s.run = "FAILED" THEN Failure(s) ELSE {}, SheetKeys)
ClosedTasks == Synced({}, SheetKeys)

Sheet(s, tasks) ==
  /\ sheet' = s /\ task' = tasks
  /\ UNCHANGED <<request, leader, staff>>

Upload(run) ==
  /\ sheet.run # "ACTIVE" /\ sheet.serial < MaxSerial /\ (run = "NONE" => ~sheet.played)
  /\ LET s == [sheet EXCEPT !.serial = @ + 1, !.run = run]
     IN  Sheet(s, IF run = "FAILED" THEN SyncSheet(s) ELSE ClosedTasks)

RecognitionEnds(run) ==
  /\ sheet.run = "ACTIVE"
  /\ LET s == [sheet EXCEPT !.run = IF sheet.played THEN run ELSE "EVIDENCE"]
     IN  Sheet(s, IF sheet.played THEN SyncSheet(s) ELSE task)

RetryRecognition ==
  /\ sheet.run = "FAILED" /\ sheet.played /\ ~sheet.before /\ sheet.serial < MaxSerial
  /\ Sheet([sheet EXCEPT !.serial = @ + 1, !.run = "ACTIVE"], ClosedTasks)

Publish ==
  /\ sheet.serial > 0 /\ sheet.run # "ACTIVE" /\ sheet.played
  /\ Sheet([sheet EXCEPT !.published = TRUE, !.before = TRUE], ClosedTasks)

Withdraw == sheet.published /\ Sheet([sheet EXCEPT !.published = FALSE], task)

ChangeGame ==
  /\ sheet.serial > 0
  /\ IF sheet.played
     THEN Sheet([sheet EXCEPT !.played = FALSE, !.published = FALSE,
                              !.run = IF @ = "ACTIVE" THEN "EVIDENCE" ELSE @], ClosedTasks)
     ELSE Sheet([sheet EXCEPT !.played = TRUE], task)

-----------------------------------------------------------------------------
(* Nobody tells the inbox of these.                                         *)
Appoint(t, a) ==
  /\ leader' = [s \in Teams |-> IF s = t THEN a ELSE IF leader[s] = a THEN Nobody ELSE leader[s]]
  /\ UNCHANGED <<request, staff, sheet, task>>

StaffChanges(a, role) ==
  /\ Superadmins \ {a} # {} \/ role = "SUPERADMIN"
  /\ staff' = [staff EXCEPT ![a] = role]
  /\ UNCHANGED <<request, leader, sheet, task>>

(* reconcile_inbox_tasks --apply, for every request and every sheet.        *)
Reconcile ==
  /\ LET asked == SyncRequest(request)
         seen == SyncSheet(sheet)
     IN  task' = [a \in Accounts |-> [k \in Keys |->
                    IF k \in RequestKeys THEN asked[a][k] ELSE seen[a][k]]]
  /\ UNCHANGED <<request, leader, staff, sheet>>

Next ==
  \/ Submit \/ OpponentAgrees \/ CallVote \/ EndRequest
  \/ \E t \in Voters : Vote(t)
  \/ \E run \in {"ACTIVE", "FAILED", "NONE"} : Upload(run)
  \/ \E run \in {"SUCCEEDED", "FAILED"} : RecognitionEnds(run)
  \/ RetryRecognition \/ Publish \/ Withdraw \/ ChangeGame
  \/ \E t \in Teams, a \in Accounts \cup {Nobody} : Appoint(t, a)
  \/ \E a \in Accounts, role \in Roles : StaffChanges(a, role)
  \/ Reconcile

Spec == Init /\ [][Next]_vars

-----------------------------------------------------------------------------
Open(k) == {a \in Accounts : task[a][k] = "OPEN"}

(* An open task asks what is still to be done: of a team that has not       *)
(* answered, of the superadmins whose turn it is, or about the newest       *)
(* recognition, whoever leads and governs and whenever the inbox was        *)
(* reconciled (docs/USER_GUIDE.md: tasks close with their business).        *)
TasksAreCurrent ==
  \A k \in Keys : Open(k) # {} =>
    CASE k[1] = "opponent" -> request.stage = "WAITING_OPPONENT" /\ k[2] \in request.asked
      [] k[1] = "voter" -> request.stage = "WAITING_SELECTED_TEAMS" /\ k[2] \in request.asked
      [] k[1] = "missing" -> k[2] \in request.asked
      [] k[1] = "review" -> k[2] = sheet.serial /\ sheet.run = "SUCCEEDED" /\ sheet.played
                            /\ ~sheet.published
      [] k[1] = "failed" -> k[2] = sheet.serial /\ sheet.run = "FAILED" /\ sheet.played
      [] OTHER -> request.stage = k[1]

(* A request that begins to wait reaches somebody: the leader of each team  *)
(* it waits for, all superadmins for a team without one, or all superadmins *)
(* when the decision is theirs (sync_reschedule_tasks).                     *)
Told(a, what) == \E k \in RequestKeys : k[2] = what /\ task'[a][k] = "OPEN"
WaitReachesSomebody ==
  request'.stage # request.stage =>
    /\ \A t \in request'.asked :
         IF leader[t] # Nobody THEN Told(leader[t], t) ELSE \A a \in Superadmins : Told(a, t)
    /\ request'.stage \in AsksStaff => \A a \in Superadmins : Told(a, Nobody)
=============================================================================
