------------------------------- MODULE Rosters -------------------------------
(***************************************************************************)
(* The teams of a season, their players and their leaders: the first import *)
(* of a season's rosters, teams added and edited later                      *)
(* (services/roster_management.py), and the bindings of accounts to teams   *)
(* (services/leader_bindings.py, the claims of api_auth.py).                *)
(*                                                                          *)
(* Every command here holds the season's row to its end, so it is one step; *)
(* what an administrator was shown before confirming it is kept apart.  A   *)
(* command made for another version of what it changes is refused and       *)
(* changes nothing.  A name stands for its spellings and carries a gender:  *)
(* two divisions of a gender may not share one.                             *)
(***************************************************************************)
EXTENDS Naturals, FiniteSets, Functions

CONSTANTS Teams, Players, Names, Accounts, Batches,
          Numbers,      \* jersey numbers
          Entries,      \* [number, active]: what a row of a roster may say
          Files,        \* what may be uploaded: names, each with its numbers
          NoNumber, NoTeam, NoBase, NoPreview,
          MaxVersion    \* bound on the version of the season

VARIABLES season,       \* [status, version]
          batch,        \* [status, base, file] of each upload
          team,         \* [exists, name, active] of each team
          player,       \* [team, number, active] of each row of a roster
          leader,       \* the team an account leads
          led,          \* the teams that have or had a leader
          drawn,        \* the teams in draws and games
          shown         \* the transfer of a leader that may be confirmed

vars == <<season, batch, team, player, leader, led, drawn, shown>>
rosterVars == <<batch, team, player>>
bindingVars == <<leader, led, shown>>

Live == {t \in Teams : team[t].exists}
Active == {t \in Live : team[t].active}
Roster(t) == {p \in Players : player[p].team = t}
Free == Roster(NoTeam)
Gone(p) == [team |-> NoTeam, number |-> NoNumber, active |-> FALSE]

TypeOK ==
  /\ season \in [status : {"SETUP", "PUBLISHED", "ARCHIVED"}, version : 1 .. MaxVersion]
  /\ batch \in [Batches -> [status : {"NONE", "VALIDATED", "CONFIRMED"},
                            base : {NoBase} \cup 1 .. MaxVersion, file : Files]]
  /\ team \in [Teams -> [exists : BOOLEAN, name : Names, active : BOOLEAN]]
  /\ player \in [Players -> [team : Teams \cup {NoTeam}, number : Numbers \cup {NoNumber},
                             active : BOOLEAN]]
  /\ leader \in [Accounts -> Teams \cup {NoTeam}]
  /\ led \subseteq Teams /\ drawn \subseteq Teams
  /\ shown \in {NoPreview} \cup
        [version : 1 .. MaxVersion, account : Accounts, team : Teams,
         releases : SUBSET Accounts]

Init ==
  /\ season = [status |-> "SETUP", version |-> 1]
  /\ batch \in [Batches -> [status : {"NONE"}, base : {NoBase},
                            file : {CHOOSE f \in Files : TRUE}]]
  /\ team = [t \in Teams |-> [exists |-> FALSE, name |-> CHOOSE n \in Names : TRUE,
                              active |-> FALSE]]
  /\ player = [p \in Players |-> Gone(p)]
  /\ leader = [a \in Accounts |-> NoTeam]
  /\ led = {} /\ drawn = {} /\ shown = NoPreview

Bumped == [season EXCEPT !.version = @ + 1]
Open == season.status # "ARCHIVED" /\ season.version < MaxVersion

-----------------------------------------------------------------------------
(* The import.  A file with errors confirms nothing and is not modelled;    *)
(* the administrator may resolve names that look alike, which reads the     *)
(* stored file anew under the names chosen.                                 *)
UploadRoster(b, f) ==
  /\ batch[b].status = "NONE"
  /\ batch' = [batch EXCEPT ![b] = [status |-> "VALIDATED", base |-> season.version, file |-> f]]
  /\ UNCHANGED <<season, team, player, drawn, bindingVars>>

ResolveNames(b, f) ==
  /\ batch[b].status = "VALIDATED" /\ f # batch[b].file
  /\ batch' = [batch EXCEPT ![b].file = f]
  /\ UNCHANGED <<season, team, player, drawn, bindingVars>>

(* Anything that already names a team of the season keeps it from being     *)
(* imported over.                                                           *)
Blockers(b) ==
  \/ \E c \in Batches \ {b} : batch[c].status = "CONFIRMED"
  \/ drawn # {} \/ led # {}

(* The rows of a file on fresh teams and players.                           *)
Placement(f) ==
  CHOOSE at \in [DOMAIN f -> Teams] : IsInjective(at)
Rows(f) == UNION {{[name |-> n, number |-> k] : k \in f[n]} : n \in DOMAIN f}
Seating(f) == CHOOSE at \in [Rows(f) -> Players] : IsInjective(at)

ConfirmImport(b) ==
  /\ batch[b].status = "VALIDATED" /\ season.status = "SETUP" /\ Open
  /\ season.version = batch[b].base
  /\ ~Blockers(b)
  /\ LET f == batch[b].file
         at == Placement(f)
         seat == Seating(f)
     IN /\ team' = [t \in Teams |->
              IF t \in Range(at)
              THEN [exists |-> TRUE, active |-> TRUE, name |-> AntiFunction(at)[t]]
              ELSE [team[t] EXCEPT !.exists = FALSE, !.active = FALSE]]
        /\ player' = [p \in Players |->
              IF p \in Range(seat)
              THEN [team |-> at[AntiFunction(seat)[p].name], active |-> TRUE,
                    number |-> AntiFunction(seat)[p].number]
              ELSE Gone(p)]
  /\ batch' = [batch EXCEPT ![b].status = "CONFIRMED"]
  /\ season' = Bumped
  /\ UNCHANGED <<drawn, bindingVars>>

-----------------------------------------------------------------------------
(* Teams and their rosters, edited as a whole: the rows of the players that *)
(* stay, and of new ones.                                                   *)
Distinct(rows) ==
  \A p \in DOMAIN rows : \A q \in DOMAIN rows \ {p} :
    rows[p].active /\ rows[q].active /\ rows[p].number # NoNumber
      => rows[p].number # rows[q].number
NameTaken(n, t) == \E u \in Live \ {t} : team[u].name = n

CreateTeam(t, n, rows) ==
  /\ Open /\ t \notin Live /\ ~NameTaken(n, t)
  /\ DOMAIN rows \subseteq Free /\ Distinct(rows)
  /\ team' = [team EXCEPT ![t] = [exists |-> TRUE, name |-> n, active |-> TRUE]]
  /\ player' = [p \in Players |->
        IF p \in DOMAIN rows THEN [team |-> t, number |-> rows[p].number,
                                   active |-> rows[p].active]
                             ELSE player[p]]
  /\ season' = Bumped
  /\ UNCHANGED <<batch, drawn, bindingVars>>

(* Players whose number is wanted no longer give it up before any row is    *)
(* saved; then the changed rows are saved one by one, whatever their order, *)
(* then the new ones.  The index on active numbers judges every write.      *)
Renumbered(t, rows) ==
  {p \in Roster(t) : \/ p \notin DOMAIN rows
                     \/ player[p].number # rows[p].number
                     \/ ~rows[p].active}
ReleasedWhenOmitted(t, rows) == {p \in Roster(t) \ DOMAIN rows : player[p].active}
ReleasedFirst(t, rows) == {p \in Renumbered(t, rows) : player[p].active}

Midway(t, rows, saved) ==
  [p \in Roster(t) \cup saved |->
     IF p \in saved THEN rows[p]
     ELSE [number |-> player[p].number,
           active |-> player[p].active /\ p \notin ReleasedFirst(t, rows)]]

IndexRefuses(t, rows) ==
  \/ \E saved \in SUBSET (Roster(t) \cap DOMAIN rows) : ~Distinct(Midway(t, rows, saved))
  \/ \E added \in SUBSET (DOMAIN rows \ Roster(t)) :
        ~Distinct(Midway(t, rows, (Roster(t) \cap DOMAIN rows) \cup added))

Valid(t, rows) == DOMAIN rows \subseteq Roster(t) \cup Free /\ Distinct(rows)
ReferencedByGames(t) == t \in drawn
Referenced(t) == t \in drawn \cup led

(* An archived season takes corrections too, when they are confirmed apart. *)
SaveTeam(t, n, active, rows) ==
  /\ t \in Live /\ season.version < MaxVersion
  /\ Valid(t, rows) /\ ~NameTaken(n, t)
  /\ team[t].active /\ ~active => ~Referenced(t)
  /\ ~IndexRefuses(t, rows)
  /\ team' = [team EXCEPT ![t].name = n, ![t].active = active]
  /\ player' = [p \in Players |->
        IF p \in DOMAIN rows THEN [team |-> t, number |-> rows[p].number,
                                   active |-> rows[p].active]
        ELSE IF p \in Roster(t) THEN [player[p] EXCEPT !.active = FALSE]
        ELSE player[p]]
  /\ season' = Bumped
  /\ UNCHANGED <<batch, drawn, bindingVars>>

-----------------------------------------------------------------------------
(* Leaders.  A claim raises the team's version and not the season's; a      *)
(* transfer confirms what its preview showed.                               *)
Leads(t) == {a \in Accounts : leader[a] = t}

ClaimTeam(a, t) ==
  /\ season.status = "PUBLISHED" /\ t \in Active
  /\ leader[a] = NoTeam /\ Leads(t) = {}
  /\ leader' = [leader EXCEPT ![a] = t]
  /\ led' = led \cup {t}
  /\ UNCHANGED <<season, drawn, shown, rosterVars>>

Releases(a, t) ==
  IF leader[a] = t THEN {} ELSE {c \in Accounts : leader[c] # NoTeam /\ (c = a \/ leader[c] = t)}
Transfer(a, t) ==
  [version |-> season.version, account |-> a, team |-> t, releases |-> Releases(a, t)]

PreviewTransfer(a, t) ==
  /\ t \in Active
  /\ shown' = Transfer(a, t)
  /\ UNCHANGED <<season, drawn, leader, led, rosterVars>>

Transfers(a, t) ==
  /\ leader' = [c \in Accounts |->
        IF c = a THEN t ELSE IF c \in Releases(a, t) THEN NoTeam ELSE leader[c]]
  /\ led' = led \cup {t}
  /\ season' = Bumped
  /\ UNCHANGED <<drawn, shown, rosterVars>>

TransferLeader(a, t) ==
  /\ t \in Active /\ shown = Transfer(a, t)
  /\ leader[a] # t /\ season.version < MaxVersion
  /\ Transfers(a, t)

ReleaseLeader(a) ==
  /\ leader[a] # NoTeam /\ season.version < MaxVersion
  /\ leader' = [leader EXCEPT ![a] = NoTeam]
  /\ season' = Bumped
  /\ UNCHANGED <<led, drawn, shown, rosterVars>>

-----------------------------------------------------------------------------
(* Around the rosters: the season opens and closes, its teams are drawn.    *)
Lifecycle(next) ==
  /\ Open
  /\ <<season.status, next>> \in {<<"SETUP", "PUBLISHED">>, <<"PUBLISHED", "ARCHIVED">>}
  /\ season' = [Bumped EXCEPT !.status = next]
  /\ UNCHANGED <<drawn, rosterVars, bindingVars>>

Draw(ts) ==
  /\ Open /\ ts # {} /\ ts \subseteq Active
  /\ drawn' = ts
  /\ season' = Bumped
  /\ UNCHANGED <<rosterVars, bindingVars>>

Payloads == UNION {[ps -> Entries] : ps \in SUBSET Players}

(* What the endpoints of api_admin_roster.py and api_admin_leaders.py offer *)
(* a superadmin: each runs one command of the services.                     *)
RosterCommand ==
  \/ \E b \in Batches, f \in Files : UploadRoster(b, f) \/ ResolveNames(b, f)
  \/ \E b \in Batches : ConfirmImport(b)
  \/ \E t \in Teams, n \in Names, rows \in Payloads :
        CreateTeam(t, n, rows) \/ \E active \in BOOLEAN : SaveTeam(t, n, active, rows)
LeaderCommand(a) ==
  ReleaseLeader(a) \/ \E t \in Teams : PreviewTransfer(a, t) \/ TransferLeader(a, t)

Next ==
  \/ RosterCommand
  \/ \E a \in Accounts : LeaderCommand(a) \/ \E t \in Teams : ClaimTeam(a, t)
  \/ \E next \in {"PUBLISHED", "ARCHIVED"} : Lifecycle(next)
  \/ \E ts \in SUBSET Teams : Draw(ts)

Spec == Init /\ [][Next]_vars

-----------------------------------------------------------------------------
(* No roster that is right as a whole is refused for the way it is written: *)
(* players may swap their numbers, or a number pass from one who leaves to  *)
(* a new one, and no order of the rows meets the index on active numbers    *)
(* (save_team_roster).                                                      *)
ValidRostersAreSaved ==
  \A t \in Live : \A rows \in Payloads : Valid(t, rows) => ~IndexRefuses(t, rows)

(* A team that is drawn or led exists and is active, whatever imports and   *)
(* edits came between; a team has one leader; no two teams share a name,    *)
(* nor two active players of a team a number; one import is confirmed.      *)
TeamsInUseStay ==
  /\ \A t \in drawn \cup ({leader[a] : a \in Accounts} \ {NoTeam}) : t \in Active
  /\ \A t \in Teams : Cardinality(Leads(t)) <= 1
  /\ \A t, u \in Live : team[t].name = team[u].name => t = u
  /\ \A t \in Live : Distinct([p \in Roster(t) |->
        [number |-> player[p].number, active |-> player[p].active]])
  /\ Cardinality({b \in Batches : batch[b].status = "CONFIRMED"}) <= 1

Gains == \E a \in Accounts : leader'[a] \notin {leader[a], NoTeam}
Loses(c) == leader[c] # NoTeam /\ leader'[c] # leader[c]
AsShown == Gains => \A c \in Accounts : Loses(c) => c \in shown.releases
=============================================================================
