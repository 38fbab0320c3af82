----------------------- MODULE CompetitionCorrections -----------------------
(***************************************************************************)
(* Results, participants and places of games that are put right after the   *)
(* fact: services/competition_corrections.py with its views, the draw of    *)
(* services/draw_assignments.py, the publication of a scoresheet that waits *)
(* for a correction, and the commands that change games meanwhile.          *)
(*                                                                          *)
(* A correction is a draft: a batch of games as they shall be, with the     *)
(* versions it was made for and a decision for every slot of the bracket    *)
(* whose winner it changes.  It is checked when it is made; when it is      *)
(* applied only the versions are checked again.  A score is abstracted to   *)
(* the side that won, the date, period and court of a game to its place.    *)
(***************************************************************************)
EXTENDS Integers, FiniteSets, FiniteSetsExt

CONSTANTS Games,       \* natural numbers, in the order of their ids
          Teams, Slots, Corrections,
          SlotOf,      \* [Games -> [Sides -> Slots]]
          GroupSlots,  \* the slots of the groups, the others are of the bracket
          Phase,       \* [Games -> Nat]: 0 for a group game, then the rounds
          Places,
          Halls,       \* places that are not courts of the season, named in words
          TimeOf,      \* [Places -> times]
          Capacity,    \* games a time can hold
          NoTeam, NoGame, NoPlace, NoCorrection,
          Outcomes,    \* the results, [status, won], that games are given
          Draws,       \* the pairs, [home, away], drawn for games of the bracket
          Start,       \* states the competition may be in at first
          MaxWork      \* bound on the sum of the versions, but for corrections

VARIABLES season,      \* [status, version]
          game,        \* Game rows
          allocated,   \* the place each game's CONVERTED reservation holds
          forced,      \* games put where they are by an override of the rules
          assignment,  \* the DrawAssignment of each slot
          revision,    \* the current GameResultRevision of each game
          sheet,       \* [published, pending, stats] of each game's scoresheet
          history,     \* games with a request, a picture or a scoresheet
          correction   \* CompetitionCorrection rows

vars == <<season, game, allocated, forced, assignment, revision, sheet, history, correction>>

Sides == {"home", "away"}
Played == {"COMPLETED", "FORFEIT"}
Actions == {"KEEP_OVERRIDE", "SYNC_WINNER", "CLEAR", "SET_TEAM"}

Result(row) == [team |-> row.team, status |-> row.status, won |-> row.won]
Winner(row) == IF row.status \in Played THEN row.team[row.won] ELSE NoTeam
TeamsOf(row) == {row.team[side] : side \in Sides} \ {NoTeam}
GameOf(s) == CHOOSE g \in Games : \E side \in Sides : SlotOf[g][side] = s
SideOf(s) == CHOOSE side \in Sides : SlotOf[GameOf(s)][side] = s

Unassigned == [team |-> NoTeam, source |-> NoGame, version |-> 0, mode |-> "NONE"]
Override(t) == [Unassigned EXCEPT !.team = t, !.mode = "SUPERADMIN_OVERRIDE"]
Free(t) == [Unassigned EXCEPT !.team = t, !.mode = "NOT_APPLICABLE"]
Confirmed(t, g, version) ==
    [team |-> t, source |-> g, version |-> version, mode |-> "WINNER_CONFIRMED"]

NoDraft == [status |-> "NONE", after |-> <<>>, down |-> <<>>, season |-> 0,
            versions |-> <<>>, republish |-> NoGame]

Statuses == {"SCHEDULED", "COMPLETED", "FORFEIT", "VOID"}
Participants == [Sides -> Teams \cup {NoTeam}]

\* The table's constraints: two teams, and a result of two resolved teams or none.
GameRows ==
    {row \in [team : Participants, status : Statuses, won : Sides \cup {"none"},
              place : Places, version : Nat, request : Places \cup {NoPlace}] :
        /\ row.team["home"] # row.team["away"] \/ row.team["home"] = NoTeam
        /\ row.status \in Played <=> row.won # "none"
        /\ row.status \in Played => NoTeam \notin {row.team[side] : side \in Sides}}

TypeOK ==
    /\ season \in [status : {"PUBLISHED", "ARCHIVED"}, version : Nat]
    /\ game \in [Games -> GameRows]
    /\ allocated \in [Games -> Places \cup {NoPlace}]
    /\ forced \subseteq Games
    /\ assignment \in [Slots -> [team : Teams \cup {NoTeam}, source : Games \cup {NoGame},
                          version : Nat,
                          mode : {"NONE", "NOT_APPLICABLE", "WINNER_CONFIRMED",
                                  "SUPERADMIN_OVERRIDE"}]]
    /\ revision \in [Games -> [team : Participants, status : Statuses, won : Sides \cup {"none"}]]
    /\ sheet \in [Games -> [published : BOOLEAN, stats : SUBSET Teams,
                            pending : Corrections \cup {NoCorrection}]]
    /\ history \subseteq Games
    /\ \A c \in Corrections : correction[c].status \in
          {"NONE", "READY", "AWAITING_SCORESHEET", "APPLIED", "CANCELLED"}

Init ==
    /\ \E start \in Start :
          /\ season = [status |-> "PUBLISHED", version |-> start.version]
          /\ game = start.game /\ assignment = start.assignment
          /\ sheet = start.sheet
    /\ allocated = [g \in Games |-> NoPlace]
    /\ forced = {}
    /\ revision = [g \in Games |-> Result(game[g])]
    /\ history = {g \in Games : sheet[g].published}
    /\ correction = [c \in Corrections |-> NoDraft]

Within == season.version + MapThenSumSet(LAMBDA g : game[g].version, Games) < MaxWork

(***************************************************************************)
(* Places.  Reservations are kept for running requests and for the games    *)
(* that were moved to a court of the season; no two of them may hold the    *)
(* same place.  Who moves a game chooses a court (standard) or writes the   *)
(* name of a place, a hall or a court: such a game holds no reservation.    *)
(***************************************************************************)
Occupying(rows) == {g \in Games : rows[g].status # "VOID"}
KeptFor(games) == {game[g].request : g \in games} \ {NoPlace}
At(rows, t) == {g \in Occupying(rows) : TimeOf[rows[g].place] = t}

CourtFree(rows, g, kept) ==
    /\ rows[g].place \notin kept
    /\ \A h \in Occupying(rows) \ {g} : rows[h].place # rows[g].place
TeamsFree(rows, g) ==
    \A h \in At(rows, TimeOf[rows[g].place]) \ {g} : TeamsOf(rows[h]) \cap TeamsOf(rows[g]) = {}
WithinCapacity(rows, g, kept) ==
    LET t == TimeOf[rows[g].place]
    IN  Cardinality(At(rows, t) \cup {g}) + Cardinality({p \in kept : TimeOf[p] = t}) <= Capacity

Fits(rows, g, kept) ==
    CourtFree(rows, g, kept) /\ TeamsFree(rows, g) /\ WithinCapacity(rows, g, kept)

\* The reservation of the game itself, rewritten, created or released.
Reserved(g, row) == IF row.standard /\ row.status # "VOID" THEN row.place ELSE NoPlace

ReservableUnseen(after) == TRUE

\* Games of a batch are saved in the order of their ids, each against the constraint.
Reservable(after) ==
    \A g \in DOMAIN after : Reserved(g, after[g]) # NoPlace =>
        \A h \in Games \ {g} :
            /\ Reserved(g, after[g]) # IF h \in DOMAIN after /\ h < g
                                         THEN Reserved(h, after[h]) ELSE allocated[h]
            /\ game[h].request = Reserved(g, after[g]) => h \in DOMAIN after /\ h < g

(***************************************************************************)
(* Making a correction.                                                     *)
(***************************************************************************)
\* The rows of all games once the batch is applied.
Then(after) == [g \in Games |-> IF g \in DOMAIN after THEN after[g] ELSE game[g]]

ResultValidUnresolved(g, row) ==
    /\ row.team["home"] # row.team["away"] \/ row.team["home"] = NoTeam
    /\ row.status \in Played <=> row.won # "none"

ResultValid(g, row) ==
    /\ row.team["home"] # row.team["away"] \/ row.team["home"] = NoTeam
    /\ row.status \in Played <=> row.won # "none"
    /\ row.status \in Played => NoTeam \notin {row.team[side] : side \in Sides}

NoRoundDuplicates(after) ==
    \A g \in DOMAIN after \cap Occupying(Then(after)) :
        \A h \in Occupying(Then(after)) \ {g} :
            Phase[g] > 0 /\ Phase[h] = Phase[g]
                => TeamsOf(after[g]) \cap TeamsOf(Then(after)[h]) = {}

Impacts(after) ==
    {s \in Slots : /\ assignment[s].source \in DOMAIN after
                   /\ Winner(after[assignment[s].source]) # Winner(game[assignment[s].source])}

Resolved(after, down) ==
    /\ DOMAIN down = Impacts(after)
    /\ \A s \in DOMAIN down :
          /\ down[s].action = "SYNC_WINNER" =>
                down[s].team = Winner(after[assignment[s].source]) /\ down[s].team # NoTeam
          /\ down[s].action = "CLEAR" => down[s].team = NoTeam
          /\ down[s].action = "SET_TEAM" => down[s].team # NoTeam
          /\ down[s].action # "KEEP_OVERRIDE" =>
                /\ GameOf(s) \in DOMAIN after
                /\ after[GameOf(s)].team[SideOf(s)] = down[s].team

ResultDiffers(g, row) == Result(row) # Result(game[g])
Republished(after) ==
    {g \in DOMAIN after : sheet[g].published /\ ResultDiffers(g, after[g])
                                             /\ after[g].status = "COMPLETED"}

Correctable(g, row) == ResultValid(g, row) /\ sheet[g].pending = NoCorrection
Changes(g, row) ==
    \/ ResultDiffers(g, row) \/ row.place # game[g].place
    \/ row.standard # (allocated[g] # NoPlace)

CanCreate(after, down) ==
    /\ \E g \in DOMAIN after : Changes(g, after[g])
    /\ \A g \in DOMAIN after :
          /\ Correctable(g, after[g])
          /\ after[g].forced \/ after[g].status = "VOID" \/ Fits(Then(after), g, KeptFor(Games))
    /\ NoRoundDuplicates(after)
    /\ Resolved(after, down)
    /\ Cardinality(Republished(after)) <= 1

CreateCorrection(c, after, down) ==
    /\ correction[c].status = "NONE" /\ CanCreate(after, down)
    /\ LET awaits == Republished(after)
       IN /\ correction' = [correction EXCEPT ![c] =
               [status |-> IF awaits = {} THEN "READY" ELSE "AWAITING_SCORESHEET",
                after |-> after,
                down |-> [s \in DOMAIN down |-> [action |-> down[s].action, team |-> down[s].team,
                                                 source |-> assignment[s].source]],
                season |-> season.version,
                versions |-> [g \in DOMAIN after |-> game[g].version],
                republish |-> IF awaits = {} THEN NoGame ELSE CHOOSE g \in awaits : TRUE]]
          /\ sheet' = [g \in Games |-> IF g \in awaits THEN [sheet[g] EXCEPT !.pending = c]
                                                       ELSE sheet[g]]
    /\ UNCHANGED <<season, game, allocated, forced, assignment, revision, history>>

(***************************************************************************)
(* Applying it.  The conflicts are not looked for again.                    *)
(***************************************************************************)
GamesAsExpected(c) ==
    \A g \in DOMAIN correction[c].after : game[g].version = correction[c].versions[g]

AsExpected(c) ==
    /\ correction[c].season = season.version
    /\ \A g \in DOMAIN correction[c].after : game[g].version = correction[c].versions[g]

\* One save of the game, one more when its running request is cancelled.
Saved(g, row) ==
    [team |-> row.team, status |-> row.status, won |-> row.won, place |-> row.place,
     version |-> game[g].version + (IF game[g].request = NoPlace THEN 1 ELSE 2),
     request |-> NoPlace]

\* _sync_draw_assignment for every corrected game that has the slot, in their order.
Synced(s, after) ==
    LET writers == {g \in DOMAIN after : \E side \in Sides : SlotOf[g][side] = s}
        side(g) == CHOOSE x \in Sides : SlotOf[g][x] = s
        last == CHOOSE g \in writers : \A h \in writers : h <= g
    IN  CASE writers = {} -> assignment[s]
          [] (\A g \in writers : after[g].team[side(g)] = assignment[s].team) -> assignment[s]
          [] OTHER -> IF after[last].team[side(last)] = NoTeam
                        THEN Unassigned ELSE Override(after[last].team[side(last)])

Downstream(s, before, d, rows) ==
    CASE d.action = "KEEP_OVERRIDE" -> Override(before.team)
      [] d.action = "CLEAR" -> Unassigned
      [] d.action = "SET_TEAM" -> Override(d.team)
      [] d.action = "SYNC_WINNER" -> Confirmed(d.team, d.source, rows[d.source].version)

Applicable(c) ==
    /\ AsExpected(c)
    /\ Reservable(correction[c].after)
    /\ \A s \in DOMAIN correction[c].down :
          correction[c].down[s].action = "KEEP_OVERRIDE" =>
              Synced(s, correction[c].after) # Unassigned

CorrectedRows(c) ==
    [g \in Games |-> IF g \in DOMAIN correction[c].after
                       THEN Saved(g, correction[c].after[g]) ELSE game[g]]

\* What an application changes whoever asks for it, but for games and sheets.
Applies(c) ==
    LET after == correction[c].after
        down  == correction[c].down
    IN  /\ Applicable(c)
        /\ allocated' = [g \in Games |-> IF g \in DOMAIN after THEN Reserved(g, after[g])
                                                               ELSE allocated[g]]
        /\ forced' = (forced \ DOMAIN after) \cup {g \in DOMAIN after : after[g].forced}
        /\ assignment' = [s \in Slots |->
              IF s \in DOMAIN down THEN Downstream(s, Synced(s, after), down[s], CorrectedRows(c))
                                   ELSE Synced(s, after)]
        /\ season' = [season EXCEPT !.version = @ + 1]
        /\ correction' = [correction EXCEPT ![c].status = "APPLIED"]

ApplyCorrection(c) ==
    /\ correction[c].status = "READY"
    /\ Applies(c)
    /\ game' = CorrectedRows(c)
    /\ revision' = [g \in Games |-> Result(CorrectedRows(c)[g])]
    /\ sheet' = [g \in Games |->
          IF g \in DOMAIN correction[c].after /\ ResultDiffers(g, correction[c].after[g])
            THEN [sheet[g] EXCEPT !.published = FALSE] ELSE sheet[g]]
    /\ UNCHANGED history

CancelCorrection(c) ==
    /\ correction[c].status \in {"READY", "AWAITING_SCORESHEET"}
    /\ correction' = [correction EXCEPT ![c].status = "CANCELLED"]
    /\ sheet' = [g \in Games |-> IF sheet[g].pending = c
                                   THEN [sheet[g] EXCEPT !.pending = NoCorrection] ELSE sheet[g]]
    /\ UNCHANGED <<season, game, allocated, forced, assignment, revision, history>>

(***************************************************************************)
(* Publishing a scoresheet, alone or with the correction that waits for it. *)
(***************************************************************************)
Publishable(g) ==
    /\ game[g].status \notin {"FORFEIT", "VOID"}
    /\ Cardinality(TeamsOf(game[g])) = 2
    /\ season.status = "PUBLISHED" \/ sheet[g].published

Published(row, side) ==
    [row EXCEPT !.status = "COMPLETED", !.won = side, !.version = @ + 1]

StatsOnly(s, row) == [s EXCEPT !.published = TRUE, !.stats = @ \cup TeamsOf(row)]

WithStats(s, row) ==
    [s EXCEPT !.published = TRUE, !.pending = NoCorrection, !.stats = @ \cup TeamsOf(row)]

Publish(g, side) ==
    /\ Within
    /\ Publishable(g) /\ sheet[g].pending = NoCorrection
    /\ game' = [game EXCEPT ![g] = Published(game[g], side)]
    /\ season' = [season EXCEPT !.version = IF season.status = "ARCHIVED" THEN @ + 1 ELSE @]
    /\ revision' = [revision EXCEPT ![g] = Result(Published(game[g], side))]
    /\ sheet' = [sheet EXCEPT ![g] = WithStats(sheet[g], game[g])]
    /\ history' = history \cup {g}
    /\ UNCHANGED <<allocated, forced, assignment, correction>>

PublishCorrected(g, side) ==
    LET c == sheet[g].pending
        row == Published(CorrectedRows(c)[g], side)
    IN  /\ Publishable(g) /\ c # NoCorrection
        /\ correction[c].status = "AWAITING_SCORESHEET"
        /\ side = correction[c].after[g].won
        /\ Applies(c)
        /\ game' = [CorrectedRows(c) EXCEPT ![g] = row]
        /\ revision' = [h \in Games |-> Result(IF h = g THEN row ELSE CorrectedRows(c)[h])]
        /\ sheet' = [h \in Games |->
              CASE h = g -> WithStats(sheet[g], row)
                [] h # g /\ h \in DOMAIN correction[c].after
                         /\ ResultDiffers(h, correction[c].after[h])
                     -> [sheet[h] EXCEPT !.published = FALSE]
                [] OTHER -> sheet[h]]
        /\ UNCHANGED history

(***************************************************************************)
(* Commands that change games without the season's version: rescheduling    *)
(* and the superadmins' edit of one game.                                   *)
(***************************************************************************)
Moved(g, p) == [game EXCEPT ![g].place = p]

Submit(g, p) ==
    /\ season.status = "PUBLISHED" /\ Within
    /\ game[g].status = "SCHEDULED" /\ game[g].request = NoPlace
    /\ Cardinality(TeamsOf(game[g])) = 2
    /\ p \notin Halls /\ TimeOf[p] # TimeOf[game[g].place]
    /\ Fits(Moved(g, p), g, KeptFor(Games))
    /\ \A h \in Games : game[h].request # NoPlace /\ TimeOf[game[h].request] = TimeOf[p]
                           => TeamsOf(game[h]) \cap TeamsOf(game[g]) = {}
    /\ \A h \in Games : allocated[h] # p
    /\ game' = [game EXCEPT ![g].request = p, ![g].version = @ + 1]
    /\ history' = history \cup {g}
    /\ UNCHANGED <<season, allocated, forced, assignment, revision, sheet, correction>>

Approve(g) ==
    /\ game[g].request # NoPlace
    /\ \A h \in Games \ {g} : game[g].request \notin {allocated[h], game[h].request}
    /\ game' = [game EXCEPT ![g].place = game[g].request, ![g].request = NoPlace,
                            ![g].version = @ + 1]
    /\ allocated' = [allocated EXCEPT ![g] = game[g].request]
    /\ forced' = forced \ {g}
    /\ UNCHANGED <<season, assignment, revision, sheet, history, correction>>

EndRequest(g) ==
    /\ game[g].request # NoPlace
    /\ game' = [game EXCEPT ![g].request = NoPlace, ![g].version = @ + 1]
    /\ UNCHANGED <<season, allocated, forced, assignment, revision, sheet, history, correction>>

\* Participants of a game with slots are left to the draw.  Its own request is
\* cancelled before the edit looks for conflicts.
UpdateGame(g, row) ==
    /\ season.status = "PUBLISHED" /\ Within
    /\ row.team = game[g].team /\ Cardinality(TeamsOf(row)) # 1 /\ ResultValid(g, row)
    /\ ResultDiffers(g, row) => ~sheet[g].published
    /\ row.forced \/ Fits(Then([h \in {g} |-> row]), g, KeptFor(Games \ {g}))
    /\ Reservable([h \in {g} |-> row])
    /\ game' = [game EXCEPT ![g] = Saved(g, row)]
    /\ allocated' = [allocated EXCEPT ![g] = Reserved(g, row)]
    /\ forced' = IF row.forced THEN forced \cup {g} ELSE forced \ {g}
    /\ revision' = [revision EXCEPT ![g] = Result(row)]
    /\ UNCHANGED <<season, assignment, sheet, history, correction>>

(***************************************************************************)
(* The draw: all slots of the groups at once, or one game of a later round. *)
(***************************************************************************)
DrawSafe(g) == game[g].status = "SCHEDULED" /\ g \notin history

Redrawn(g, draw) ==
    [side \in Sides |-> IF SlotOf[g][side] \in GroupSlots THEN draw[SlotOf[g][side]]
                                                          ELSE game[g].team[side]]

ChangedSlots(draw) == {s \in GroupSlots : draw[s] # assignment[s].team}
Affected(draw) == {g \in Games : \E side \in Sides : SlotOf[g][side] \in ChangedSlots(draw)}

DrawGroups(draw) ==
    LET changed == ChangedSlots(draw)
        affected == Affected(draw)
    IN  /\ season.status = "PUBLISHED" /\ Within
        /\ changed # {} /\ \A g \in affected : DrawSafe(g)
        /\ assignment' = [s \in Slots |-> IF s \in changed THEN Free(draw[s]) ELSE assignment[s]]
        /\ game' = [g \in Games |->
              IF g \in affected /\ Redrawn(g, draw) # game[g].team
                THEN [game[g] EXCEPT !.team = Redrawn(g, draw), !.version = @ + 1]
                ELSE game[g]]
        /\ revision' = [g \in Games |->
              [revision[g] EXCEPT !.team = IF g \in affected THEN Redrawn(g, draw) ELSE @]]
        /\ season' = [season EXCEPT !.version = @ + 1]
        /\ UNCHANGED <<allocated, forced, sheet, history, correction>>

Previous(g) == {h \in Games : /\ Phase[h] > 0 /\ Phase[h] = Phase[g] - 1
                              /\ game[h].status # "VOID"}
Beaten(g, t) == {h \in Previous(g) : Winner(game[h]) = t}

\* A drawn team that won a game of the round before is confirmed by that game.
DrawnFrom(g, t) ==
    CASE Previous(g) = {} -> Free(t)
      [] Beaten(g, t) # {} -> LET h == CHOOSE x \in Beaten(g, t) : TRUE
                              IN  Confirmed(t, h, game[h].version)
      [] OTHER -> Override(t)

\* The teams of the other games of the round, by their slots if these are assigned.
DrawnElsewhere(g) ==
    {IF assignment[SlotOf[h][side]] = Unassigned THEN game[h].team[side]
       ELSE assignment[SlotOf[h][side]].team :
        h \in {x \in Occupying(game) \ {g} : Phase[x] = Phase[g]}, side \in Sides}

MayDraw(g, team) ==
    /\ Phase[g] > 0 /\ team["home"] # team["away"]
    /\ \A side \in Sides : team[side] \notin DrawnElsewhere(g)
    /\ team # game[g].team => DrawSafe(g)

DrawGame(g, team) ==
    /\ season.status = "PUBLISHED" /\ Within
    /\ MayDraw(g, team)
    /\ \E side \in Sides : \/ team # game[g].team
                           \/ assignment[SlotOf[g][side]].team # team[side]
    /\ assignment' = [s \in Slots |->
          IF \E side \in Sides : SlotOf[g][side] = s /\ assignment[s].team # team[side]
            THEN DrawnFrom(g, team[SideOf(s)]) ELSE assignment[s]]
    /\ game' = [game EXCEPT ![g].team = team, ![g].version = @ + 1]
    /\ revision' = [revision EXCEPT ![g].team = team]
    /\ season' = [season EXCEPT !.version = @ + 1]
    /\ UNCHANGED <<allocated, forced, sheet, history, correction>>

Archive ==
    /\ season.status = "PUBLISHED" /\ Within
    /\ \A g \in Games : game[g].request = NoPlace
    /\ season' = [status |-> "ARCHIVED", version |-> season.version + 1]
    /\ UNCHANGED <<game, allocated, forced, assignment, revision, sheet, history, correction>>

(***************************************************************************)
(* The inputs: rows that differ from the present one in a single respect,   *)
(* and with them the games whose slots the correction settles.              *)
(***************************************************************************)
RowOf(g) == [team |-> game[g].team, status |-> game[g].status, won |-> game[g].won,
             place |-> game[g].place, standard |-> allocated[g] # NoPlace, forced |-> FALSE]

ResultsFor(g) == {[RowOf(g) EXCEPT !.status = r.status, !.won = r.won] : r \in Outcomes}
Named == {where \in [place : Places, standard : BOOLEAN] :
             where.standard => where.place \notin Halls}
PlacesFor(g) ==
    {[RowOf(g) EXCEPT !.place = where.place, !.standard = where.standard] : where \in Named}
TeamsFor(g) == {[RowOf(g) EXCEPT !.team[side] = t] : side \in Sides, t \in Teams}
Variants(g) == {row \in ResultsFor(g) \cup PlacesFor(g) \cup TeamsFor(g) : ResultValid(g, row)}

ForcedMoves(g) == {[row EXCEPT !.forced = TRUE] : row \in PlacesFor(g)}

Settled(s, t) ==
    LET g == GameOf(s)
    IN  {[RowOf(g) EXCEPT !.team[SideOf(s)] = t, !.status = st,
                          !.won = IF st \in Played THEN @ ELSE "none"] :
            st \in {game[g].status, "SCHEDULED"}}

Correct(c) ==
    \E g \in Games : \E row \in Variants(g) \cup ForcedMoves(g) :
        \/ Impacts([h \in {g} |-> row]) = {} /\ CreateCorrection(c, [h \in {g} |-> row], <<>>)
        \/ \E s \in Impacts([h \in {g} |-> row]), action \in Actions,
              t \in Teams \cup {NoTeam} :
              \E target \in IF action = "KEEP_OVERRIDE" THEN {RowOf(GameOf(s))} ELSE Settled(s, t) :
                  CreateCorrection(c,
                      [h \in {g, GameOf(s)} |-> IF h = g THEN row ELSE target],
                      [x \in {s} |-> [action |-> action, team |-> t]])

(* What the endpoints of api_admin_corrections.py and api_admin_draw.py     *)
(* offer: each runs one command of the services.                            *)
CorrectionCommand(c) == Correct(c) \/ ApplyCorrection(c) \/ CancelCorrection(c)
DrawCommand ==
  \/ \E draw \in [GroupSlots -> Teams] :
        (\A s, r \in GroupSlots : s # r => draw[s] # draw[r]) /\ DrawGroups(draw)
  \/ \E g \in Games, team \in Draws : DrawGame(g, team)

Next ==
    \/ \E c \in Corrections : CorrectionCommand(c)
    \/ \E g \in Games, side \in Sides : Publish(g, side) \/ PublishCorrected(g, side)
    \/ \E g \in Games, p \in Places : Submit(g, p)
    \/ \E g \in Games : Approve(g) \/ EndRequest(g) \/ \E row \in Variants(g) : UpdateGame(g, row)
    \/ DrawCommand \/ Archive

Spec == Init /\ [][Next]_vars

-----------------------------------------------------------------------------
(* The records other parts of the system read in place of the games agree   *)
(* with them: the current revision is the game's result, a correction waits *)
(* for a scoresheet exactly when a scoresheet waits for it, the slots of    *)
(* the bracket hold the participants of their games, and a winner confirmed *)
(* from a game that did not change since is that game's winner              *)
(* (audit_season_integrity.py, result_authority_scope, scoresheet_scope;    *)
(* the slots are what draw_assignments.py validates later draws by).        *)
RecordsAgree ==
    /\ \A g \in Games : revision[g] = Result(game[g])
    /\ \A c \in Corrections : correction[c].status = "AWAITING_SCORESHEET"
                                <=> \E g \in Games : sheet[g].pending = c
    /\ \A s \in Slots \ GroupSlots : assignment[s].team = game[GameOf(s)].team[SideOf(s)]
    /\ \A s \in Slots :
          /\ assignment[s].mode = "WINNER_CONFIRMED"
          /\ game[assignment[s].source].version = assignment[s].version
          => Winner(game[assignment[s].source]) = assignment[s].team

(* Two games that are played share a court though no superadmin forced one  *)
(* of them there.                                                           *)
Meet(g, h) ==
    /\ g # h /\ {g, h} \subseteq Occupying(game) \ forced
    /\ game[g].place = game[h].place

(* No two games do, which the checks for conflicts promise                  *)
(* (update_admin_game, _schedule_conflicts).                                *)
CourtsExclusive == \A g, h \in Games : ~Meet(g, h)

AppliedTo(g) ==
    \E c \in Corrections : /\ correction[c].status # "APPLIED" /\ correction'[c].status = "APPLIED"
                           /\ g \in DOMAIN correction[c].after
ApprovedTo(g) == game[g].request # NoPlace /\ game'[g].place = game[g].request

MeetUnreserved(g, h) ==
    /\ NoPlace \in {allocated'[g], allocated'[h]}
    /\ \E x \in {g, h} : AppliedTo(x) \/ ApprovedTo(x)

(* They come to share it only when a correction is applied or a request     *)
(* approved, which do not look for games again, and only when one of them   *)
(* holds no reservation: edits look, and two games with reservations are    *)
(* kept apart by the constraint whatever changed since a preview            *)
(* (_update_reservation, _approve_request, update_admin_game).              *)
MeetOnlyUnreserved ==
    [][\A g, h \in Games : Meet(g, h)' /\ ~Meet(g, h) => MeetUnreserved(g, h)]_vars

(* A slot whose confirmed team is not the winner of its source any more, so *)
(* that the bracket marks it for review (brackets.py).                      *)
Disputed(s) ==
    /\ assignment[s].mode = "WINNER_CONFIRMED"
    /\ Winner(game[assignment[s].source]) \notin {NoTeam, assignment[s].team}

Applied(c) == correction[c].status = "APPLIED"
Disputes(c) == ~Applied(c) /\ Applied(c)' /\ \E s \in Slots : Disputed(s)' /\ ~Disputed(s)

(* A correction never leaves the bracket behind: applying it, now or with a *)
(* scoresheet, disputes no slot that was not disputed before, whatever was  *)
(* drawn between its preview and its application.                           *)
CorrectionsSettleWinners == [][\A c \in Corrections : ~Disputes(c)]_vars

(* The statistics of every scoresheet belong to the participants of its     *)
(* game, which audit_season_integrity.py (statistics_scope) demands of the  *)
(* database and a restored backup is refused without.                       *)
StatisticsAudit == \A g \in Games : sheet[g].stats \subseteq TeamsOf(game[g])
=============================================================================
