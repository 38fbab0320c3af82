--------------------------- MODULE ScheduleImports ---------------------------
(***************************************************************************)
(* How the games of a season come to be: a grid of matchups, drawn up in an *)
(* online draft (services/schedule_drafts.py) or uploaded as a workbook,    *)
(* is validated into a batch, and a batch without errors is confirmed into  *)
(* games; a season still in SETUP may take all its imports back             *)
(* (services/schedule_imports_v3.py).                                       *)
(*                                                                          *)
(* A place of the grid is a date, a period and a court.  A matchup is a     *)
(* pair of slots of one family, whichever plays at home; its groups and     *)
(* slots come and go with its game and are not kept apart.  Confirmation    *)
(* and reset hold the season's row, edits of the draft the draft's row, so  *)
(* each is one step; validation and confirmation are two.                   *)
(***************************************************************************)
EXTENDS Naturals, FiniteSets, Functions

CONSTANTS Matchups, Places, Batches,
          SlotsOf,      \* the two slots of a matchup
          TimeOf,       \* the date and period of a place
          Capacity,     \* games a date and period holds
          Grids,        \* the grids planners draw up: functions on places
          Families,     \* the sets of matchups a configuration may call for
          NoGame,
          MaxVersion    \* bound on the versions of season and draft

VARIABLES season,       \* [status, version, expected]
          draft,        \* [version, cells]
          batch,        \* [status, draftVersion, cells, clean] of each import
          game,         \* [place, batch, live] of each matchup
          drawn         \* whether teams were drawn into slots

vars == <<season, draft, batch, game, drawn>>

NoCells == [p \in {} |-> CHOOSE m \in Matchups : TRUE]
Cells == Grids \cup {NoCells}
Blank == [status |-> "NONE", draftVersion |-> 0, cells |-> NoCells, clean |-> FALSE]

TypeOK ==
  /\ season \in [status : {"SETUP", "PUBLISHED"}, version : 1 .. MaxVersion,
                 expected : Families]
  /\ draft \in [version : 1 .. MaxVersion, cells : Cells]
  /\ batch \in [Batches -> [status : {"NONE", "VALIDATED", "REJECTED", "CONFIRMED", "ROLLED_BACK"},
                            draftVersion : 0 .. MaxVersion, cells : Cells, clean : BOOLEAN]]
  /\ game \in [Matchups -> {NoGame} \cup [place : Places, batch : Batches, live : BOOLEAN]]
  /\ drawn \in BOOLEAN

Init ==
  /\ season \in [status : {"SETUP"}, version : {1}, expected : Families]
  /\ draft = [version |-> 1, cells |-> NoCells]
  /\ batch = [b \in Batches |-> Blank]
  /\ game = [m \in Matchups |-> NoGame]
  /\ drawn = FALSE

Bumped == [season EXCEPT !.version = @ + 1]
Exists(g) == {m \in Matchups : g[m] # NoGame}
Live(g) == {m \in Exists(g) : g[m].live}

-----------------------------------------------------------------------------
(* The analysis of a grid against the season as it is, run at validation    *)
(* and again under the locks of the confirmation.                           *)
GamesAt(cells, g, t) ==
  Cardinality({p \in DOMAIN cells : TimeOf[p] = t})
    + Cardinality({m \in Live(g) : TimeOf[g[m].place] = t})

(* No game is entered twice; a code once used is not used again, not even   *)
(* that of a void game.                                                     *)
MatchupsNew(cells, g) ==
  /\ IsInjective(cells)
  /\ Range(cells) \cap Exists(g) = {}

(* What is there and what is new make up the configured families exactly.   *)
Complete(cells, g) ==
  /\ Range(cells) \subseteq season.expected
  /\ (Live(g) \cap season.expected) \cup Range(cells) = season.expected

PlacesUnchecked(cells, g) == TRUE

PlacesFree(cells, g) == \A m \in Live(g) : g[m].place \notin DOMAIN cells

WithinCapacity(cells, g) ==
  \A p \in DOMAIN cells : GamesAt(cells, g, TimeOf[p]) <= Capacity[TimeOf[p]]

SlotsFree(cells, g) ==
  \A p \in DOMAIN cells :
    /\ \A q \in DOMAIN cells \ {p} :
          TimeOf[p] = TimeOf[q] => SlotsOf[cells[p]] \cap SlotsOf[cells[q]] = {}
    /\ \A m \in Live(g) :
          TimeOf[p] = TimeOf[g[m].place] => SlotsOf[cells[p]] \cap SlotsOf[m] = {}

Clean(cells) ==
  /\ season.status = "SETUP" /\ DOMAIN cells # {}
  /\ MatchupsNew(cells, game) /\ Complete(cells, game)
  /\ PlacesFree(cells, game) /\ WithinCapacity(cells, game) /\ SlotsFree(cells, game)

-----------------------------------------------------------------------------
(* The online draft.  Saving it rejects the batches validated from it.      *)
FromDraft(b) == batch[b].draftVersion # 0

ReplaceDraft(cells) ==
  /\ draft.version < MaxVersion
  /\ draft' = [version |-> draft.version + 1, cells |-> cells]
  /\ batch' = [b \in Batches |->
        IF FromDraft(b) /\ batch[b].status = "VALIDATED"
        THEN [batch[b] EXCEPT !.status = "REJECTED"] ELSE batch[b]]
  /\ UNCHANGED <<season, game, drawn>>

Validated(b, cells, version) ==
  batch' = [batch EXCEPT ![b] = [status |-> "VALIDATED", draftVersion |-> version,
                                 cells |-> cells, clean |-> Clean(cells)]]

ValidateDraft(b) ==
  /\ batch[b].status = "NONE"
  /\ Validated(b, draft.cells, draft.version)
  /\ UNCHANGED <<season, draft, game, drawn>>

UploadSchedule(b, cells) ==
  /\ batch[b].status = "NONE"
  /\ Validated(b, cells, 0)
  /\ UNCHANGED <<season, draft, game, drawn>>

-----------------------------------------------------------------------------
(* A batch of the draft is confirmed only while the draft is what was       *)
(* validated, and empties it; the draft keeps its columns.                  *)
UpToDate(b) == FromDraft(b) => draft.version = batch[b].draftVersion

Confirmable(b) ==
  /\ batch[b].clean /\ season.status = "SETUP" /\ Clean(batch[b].cells)
  /\ season.version < MaxVersion /\ draft.version < MaxVersion

Enter(b) ==
  /\ LET at == AntiFunction(batch[b].cells) IN
       game' = [m \in Matchups |->
          IF m \in DOMAIN at THEN [place |-> at[m], batch |-> b, live |-> TRUE] ELSE game[m]]
  /\ batch' = [batch EXCEPT ![b].status = "CONFIRMED"]
  /\ draft' = IF FromDraft(b) THEN [version |-> draft.version + 1, cells |-> NoCells] ELSE draft
  /\ season' = Bumped
  /\ UNCHANGED drawn

ConfirmSchedule(b) ==
  batch[b].status = "VALIDATED" /\ UpToDate(b) /\ Confirmable(b) /\ Enter(b)

(* All confirmed batches are taken back together, while nothing has come of *)
(* their games.                                                             *)
Confirmed == {b \in Batches : batch[b].status = "CONFIRMED"}
Imported == {m \in Exists(game) : game[m].batch \in Confirmed}

ResetBlocked ==
  \/ season.status # "SETUP" \/ Confirmed = {} \/ drawn
  \/ \E m \in Imported : ~game[m].live

ResetImports ==
  /\ ~ResetBlocked /\ season.version < MaxVersion
  /\ game' = [m \in Matchups |-> IF m \in Imported THEN NoGame ELSE game[m]]
  /\ batch' = [b \in Batches |->
        IF b \in Confirmed THEN [batch[b] EXCEPT !.status = "ROLLED_BACK"] ELSE batch[b]]
  /\ season' = Bumped
  /\ UNCHANGED <<draft, drawn>>

-----------------------------------------------------------------------------
(* Around the imports: administrators move or void a game (here without the *)
(* override that AdminGameEdit has), draw teams into its slots, reconfigure *)
(* the families and publish the season.                                     *)
EditGame(m, place, live) ==
  /\ m \in Live(game)
  /\ \A n \in Live(game) \ {m} :
       /\ place # game[n].place
       /\ TimeOf[place] = TimeOf[game[n].place] => SlotsOf[m] \cap SlotsOf[n] = {}
  /\ GamesAt(NoCells, [game EXCEPT ![m] = NoGame], TimeOf[place]) < Capacity[TimeOf[place]]
  /\ game' = [game EXCEPT ![m].place = place, ![m].live = live]
  /\ UNCHANGED <<season, draft, batch, drawn>>

DrawTeams ==
  /\ Exists(game) # {} /\ ~drawn /\ season.version < MaxVersion
  /\ drawn' = TRUE /\ season' = Bumped
  /\ UNCHANGED <<draft, batch, game>>

Configure(families) ==
  /\ season.version < MaxVersion /\ families # season.expected
  /\ season' = [Bumped EXCEPT !.expected = families]
  /\ UNCHANGED <<draft, batch, game, drawn>>

Publish ==
  /\ season.status = "SETUP" /\ Live(game) # {} /\ season.version < MaxVersion
  /\ season' = [Bumped EXCEPT !.status = "PUBLISHED"]
  /\ UNCHANGED <<draft, batch, game, drawn>>

(* What the endpoints of api_admin.py offer for the draft that is edited    *)
(* online and for workbooks: each runs one command of the services.         *)
DraftCommand ==
  (\E cells \in Cells : ReplaceDraft(cells)) \/ \E b \in Batches : ValidateDraft(b)
ImportCommand ==
  \/ \E b \in Batches : ConfirmSchedule(b) \/ \E cells \in Grids : UploadSchedule(b, cells)
  \/ ResetImports

Next ==
  \/ DraftCommand \/ ImportCommand
  \/ \E m \in Matchups, p \in Places, live \in BOOLEAN : EditGame(m, p, live)
  \/ DrawTeams \/ Publish
  \/ \E families \in Families : Configure(families)

Spec == Init /\ [][Next]_vars

-----------------------------------------------------------------------------
(* Imports and resets are whole: every game is of a confirmed batch, and    *)
(* every matchup of a confirmed batch has its game; the live games never    *)
(* meet on a court or in a slot nor exceed the capacity, though batches     *)
(* are validated long before they are confirmed and games move meanwhile.   *)
ImportsAreWhole ==
  /\ \A m \in Exists(game) : game[m].batch \in Confirmed
  /\ \A b \in Confirmed : \A m \in Range(batch[b].cells) : m \in Exists(game) /\ game[m].batch = b
  /\ \A m, n \in Live(game) :
       m # n => /\ game[m].place # game[n].place
                /\ TimeOf[game[m].place] = TimeOf[game[n].place]
                     => SlotsOf[m] \cap SlotsOf[n] = {}
  /\ \A p \in Places : GamesAt(NoCells, game, TimeOf[p]) <= Capacity[TimeOf[p]]

Entered(p) ==
  game'[draft.cells[p]] # NoGame /\ game'[draft.cells[p]].place = p
DraftUsedUp == draft'.cells = NoCells /\ game' # game
UsedUpAsGames == DraftUsedUp => \A p \in DOMAIN draft.cells : Entered(p)
=============================================================================
