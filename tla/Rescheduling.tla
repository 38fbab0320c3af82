---------------------------- MODULE Rescheduling ----------------------------
(***************************************************************************)
(* The rescheduling service of the API (core/services/rescheduling.py): a  *)
(* team leader asks for another slot for a game, the opponent, possibly    *)
(* other teams of the group and a superadmin decide, and the game is moved *)
(* or the kept slot is given back.                                         *)
(*                                                                         *)
(* Every action is one database transaction.  The service serialises them: *)
(* each locks the rows it decides on (request, game, reservation) and the  *)
(* slot lock of the slot it books.  A command whose guard fails raises and *)
(* its transaction is rolled back, so it is not a step here.  Commands     *)
(* carry the version their caller saw; one that carries another version is *)
(* refused, so only commands with the current version appear as steps.     *)
(*                                                                         *)
(* Time is counted in days: the value d of now is the midnight that starts *)
(* day d, day 0 is a Monday, and a game of day d starts later that day.    *)
(***************************************************************************)
EXTENDS Integers, FiniteSets

CONSTANTS
  Game, Request, Team, Account, Slot,
  Venue,             \* the standard courts of the season
  Hall,              \* other places a game may be played at
  NoRequest, NoAccount, NoGame, NoPlace,
  Home, Away,        \* Game -> Team
  VoterScope,        \* Game -> teams of its group (of its division if none)
  LeaderAdjustable,  \* the games whose import policy lets leaders move them
  Day,               \* Slot -> day; a slot is a date and a period
  Capacity,          \* Slot -> games the season allows in it
  VenueRank,         \* Venue -> sort order
  StartSlot,         \* Game -> slot of the imported schedule
  MaybeVoid,         \* the games that may have been voided before
  StartLeader,       \* Team -> its leader when the season is published
  Appointments,      \* <<account, team>> pairs the superadmins may bind later,
                     \* with NoAccount where they may release the team
  MaxGameVersion,    \* bound on republication of results
  LockWait,          \* days a command may wait for its locks
  Horizon            \* last day of the clock

ASSUME IdentityAssumption ==
  /\ NoRequest \notin Request
  /\ NoAccount \notin Account
  /\ NoGame \notin Game
  /\ Venue \cap Hall = {} /\ NoPlace \notin Slot \X (Venue \cup Hall)
  /\ Request \cap Game = {}

ASSUME SeasonAssumption ==
  /\ Home \in [Game -> Team] /\ Away \in [Game -> Team]
  /\ \A g \in Game : Home[g] # Away[g]
  /\ VoterScope \in [Game -> SUBSET Team]
  /\ LeaderAdjustable \subseteq Game /\ MaybeVoid \subseteq Game
  /\ StartLeader \in [Team -> Account \cup {NoAccount}]
  /\ \A t, u \in Team : t # u => StartLeader[t] # StartLeader[u] \/ StartLeader[t] = NoAccount
  /\ Appointments \subseteq (Account \cup {NoAccount}) \X Team

ASSUME CalendarAssumption ==
  /\ Day \in [Slot -> Nat]
  /\ Capacity \in [Slot -> Nat]
  /\ VenueRank \in [Venue -> Nat]
  /\ StartSlot \in [Game -> Slot]
  /\ MaxGameVersion \in Nat /\ LockWait \in Nat /\ Horizon \in Nat

ASSUME FiniteAssumption == IsFiniteSet(Game) /\ IsFiniteSet(Request)

VARIABLES
  now,           \* the clock
  game,          \* the Game rows: place, status, lock, version
  request,       \* the RescheduleRequest rows
  reservation,   \* the SlotReservation rows
  confirmation,  \* the TeamConfirmation rows of each request
  leader         \* the active SeasonLeaderBinding of each team

vars == <<now, game, request, reservation, confirmation, leader>>

-----------------------------------------------------------------------------
(* The rows. *)

TeamWaiting == {"WAITING_OPPONENT", "WAITING_SELECTED_TEAMS"}
AdminWaiting == {"WAITING_ADMIN_DECISION", "WAITING_ADMIN_FINAL"}
Waiting == TeamWaiting \cup AdminWaiting
Failed == {"REJECTED", "WITHDRAWN", "EXPIRED", "ADMIN_CANCELLED"}
Terminal == Failed \cup {"APPROVED"}

RequestType == {"SAME_WEEK", "CROSS_WEEK"}
ProcessRoute == {"ORDINARY", "HANDBOOK_REVIEW"}
ReviewClassification == {"ORDINARY", "CROSS_ROUND"}
NoClassification == "NONE"

Response == {"PENDING", "ACCEPTED", "REJECTED"}
NotAsked == "NONE"
NoRow == [status |-> "NONE"]

GameRow ==
  [slot : Slot, venue : Venue \cup Hall, status : {"SCHEDULED", "COMPLETED", "FORFEIT", "VOID"},
   lock : Request \cup {NoRequest}, version : Nat]

RequestRow ==
  [status : Waiting \cup Terminal, game : Game, team : Team,
   type : RequestType, route : ProcessRoute,
   class : ReviewClassification \cup {NoClassification},
   slot : Slot, venue : Venue, deadline : Int,
   gameVersion : Nat, version : Nat]

(* A reservation is named by its request; an allocation that the          *)
(* superadmins made without a request is named by its game.               *)
Reservation == Request \cup Game

ReservationRow ==
  [status : {"ACTIVE", "CONVERTED", "RELEASED"}, slot : Slot, venue : Venue,
   game : Game \cup {NoGame}]

TypeOK ==
  /\ now \in Nat
  /\ game \in [Game -> GameRow]
  /\ request \in [Request -> RequestRow \cup {NoRow}]
  /\ reservation \in [Reservation -> ReservationRow \cup {NoRow}]
  /\ confirmation \in [Request -> [Team -> Response \cup {NotAsked}]]
  /\ leader \in [Team -> Account \cup {NoAccount}]

-----------------------------------------------------------------------------
(* What the commands read. *)

Teams(g) == {Home[g], Away[g]}
OpponentTeam(g, t) == IF t = Home[g] THEN Away[g] ELSE Home[g]
EligibleVoters(g) == VoterScope[g] \ Teams(g)
Leads(a, t) == leader[t] = a
Voters(r) ==
  {t \in Team : confirmation[r][t] # NotAsked} \ Teams(request[r].game)

WeekOf(d) == d \div 7
DateRelation(d, e) == IF WeekOf(d) = WeekOf(e) THEN "SAME_WEEK" ELSE "CROSS_WEEK"

DeadlineFor(day, daysBefore) == day - (daysBefore - 1)
Earlier(d, e) == IF d <= e THEN d ELSE e
SubmitDeadline(d, e) == DeadlineFor(Earlier(d, e), 3)
ConfirmationDeadline(d, e) == DeadlineFor(Earlier(d, e), 2)

(* A command reads the clock before it waits for its locks. *)
Readings == {at \in 0..now : now - at <= LockWait}

GamesAt(s) == {g \in Game : game[g].status # "VOID" /\ game[g].slot = s}
ReservedAt(s) ==
  {q \in Reservation : reservation[q].status = "ACTIVE" /\ reservation[q].slot = s}
Occupancy(s) == Cardinality(GamesAt(s)) + Cardinality(ReservedAt(s))
OccupiedVenuesNoGames(s) == {reservation[q].venue : q \in ReservedAt(s)}
OccupiedVenues(s) ==
  {game[g].venue : g \in GamesAt(s)} \cup {reservation[q].venue : q \in ReservedAt(s)}
HasRoom(s) == Occupancy(s) < Capacity[s]
FirstAvailableVenue(s, v) ==
  /\ v \in Venue \ OccupiedVenues(s)
  /\ \A w \in Venue \ OccupiedVenues(s) : VenueRank[v] <= VenueRank[w]

TeamConflictGamesOnly(g, s) == \E h \in GamesAt(s) : Teams(h) \cap Teams(g) # {}
TeamConflict(g, s) ==
  \/ \E h \in GamesAt(s) : Teams(h) \cap Teams(g) # {}
  \/ \E r \in Request :
       /\ reservation[r].status = "ACTIVE"
       /\ request[r].slot = s
       /\ Teams(request[r].game) \cap Teams(g) # {}

(* The rows of uniq_active_reservation_venue. *)
Occupying(q) == reservation[q].status \in {"ACTIVE", "CONVERTED"}
SamePlace(row1, row2) == row1.slot = row2.slot /\ row1.venue = row2.venue
NobodyElseAt(r, place) ==
  \A q \in Reservation \ {r} : Occupying(q) => ~ SamePlace(reservation[q], place)

(* The route a client may ask for; "DEFAULT" is a client that sends none. *)
RouteAsAsked(asked, type) == asked
ResolvedRoute(asked, type) ==
  IF asked = "DEFAULT"
  THEN IF type = "SAME_WEEK" THEN "ORDINARY" ELSE "HANDBOOK_REVIEW"
  ELSE asked

-----------------------------------------------------------------------------
(* What the transactions make of a row. *)

LockedNoVersion(row, r) == [row EXCEPT !.lock = r]
Locked(row, r) == [row EXCEPT !.lock = r, !.version = row.version + 1]

UnlockedNever(row, r) == row
Unlocked(row, r) ==
  IF row.lock = r THEN [row EXCEPT !.lock = NoRequest, !.version = row.version + 1] ELSE row

GivenBack(row) == IF row.status = "ACTIVE" THEN [row EXCEPT !.status = "RELEASED"] ELSE row

MovedSlotOnly(row, place) ==
  [row EXCEPT !.slot = place.slot, !.lock = NoRequest, !.version = row.version + 1]
Moved(row, place) ==
  [row EXCEPT !.slot = place.slot, !.venue = place.venue,
              !.lock = NoRequest, !.version = row.version + 1]

Advanced(row, status) == [row EXCEPT !.status = status, !.version = row.version + 1]

-----------------------------------------------------------------------------
(* The transactions that several commands end in. *)

(* _release_request: the slot is given back and the game unlocked.  row is *)
(* the request as the command has already changed it in memory.            *)
Release(r, row, outcome) ==
  /\ request' = [request EXCEPT ![r] = Advanced(row, outcome)]
  /\ reservation' = [reservation EXCEPT ![r] = GivenBack(reservation[r])]
  /\ game' = [game EXCEPT ![row.game] = Unlocked(game[row.game], r)]

(* The checks of _approve_request: if one fails the approval is refused. *)
Approvable(r, g) ==
  /\ reservation[r].status = "ACTIVE"
  /\ game[g].lock = r
  /\ NobodyElseAt(r, reservation[r])

(* What approving r makes of the reservation q: the kept slot becomes the  *)
(* allocation of the game, which gives up the allocation it had.           *)
Converted(q, r, g) ==
  IF q = r THEN [reservation[r] EXCEPT !.status = "CONVERTED", !.game = g]
  ELSE IF reservation[q].status = "CONVERTED" /\ reservation[q].game = g
       THEN [reservation[q] EXCEPT !.status = "RELEASED"]
       ELSE reservation[q]

(* _approve_request: the game moves to the place kept for it. *)
Approve(r, row) ==
  /\ Approvable(r, row.game)
  /\ reservation' = [q \in Reservation |-> Converted(q, r, row.game)]
  /\ game' = [game EXCEPT ![row.game] = Moved(game[row.game], reservation[r])]
  /\ request' = [request EXCEPT ![r] = Advanced(row, "APPROVED")]

(* A command of the negotiation that only moves the request on. *)
MoveOn(r, row, status) ==
  /\ request' = [request EXCEPT ![r] = Advanced(row, status)]
  /\ UNCHANGED <<game, reservation>>

Answer(r, t, accept) ==
  confirmation' = [confirmation EXCEPT ![r][t] =
    IF accept THEN "ACCEPTED" ELSE "REJECTED"]

-----------------------------------------------------------------------------
(* The commands of the leaders. *)

SubmitAllowed(a, t, g, s, asked, at) ==
  LET from == Day[game[g].slot]
      type == DateRelation(from, Day[s])
  IN /\ game[g].status = "SCHEDULED"
     /\ g \in LeaderAdjustable
     /\ game[g].lock = NoRequest
     /\ at <= from                                 \* the game has not started
     /\ s # game[g].slot
     /\ at < SubmitDeadline(from, Day[s])
     /\ ResolvedRoute(asked, type) = "ORDINARY" => type = "SAME_WEEK"
     /\ t \in Teams(g) /\ Leads(a, t)
     /\ ~ TeamConflict(g, s)
     /\ HasRoom(s)

SubmittedRow(g, t, s, v, asked) ==
  LET from == Day[game[g].slot]
      type == DateRelation(from, Day[s])
  IN [status |-> "WAITING_OPPONENT", game |-> g, team |-> t,
      type |-> type, route |-> ResolvedRoute(asked, type),
      class |-> NoClassification, slot |-> s, venue |-> v,
      deadline |-> ConfirmationDeadline(from, Day[s]),
      gameVersion |-> game[g].version, version |-> 1]

(* available_reschedule_targets: the slots offered to a before asking.     *)
OfferedForGamesOnly(g, s) == ~ TeamConflictGamesOnly(g, s) /\ HasRoom(s)
OfferedFor(g, s) == ~ TeamConflict(g, s) /\ HasRoom(s)
OfferedTargets(a, g, asked) ==
  {s \in Slot \ {game[g].slot} :
     /\ game[g].status = "SCHEDULED" /\ g \in LeaderAdjustable
     /\ game[g].lock = NoRequest
     /\ \E t \in Teams(g) : Leads(a, t)
     /\ now < SubmitDeadline(Day[game[g].slot], Day[s])
     /\ OfferedFor(g, s)
     /\ Venue \ OccupiedVenues(s) # {}
     /\ asked = "ORDINARY" => DateRelation(Day[game[g].slot], Day[s]) = "SAME_WEEK"}

(* submit_reschedule: keep a court in the target slot, lock the game, ask  *)
(* the opponent.  The insert fails if the court is CONVERTED to a game.    *)
Submit(r, a, t, g, s, v, asked, at) ==
  LET place == [status |-> "ACTIVE", slot |-> s, venue |-> v, game |-> NoGame] IN
  /\ request[r] = NoRow
  /\ SubmitAllowed(a, t, g, s, asked, at)
  /\ FirstAvailableVenue(s, v)
  /\ NobodyElseAt(r, place)
  /\ reservation' = [reservation EXCEPT ![r] = place]
  /\ request' = [request EXCEPT ![r] = SubmittedRow(g, t, s, v, asked)]
  /\ confirmation' = [confirmation EXCEPT ![r][OpponentTeam(g, t)] = "PENDING"]
  /\ game' = [game EXCEPT ![g] = Locked(game[g], r)]
  /\ UNCHANGED <<now, leader>>

StillAskedNobody(r, t) == FALSE
StillAsked(r, t) == \E u \in Voters(r) \ {t} : confirmation[r][u] = "PENDING"

(* The leader of t may answer r: the row waits for t in that status. *)
MayAnswer(a, r, t, status) ==
  /\ request[r].status = status
  /\ Leads(a, t)
  /\ CASE status = "WAITING_OPPONENT" ->
            t = OpponentTeam(request[r].game, request[r].team)
       [] OTHER -> t \in Voters(r) /\ confirmation[r][t] = "PENDING"

(* An answer that comes too late ends the request, whatever it says. *)
AnswerTooLate(a, r, t, status, at) ==
  /\ MayAnswer(a, r, t, status)
  /\ at >= request[r].deadline
  /\ Release(r, request[r], "EXPIRED")
  /\ UNCHANGED <<now, confirmation, leader>>

AnswerNo(a, r, t, status, at) ==
  /\ MayAnswer(a, r, t, status)
  /\ at < request[r].deadline
  /\ Answer(r, t, FALSE)
  /\ Release(r, request[r], "REJECTED")
  /\ UNCHANGED <<now, leader>>

(* The opponent agrees: an ordinary request takes effect at once, any      *)
(* other goes to the superadmins.                                          *)
OpponentAgrees(a, r, t, at) ==
  /\ MayAnswer(a, r, t, "WAITING_OPPONENT")
  /\ at < request[r].deadline
  /\ Answer(r, t, TRUE)
  /\ \/ /\ request[r].type = "SAME_WEEK" /\ request[r].route = "ORDINARY"
        /\ Approve(r, request[r])
     \/ /\ ~ (request[r].type = "SAME_WEEK" /\ request[r].route = "ORDINARY")
        /\ MoveOn(r, request[r], "WAITING_ADMIN_DECISION")
  /\ UNCHANGED <<now, leader>>

(* A selected team agrees; the last one hands the request back to the      *)
(* superadmins.  The version only moves with the status.                   *)
SelectedTeamAgrees(a, r, t, at) ==
  /\ MayAnswer(a, r, t, "WAITING_SELECTED_TEAMS")
  /\ at < request[r].deadline
  /\ Answer(r, t, TRUE)
  /\ IF StillAsked(r, t)
     THEN UNCHANGED <<game, request, reservation>>
     ELSE MoveOn(r, request[r], "WAITING_ADMIN_FINAL")
  /\ UNCHANGED <<now, leader>>

RespondToOpponent(a, r, t, at) ==
  \/ AnswerTooLate(a, r, t, "WAITING_OPPONENT", at)
  \/ AnswerNo(a, r, t, "WAITING_OPPONENT", at)
  \/ OpponentAgrees(a, r, t, at)

RespondAsSelectedTeam(a, r, t, at) ==
  \/ AnswerTooLate(a, r, t, "WAITING_SELECTED_TEAMS", at)
  \/ AnswerNo(a, r, t, "WAITING_SELECTED_TEAMS", at)
  \/ SelectedTeamAgrees(a, r, t, at)

(* withdraw_request: whoever now leads the requesting team may withdraw. *)
Withdraw(a, r) ==
  /\ request[r].status \in Waiting
  /\ Leads(a, request[r].team)
  /\ Release(r, request[r], "WITHDRAWN")
  /\ UNCHANGED <<now, confirmation, leader>>

-----------------------------------------------------------------------------
(* The commands of the superadmins.  The classification an administrator   *)
(* gives; "DEFAULT" is a client that sends none.                           *)

Classified(r, given) ==
  IF given = "DEFAULT" /\ request[r].type = "CROSS_WEEK" THEN "CROSS_ROUND" ELSE given

MayDecide(r, given) ==
  /\ request[r].status = "WAITING_ADMIN_DECISION"
  /\ request[r].route = "HANDBOOK_REVIEW"
  /\ Classified(r, given) \in ReviewClassification
  /\ Classified(r, given) = "ORDINARY" => request[r].type = "SAME_WEEK"

DecidedUnclassified(r, given) == request[r]
Decided(r, given) == [request[r] EXCEPT !.class = Classified(r, given)]

(* admin_decide_review_route, action approve, reject or vote. *)
AdminApproves(r, given) ==
  /\ MayDecide(r, given)
  /\ Approve(r, Decided(r, given))
  /\ UNCHANGED <<now, confirmation, leader>>

AdminRejects(r, given) ==
  /\ MayDecide(r, given)
  /\ Classified(r, given) # "ORDINARY"
  /\ Release(r, Decided(r, given), "REJECTED")
  /\ UNCHANGED <<now, confirmation, leader>>

AdminCallsVote(r, given, selected, at) ==
  /\ MayDecide(r, given)
  /\ Classified(r, given) # "ORDINARY"
  /\ at < request[r].deadline
  /\ selected # {} /\ selected \subseteq EligibleVoters(request[r].game)
  /\ confirmation' = [confirmation EXCEPT ![r] =
       [t \in Team |-> IF t \in selected THEN "PENDING" ELSE confirmation[r][t]]]
  /\ MoveOn(r, Decided(r, given), "WAITING_SELECTED_TEAMS")
  /\ UNCHANGED <<now, leader>>

(* admin_final_decision *)
AdminFinallyApproves(r) ==
  /\ request[r].status = "WAITING_ADMIN_FINAL"
  /\ Approve(r, request[r])
  /\ UNCHANGED <<now, confirmation, leader>>

AdminFinallyRejects(r) ==
  /\ request[r].status = "WAITING_ADMIN_FINAL"
  /\ Release(r, request[r], "REJECTED")
  /\ UNCHANGED <<now, confirmation, leader>>

AdminCancels(r) ==
  /\ request[r].status \in Waiting
  /\ Release(r, request[r], "ADMIN_CANCELLED")
  /\ UNCHANGED <<now, confirmation, leader>>

-----------------------------------------------------------------------------
(* The expiry worker: expire_due_confirmations lists the due requests and  *)
(* expire_request checks each again in its own transaction.                *)
ExpireAnyWaiting(r, at) ==
  /\ request[r].status \in Waiting
  /\ at >= request[r].deadline
  /\ Release(r, request[r], "EXPIRED")
  /\ UNCHANGED <<now, confirmation, leader>>
ExpireOpponentOnly(r, at) ==
  /\ request[r].status = "WAITING_OPPONENT"
  /\ at >= request[r].deadline
  /\ Release(r, request[r], "EXPIRED")
  /\ UNCHANGED <<now, confirmation, leader>>
ExpireRequest(r, at) ==
  /\ request[r].status \in TeamWaiting
  /\ at >= request[r].deadline
  /\ Release(r, request[r], "EXPIRED")
  /\ UNCHANGED <<now, confirmation, leader>>

-----------------------------------------------------------------------------
(* What the rest of the system does to the same rows. *)

(* publish_scoresheet: a result is published (again) for a game that is    *)
(* neither voided nor forfeited, whether or not a request is running.      *)
PublishResult(g) ==
  /\ game[g].status \notin {"FORFEIT", "VOID"}
  /\ game[g].version < MaxGameVersion
  /\ game' = [game EXCEPT ![g] =
       [game[g] EXCEPT !.status = "COMPLETED", !.version = game[g].version + 1]]
  /\ UNCHANGED <<now, request, reservation, confirmation, leader>>

(* transfer_leader_binding: a replaces the leader of t and gives up the    *)
(* team it led. *)
TransferLeader(a, t) ==
  /\ ~ Leads(a, t)
  /\ leader' = [u \in Team |-> IF u = t THEN a ELSE IF Leads(a, u) THEN NoAccount ELSE leader[u]]
  /\ UNCHANGED <<now, game, request, reservation, confirmation>>

ReleaseLeader(t) ==
  /\ leader[t] # NoAccount
  /\ leader' = [leader EXCEPT ![t] = NoAccount]
  /\ UNCHANGED <<now, game, request, reservation, confirmation>>

Tick ==
  /\ now < Horizon
  /\ now' = now + 1
  /\ UNCHANGED <<game, request, reservation, confirmation, leader>>

-----------------------------------------------------------------------------
(* Safety. *)

Live(r) == request[r] # NoRow

(* A court is never promised twice: no two games to be played, and no game *)
(* and kept slot, share a slot and a court (_first_available_venue, the    *)
(* move of _approve_request).                                              *)
VenueExclusive ==
  \A g \in Game : game[g].status # "VOID" =>
    /\ \A h \in Game \ {g} : game[h].status # "VOID" => ~ SamePlace(game[g], game[h])
    /\ \A q \in Reservation :
         reservation[q].status = "ACTIVE" => ~ SamePlace(game[g], reservation[q])

(* No team is due on two courts at once, counting the slots kept for       *)
(* running requests (_validate_target_team_conflicts; approval does not    *)
(* look again).                                                            *)
TeamExclusive ==
  /\ \A g, h \in Game :
       /\ g # h /\ game[g].slot = game[h].slot
       /\ game[g].status # "VOID" /\ game[h].status # "VOID"
       => Teams(g) \cap Teams(h) = {}
  /\ \A r \in Request : reservation[r].status = "ACTIVE" =>
       /\ \A h \in GamesAt(reservation[r].slot) : Teams(request[r].game) \cap Teams(h) = {}
       /\ \A q \in Request \ {r} :
            reservation[q].status = "ACTIVE" /\ reservation[q].slot = reservation[r].slot
            => Teams(request[r].game) \cap Teams(request[q].game) = {}

(* Games and kept slots never exceed what the season allows in a slot,     *)
(* although approval does not count again.                                 *)
WithinCapacity == \A s \in Slot : Occupancy(s) <= Capacity[s]

(* A running request holds the lock of its game and its target slot the    *)
(* whole time, and nothing else holds either (docs/RESCHEDULING.md:        *)
(* every non-terminal state keeps the lock and the reservation, every end  *)
(* but approval releases them).                                            *)
LockHeld ==
  /\ \A r \in Request, g \in Game :
       game[g].lock = r <=> (Live(r) /\ request[r].game = g /\ request[r].status \in Waiting)
  /\ \A r \in Request : Live(r) =>
       /\ request[r].status \in Waiting <=> reservation[r].status = "ACTIVE"
       /\ request[r].status \in Failed => reservation[r].status = "RELEASED"
       /\ request[r].status \in Waiting => SamePlace(request[r], reservation[r])

(* A game has at most one allocation, and it is the place where the game   *)
(* is: what _approve_request gives up is what the game leaves.             *)
AllocationFollowsGame ==
  \A q \in Reservation : reservation[q].status = "CONVERTED" =>
    /\ reservation[q].game # NoGame
    /\ SamePlace(game[reservation[q].game], reservation[q])
    /\ game[reservation[q].game].status # "VOID"
    /\ \A p \in Reservation \ {q} :
         reservation[p].status = "CONVERTED" => reservation[p].game # reservation[q].game

(* The unique constraint on occupying reservations is never what stops a   *)
(* command: the court that submit_reschedule picks is free for the         *)
(* database as well, although it does not look at CONVERTED rows, and a    *)
(* running request can always be approved.                                 *)
DatabaseAgrees ==
  /\ \A s \in Slot, v \in Venue : v \notin OccupiedVenues(s) =>
       \A q \in Reservation : Occupying(q) => ~ SamePlace(reservation[q], [slot |-> s, venue |-> v])
  /\ \A r \in Request : request[r].status \in Waiting => Approvable(r, request[r].game)

(* Places are in order: no court is promised twice, no slot is overfull.   *)
PlacesInOrder == VenueExclusive /\ WithinCapacity

(* The ledger agrees: requests, locks, reservations and games name each    *)
(* other, so no command is stopped by the database.                        *)
LedgerAgrees == LockHeld /\ AllocationFollowsGame /\ DatabaseAgrees

(* Nobody is overruled: past the first answer the opponent has agreed, the *)
(* final decision is taken only after every selected team agreed, and a    *)
(* refusal ends the request.                                               *)
NobodyOverruled ==
  \A r \in Request : Live(r) =>
    LET opponent == OpponentTeam(request[r].game, request[r].team)
        answers == {confirmation[r][t] : t \in Voters(r)}
    IN /\ request[r].status \in AdminWaiting \cup {"WAITING_SELECTED_TEAMS", "APPROVED"}
          => confirmation[r][opponent] = "ACCEPTED"
       /\ request[r].status = "WAITING_ADMIN_FINAL" => answers = {"ACCEPTED"}
       /\ request[r].status = "APPROVED" => answers \subseteq {"ACCEPTED"}
       /\ request[r].status = "WAITING_SELECTED_TEAMS" => "PENDING" \in answers
       /\ request[r].status \in Waiting => "REJECTED" \notin answers

(* The check constraints of the reschedule_request table hold, so no       *)
(* command is stopped by one: an approval in the handbook route is always  *)
(* classified, a request that crosses weeks is never ordinary, and only    *)
(* cross-round requests are voted on.                                      *)
SchemaConstraints ==
  \A r \in Request : Live(r) =>
    LET row == request[r] IN
    /\ row.type = "CROSS_WEEK" => row.route = "HANDBOOK_REVIEW"
    /\ row.class = "ORDINARY" => row.type = "SAME_WEEK" /\ row.status = "APPROVED"
    /\ row.class # NoClassification =>
         /\ row.route = "HANDBOOK_REVIEW"
         /\ row.status \notin {"WAITING_OPPONENT", "WAITING_ADMIN_DECISION"}
    /\ row.status \in {"WAITING_SELECTED_TEAMS", "WAITING_ADMIN_FINAL"} =>
         row.class = "CROSS_ROUND"
    /\ row.status \in Waiting \ {"WAITING_OPPONENT"} => row.route = "HANDBOOK_REVIEW"
    /\ row.status = "APPROVED" /\ row.route = "HANDBOOK_REVIEW" => row.class # NoClassification

(* A repeated create command is recognised by its game and the version it  *)
(* was sent for (canonical_reschedule_create_fingerprint): no two requests *)
(* share them, and none was sent for a version still to come.              *)
FingerprintIdentifies ==
  \A r \in Request : Live(r) =>
    /\ request[r].gameVersion < game[request[r].game].version
    /\ \A q \in Request \ {r} :
         Live(q) /\ request[q].game = request[r].game
         => request[q].gameVersion # request[r].gameVersion

(* A slot that the preview offers is one that submit_reschedule accepts at *)
(* that moment, and every other slot is one it refuses, although the two   *)
(* compute conflicts, capacity and courts separately.                      *)
PreviewHonest ==
  \A a \in Account, g \in Game, asked \in ProcessRoute \cup {"DEFAULT"} :
    OfferedTargets(a, g, asked) =
      {s \in Slot : \E t \in Teams(g), v \in Venue, r \in Request :
         /\ SubmitAllowed(a, t, g, s, asked, now) /\ FirstAvailableVenue(s, v)
         /\ NobodyElseAt(r, [slot |-> s, venue |-> v])}

-----------------------------------------------------------------------------
(* The season has just been published: its schedule was validated by the   *)
(* import, some games were already given an allocation by a superadmin's   *)
(* edit, and nobody has asked for anything.                                *)

StartGame == [slot : Slot, venue : Venue \cup Hall, status : {"SCHEDULED", "VOID"},
              lock : {NoRequest}, version : {1}]

Init ==
  /\ now = 0
  /\ game \in [Game -> StartGame]
  /\ \A g \in Game : game[g].slot = StartSlot[g] /\ (game[g].status = "VOID" => g \in MaybeVoid)
  /\ request = [r \in Request |-> NoRow]
  /\ \E allocated \in SUBSET {g \in Game : game[g].status # "VOID" /\ game[g].venue \in Venue} :
       reservation = [q \in Reservation |->
         IF q \in allocated
         THEN [status |-> "CONVERTED", slot |-> game[q].slot, venue |-> game[q].venue, game |-> q]
         ELSE NoRow]
  /\ confirmation = [r \in Request |-> [t \in Team |-> NotAsked]]
  /\ leader = StartLeader
  /\ VenueExclusive /\ TeamExclusive /\ WithinCapacity

(* A leader's, a superadmin's and the worker's steps on the request r. *)
LeaderStep(r) ==
  \E a \in Account, t \in Team, at \in Readings :
    \/ \E g \in Game, s \in Slot, v \in Venue, asked \in ProcessRoute \cup {"DEFAULT"} :
         Submit(r, a, t, g, s, v, asked, at)
    \/ RespondToOpponent(a, r, t, at)
    \/ RespondAsSelectedTeam(a, r, t, at)
    \/ Withdraw(a, r)

AdminStep(r) ==
  \/ \E given \in ReviewClassification \cup {"DEFAULT"} :
       \/ AdminApproves(r, given)
       \/ AdminRejects(r, given)
       \/ \E selected \in SUBSET Team, at \in Readings : AdminCallsVote(r, given, selected, at)
  \/ AdminFinallyApproves(r)
  \/ AdminFinallyRejects(r)
  \/ AdminCancels(r)

WorkerStep(r) == \E at \in Readings : ExpireRequest(r, at)

Next ==
  \/ \E r \in Request : LeaderStep(r) \/ AdminStep(r) \/ WorkerStep(r)
  \/ \E g \in Game : PublishResult(g)
  \/ \E pair \in Appointments :
       IF pair[1] = NoAccount THEN ReleaseLeader(pair[2]) ELSE TransferLeader(pair[1], pair[2])
  \/ Tick

(* The worker runs every thirty seconds and the clock does not stop;       *)
(* nothing makes a person act.                                             *)
Fairness == WF_vars(Tick) /\ \A r \in Request : WF_vars(WorkerStep(r))

Spec == Init /\ [][Next]_vars
FairSpec == Spec /\ Fairness

-----------------------------------------------------------------------------
(* What a step may do. *)

(* An official game only ever moves because a request for it was approved, *)
(* and then to the place kept for that request.                            *)
GameMovesByConsent ==
  [][\A g \in Game : ~ SamePlace(game'[g], game[g]) =>
       \E r \in Request :
         /\ request[r].status \in Waiting /\ request'[r].status = "APPROVED"
         /\ request[r].game = g /\ SamePlace(game'[g], request[r])]_vars

(* What is decided stays decided, only requests that wait for a team       *)
(* expire, and not before their deadline.                                  *)
DecisionsLast ==
  [][\A r \in Request : request'[r] # request[r] =>
       /\ request[r].status \notin Terminal
       /\ request'[r].status = "EXPIRED" =>
            request[r].status \in TeamWaiting /\ now >= request[r].deadline]_vars

(* The versions that commands carry tell apart the states they decide on:  *)
(* no status and no game row changes under an unchanged version, so a      *)
(* caller who saw an older state is refused.                               *)
VersionsTell ==
  [][/\ \A r \in Request : Live(r) /\ request'[r].status # request[r].status
          => request'[r].version = request[r].version + 1
     /\ \A g \in Game : game'[g] # game[g] => game'[g].version = game[g].version + 1]_vars

(* Decisions stand: none is taken back, none is made for a state its maker  *)
(* did not see.                                                            *)
DecisionsStand == DecisionsLast /\ VersionsTell

(* A request never waits for a team for ever: somebody decides, or the     *)
(* worker expires it and its slot is free again.                           *)
TeamWaitEnds ==
  \A r \in Request :
    request[r].status \in TeamWaiting ~> request[r].status \notin TeamWaiting

(* The service implements the booking of courts. *)
PlaceOf(row) == <<row.slot, row.venue>>
Booking == INSTANCE CourtBooking WITH
  Place <- Slot \X (Venue \cup Hall),
  booking <- [g \in Game |-> IF game[g].status = "VOID" THEN NoPlace ELSE PlaceOf(game[g])],
  option <- [g \in Game |->
    IF game[g].lock = NoRequest THEN NoPlace ELSE PlaceOf(request[game[g].lock])]
BookingImplemented == Booking!BookingSpec
=============================================================================
