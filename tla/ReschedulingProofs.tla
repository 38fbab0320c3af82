------------------------- MODULE ReschedulingProofs -------------------------
(***************************************************************************)
(* Proofs about Rescheduling, for every tournament that satisfies its      *)
(* assumptions.  Whatever command runs, what it does to games, requests    *)
(* and reservations is one of five shapes; the invariants are proved shape *)
(* by shape.  Then comes the negotiation itself, which the shapes forget,  *)
(* then the safety invariants, each inductive together with TypeOK and     *)
(* those proved before it.  The last section shows that Rescheduling       *)
(* implements CourtBooking.                                                *)
(***************************************************************************)
EXTENDS Rescheduling, FiniteSetTheorems, TLAPS

(* The request as a command may have changed it in memory: at most its     *)
(* classification differs from the stored row.                             *)
Revised(row, r) ==
  \E class \in ReviewClassification \cup {NoClassification} :
    row = [request[r] EXCEPT !.class = class]

Submitting ==
  \E r \in Request, a \in Account, t \in Team, g \in Game, s \in Slot, v \in Venue,
     asked \in ProcessRoute \cup {"DEFAULT"}, at \in Readings :
    Submit(r, a, t, g, s, v, asked, at)

Releasing ==
  \E r \in Request, outcome \in Failed, row \in RequestRow :
    request[r].status \in Waiting /\ Revised(row, r) /\ Release(r, row, outcome)

Approving ==
  \E r \in Request, row \in RequestRow :
    request[r].status \in Waiting /\ Revised(row, r) /\ Approve(r, row)

MovingOn ==
  \E r \in Request, status \in Waiting, row \in RequestRow :
    request[r].status \in Waiting /\ Revised(row, r) /\ MoveOn(r, row, status)

Publishing == \E g \in Game : PublishResult(g)

Idle == UNCHANGED <<game, request, reservation>>

Shape == Submitting \/ Releasing \/ Approving \/ MovingOn \/ Publishing \/ Idle

-----------------------------------------------------------------------------
(* Facts about rows. *)

LEMMA WaitingRow ==
  ASSUME TypeOK, NEW r \in Request, request[r].status \in Waiting \cup Terminal
  PROVE  request[r] \in RequestRow
BY DEF TypeOK, NoRow, Waiting, TeamWaiting, AdminWaiting, Terminal, Failed

LEMMA RevisedRow ==
  ASSUME TypeOK, NEW r \in Request, request[r].status \in Waiting, NEW row, Revised(row, r)
  PROVE  /\ row \in RequestRow
         /\ row.status = request[r].status /\ row.game = request[r].game
         /\ row.team = request[r].team /\ row.slot = request[r].slot
         /\ row.venue = request[r].venue /\ row.version = request[r].version
         /\ row.gameVersion = request[r].gameVersion
         /\ row.type = request[r].type /\ row.route = request[r].route
BY WaitingRow DEF Revised, RequestRow

LEMMA SameRowRevised ==
  ASSUME TypeOK, NEW r \in Request, request[r].status \in Waiting
  PROVE  request[r] \in RequestRow /\ Revised(request[r], r)
<1>1. request[r] \in RequestRow
  BY WaitingRow
<1>2. request[r] = [request[r] EXCEPT !.class = request[r].class]
  BY <1>1 DEF RequestRow
<1> QED
  BY <1>1, <1>2 DEF Revised, RequestRow

(* Every step has one of the shapes. *)
LEMMA StepShape ==
  ASSUME TypeOK, Next
  PROVE  Shape
<1> USE DEF Waiting, TeamWaiting, AdminWaiting, Failed
<1>1. ASSUME NEW r \in Request, LeaderStep(r)
      PROVE  Shape
  <2> PICK a \in Account, t \in Team, at \in Readings :
        \/ \E g \in Game, s \in Slot, v \in Venue, asked \in ProcessRoute \cup {"DEFAULT"} :
             Submit(r, a, t, g, s, v, asked, at)
        \/ RespondToOpponent(a, r, t, at)
        \/ RespondAsSelectedTeam(a, r, t, at)
        \/ Withdraw(a, r)
    BY <1>1 DEF LeaderStep
  <2>1. CASE \E g \in Game, s \in Slot, v \in Venue, asked \in ProcessRoute \cup {"DEFAULT"} :
               Submit(r, a, t, g, s, v, asked, at)
    BY <2>1 DEF Submitting, Shape
  <2>2. ASSUME NEW status \in TeamWaiting,
               AnswerTooLate(a, r, t, status, at) \/ AnswerNo(a, r, t, status, at)
        PROVE  Shape
    <3>1. request[r].status \in Waiting
      BY <2>2 DEF AnswerTooLate, AnswerNo, MayAnswer
    <3>2. request[r] \in RequestRow /\ Revised(request[r], r)
      BY <3>1, SameRowRevised
    <3> QED
      BY <2>2, <3>1, <3>2 DEF AnswerTooLate, AnswerNo, Releasing, Shape
  <2>3. CASE OpponentAgrees(a, r, t, at)
    <3>1. request[r].status \in Waiting
      BY <2>3 DEF OpponentAgrees, MayAnswer
    <3>2. request[r] \in RequestRow /\ Revised(request[r], r)
      BY <3>1, SameRowRevised
    <3> QED
      BY <2>3, <3>1, <3>2 DEF OpponentAgrees, Approving, MovingOn, Shape
  <2>4. CASE SelectedTeamAgrees(a, r, t, at)
    <3>1. request[r].status \in Waiting
      BY <2>4 DEF SelectedTeamAgrees, MayAnswer
    <3>2. request[r] \in RequestRow /\ Revised(request[r], r)
      BY <3>1, SameRowRevised
    <3> QED
      BY <2>4, <3>1, <3>2 DEF SelectedTeamAgrees, MovingOn, Idle, Shape
  <2>5. CASE Withdraw(a, r)
    <3>1. request[r].status \in Waiting
      BY <2>5 DEF Withdraw
    <3>2. request[r] \in RequestRow /\ Revised(request[r], r)
      BY <3>1, SameRowRevised
    <3> QED
      BY <2>5, <3>1, <3>2 DEF Withdraw, Releasing, Shape
  <2> QED
    BY <2>1, <2>2, <2>3, <2>4, <2>5 DEF RespondToOpponent, RespondAsSelectedTeam
<1>2. ASSUME NEW r \in Request, AdminStep(r) \/ WorkerStep(r)
      PROVE  Shape
  <2>1. ASSUME NEW given \in ReviewClassification \cup {"DEFAULT"}, MayDecide(r, given)
        PROVE  /\ request[r].status \in Waiting /\ Revised(Decided(r, given), r)
               /\ Decided(r, given) \in RequestRow
    <3>1. request[r].status \in Waiting /\ Revised(Decided(r, given), r)
      BY <2>1 DEF MayDecide, Decided, Revised
    <3> QED
      BY <3>1, RevisedRow
  <2>2. CASE \E given \in ReviewClassification \cup {"DEFAULT"} : AdminApproves(r, given)
    BY <2>1, <2>2 DEF AdminApproves, Approving, Shape
  <2>3. CASE \E given \in ReviewClassification \cup {"DEFAULT"} : AdminRejects(r, given)
    BY <2>1, <2>3 DEF AdminRejects, Releasing, Shape
  <2>4. CASE \E given \in ReviewClassification \cup {"DEFAULT"} :
               \E selected \in SUBSET Team, at \in Readings : AdminCallsVote(r, given, selected, at)
    BY <2>1, <2>4 DEF AdminCallsVote, MovingOn, Shape
  <2>5. CASE \/ AdminFinallyApproves(r) \/ AdminFinallyRejects(r) \/ AdminCancels(r)
             \/ WorkerStep(r)
    <3>1. request[r].status \in Waiting
      BY <2>5 DEF AdminFinallyApproves, AdminFinallyRejects, AdminCancels, WorkerStep, ExpireRequest
    <3>2. request[r] \in RequestRow /\ Revised(request[r], r)
      BY <3>1, SameRowRevised
    <3> QED
      BY <2>5, <3>1, <3>2 DEF AdminFinallyApproves, AdminFinallyRejects, AdminCancels,
                              WorkerStep, ExpireRequest, Approving, Releasing, Shape
  <2> QED
    BY <1>2, <2>2, <2>3, <2>4, <2>5 DEF AdminStep
<1>3. CASE \E g \in Game : PublishResult(g)
  BY <1>3 DEF Publishing, Shape
<1>4. CASE \E pair \in Appointments :
             IF pair[1] = NoAccount THEN ReleaseLeader(pair[2]) ELSE TransferLeader(pair[1], pair[2])
  BY <1>4 DEF ReleaseLeader, TransferLeader, Idle, Shape
<1>5. CASE Tick
  BY <1>5 DEF Tick, Idle, Shape
<1> QED
  BY <1>1, <1>2, <1>3, <1>4, <1>5 DEF Next

-----------------------------------------------------------------------------
(* Types. *)

LEMMA SubmittedRowTyped ==
  ASSUME TypeOK, NEW g \in Game, NEW t \in Team, NEW s \in Slot, NEW v \in Venue,
         NEW asked \in ProcessRoute \cup {"DEFAULT"}
  PROVE  /\ SubmittedRow(g, t, s, v, asked) \in RequestRow
         /\ SubmittedRow(g, t, s, v, asked).status = "WAITING_OPPONENT"
         /\ SubmittedRow(g, t, s, v, asked).game = g
         /\ SubmittedRow(g, t, s, v, asked).slot = s
         /\ SubmittedRow(g, t, s, v, asked).venue = v
         /\ SubmittedRow(g, t, s, v, asked).gameVersion = game[g].version
<1> DEFINE from == Day[game[g].slot]
           type == DateRelation(from, Day[s])
<1>1. from \in Int /\ Day[s] \in Int /\ game[g].version \in Nat
  BY CalendarAssumption DEF TypeOK, GameRow
<1>2. type \in RequestType
  BY DEF DateRelation, RequestType
<1>3. ResolvedRoute(asked, type) \in ProcessRoute
  BY DEF ResolvedRoute, ProcessRoute
<1>4. ConfirmationDeadline(from, Day[s]) \in Int
  BY <1>1 DEF ConfirmationDeadline, DeadlineFor, Earlier
<1> HIDE DEF from, type
<1>5. /\ type = DateRelation(Day[game[g].slot], Day[s])
      /\ from = Day[game[g].slot]
  BY DEF from, type
<1> QED
  BY <1>1, <1>2, <1>3, <1>4, <1>5
  DEF SubmittedRow, RequestRow, Waiting, TeamWaiting, NoClassification

LEMMA AdvancedTyped ==
  ASSUME NEW row \in RequestRow, NEW status \in Waiting \cup Terminal
  PROVE  /\ Advanced(row, status) \in RequestRow
         /\ Advanced(row, status).status = status
         /\ Advanced(row, status).game = row.game
         /\ Advanced(row, status).slot = row.slot
         /\ Advanced(row, status).venue = row.venue
         /\ Advanced(row, status).gameVersion = row.gameVersion
         /\ Advanced(row, status).version = row.version + 1
<1>1. row.version + 1 \in Nat
  BY DEF RequestRow
<1> QED
  BY <1>1 DEF Advanced, RequestRow

LEMMA PublishedTyped ==
  ASSUME NEW row \in GameRow
  PROVE  [row EXCEPT !.status = "COMPLETED", !.version = row.version + 1] \in GameRow
<1>1. row.version + 1 \in Nat
  BY DEF GameRow
<1> QED
  BY <1>1 DEF GameRow

LEMMA UnlockedTyped ==
  ASSUME NEW row \in GameRow, NEW r \in Request
  PROVE  Unlocked(row, r) \in GameRow
<1>1. row.version + 1 \in Nat
  BY DEF GameRow
<1> QED
  BY <1>1 DEF Unlocked, GameRow

(* What the other transactions make of a game row. *)
LEMMA GameRows ==
  ASSUME NEW row \in GameRow, NEW r \in Request, NEW place \in ReservationRow
  PROVE  /\ Locked(row, r) \in GameRow
         /\ Moved(row, place) \in GameRow
<1>1. row.version + 1 \in Nat
  BY DEF GameRow
<1>2. NoRequest \in Request \cup {NoRequest} /\ r \in Request \cup {NoRequest}
  OBVIOUS
<1>3. place.slot \in Slot /\ place.venue \in Venue \cup Hall
  BY DEF ReservationRow
<1>4. Locked(row, r) \in GameRow
  BY <1>1, <1>2 DEF Locked, GameRow
<1>5. Moved(row, place) \in GameRow
  BY <1>1, <1>2, <1>3 DEF Moved, GameRow
<1> QED
  BY <1>4, <1>5

LEMMA RowsTyped ==
  ASSUME TypeOK, Shape
  PROVE  /\ game' \in [Game -> GameRow]
         /\ request' \in [Request -> RequestRow \cup {NoRow}]
         /\ reservation' \in [Reservation -> ReservationRow \cup {NoRow}]
<1> USE DEF TypeOK
<1>1. CASE Submitting
  <2> PICK r \in Request, a \in Account, t \in Team, g \in Game, s \in Slot, v \in Venue,
           asked \in ProcessRoute \cup {"DEFAULT"}, at \in Readings :
             Submit(r, a, t, g, s, v, asked, at)
    BY <1>1 DEF Submitting
  <2>1. SubmittedRow(g, t, s, v, asked) \in RequestRow
    BY SubmittedRowTyped
  <2>2. [status |-> "ACTIVE", slot |-> s, venue |-> v, game |-> NoGame] \in ReservationRow
    BY DEF ReservationRow
  <2>3. Locked(game[g], r) \in GameRow
    BY <2>2, GameRows
  <2> QED
    BY <2>1, <2>2, <2>3 DEF Submit, Reservation
<1>2. CASE Releasing
  <2> PICK r \in Request, outcome \in Failed, row \in RequestRow :
             request[r].status \in Waiting /\ Revised(row, r) /\ Release(r, row, outcome)
    BY <1>2 DEF Releasing
  <2>1. row \in RequestRow /\ row.game \in Game
    BY RevisedRow, WaitingRow DEF RequestRow
  <2>2. Advanced(row, outcome) \in RequestRow
    BY <2>1, AdvancedTyped DEF Terminal
  <2>3. Unlocked(game[row.game], r) \in GameRow
    BY <2>1, UnlockedTyped
  <2>4. GivenBack(reservation[r]) \in ReservationRow \cup {NoRow}
    <3>1. CASE reservation[r] = NoRow
      BY <3>1 DEF GivenBack, NoRow
    <3>2. CASE reservation[r] \in ReservationRow
      BY <3>2 DEF GivenBack, ReservationRow
    <3> QED
      BY <3>1, <3>2 DEF Reservation
  <2> QED
    BY <2>1, <2>2, <2>3, <2>4 DEF Release, Reservation
<1>3. CASE Approving
  <2> PICK r \in Request, row \in RequestRow :
             request[r].status \in Waiting /\ Revised(row, r) /\ Approve(r, row)
    BY <1>3 DEF Approving
  <2>1. row \in RequestRow /\ row.game \in Game
    BY RevisedRow, WaitingRow DEF RequestRow
  <2>2. Advanced(row, "APPROVED") \in RequestRow
    BY <2>1, AdvancedTyped DEF Terminal
  <2>3. reservation[r] \in ReservationRow
    BY DEF Approve, Approvable, NoRow, Reservation
  <2>4. Moved(game[row.game], reservation[r]) \in GameRow
    BY <2>1, <2>3, GameRows
  <2>5. ASSUME NEW q \in Reservation
        PROVE  Converted(q, r, row.game) \in ReservationRow \cup {NoRow}
    <3>1. CASE q = r
      BY <3>1, <2>1, <2>3 DEF Converted, ReservationRow
    <3>2. CASE q # r /\ reservation[q] = NoRow
      BY <3>2 DEF Converted, NoRow
    <3>3. CASE q # r /\ reservation[q] \in ReservationRow
      BY <3>3 DEF Converted, ReservationRow
    <3> QED
      BY <3>1, <3>2, <3>3
  <2> QED
    BY <2>1, <2>2, <2>4, <2>5 DEF Approve
<1>4. CASE MovingOn
  <2> PICK r \in Request, status \in Waiting, row \in RequestRow :
             request[r].status \in Waiting /\ Revised(row, r) /\ MoveOn(r, row, status)
    BY <1>4 DEF MovingOn
  <2>1. Advanced(row, status) \in RequestRow
    BY RevisedRow, AdvancedTyped
  <2> QED
    BY <2>1 DEF MoveOn
<1>5. CASE Publishing
  <2> PICK g \in Game : PublishResult(g)
    BY <1>5 DEF Publishing
  <2>1. [game[g] EXCEPT !.status = "COMPLETED", !.version = game[g].version + 1] \in GameRow
    BY PublishedTyped
  <2> QED
    BY <2>1 DEF PublishResult
<1> QED
  BY <1>1, <1>2, <1>3, <1>4, <1>5 DEF Shape, Idle

LEMMA OthersTyped ==
  ASSUME TypeOK, Next
  PROVE  /\ now' \in Nat
         /\ confirmation' \in [Request -> [Team -> Response \cup {NotAsked}]]
         /\ leader' \in [Team -> Account \cup {NoAccount}]
<1> USE DEF TypeOK
<1>1. ASSUME NEW r \in Request, LeaderStep(r) \/ AdminStep(r) \/ WorkerStep(r)
      PROVE  now' = now /\ leader' = leader
  <2>1. CASE LeaderStep(r)
    <3> PICK a \in Account, t \in Team, at \in Readings :
          \/ \E g \in Game, s \in Slot, v \in Venue, asked \in ProcessRoute \cup {"DEFAULT"} :
               Submit(r, a, t, g, s, v, asked, at)
          \/ RespondToOpponent(a, r, t, at)
          \/ RespondAsSelectedTeam(a, r, t, at)
          \/ Withdraw(a, r)
      BY <2>1 DEF LeaderStep
    <3>1. CASE \E g \in Game, s \in Slot, v \in Venue, asked \in ProcessRoute \cup {"DEFAULT"} :
                 Submit(r, a, t, g, s, v, asked, at)
      BY <3>1 DEF Submit
    <3>2. CASE RespondToOpponent(a, r, t, at) \/ RespondAsSelectedTeam(a, r, t, at) \/ Withdraw(a, r)
      BY <3>2 DEF RespondToOpponent, RespondAsSelectedTeam, Withdraw,
         AnswerTooLate, AnswerNo, OpponentAgrees, SelectedTeamAgrees
    <3> QED
      BY <3>1, <3>2
  <2>2. CASE AdminStep(r) \/ WorkerStep(r)
    BY <2>2 DEF AdminStep, WorkerStep, AdminApproves, AdminRejects, AdminCallsVote,
       AdminFinallyApproves, AdminFinallyRejects, AdminCancels, ExpireRequest
  <2> QED
    BY <1>1, <2>1, <2>2
<1>2. ASSUME NEW r \in Request, LeaderStep(r)
      PROVE  confirmation' \in [Request -> [Team -> Response \cup {NotAsked}]]
  <2>1. ASSUME NEW t \in Team, NEW accept \in BOOLEAN, Answer(r, t, accept)
        PROVE  confirmation' \in [Request -> [Team -> Response \cup {NotAsked}]]
    BY <2>1 DEF Answer, Response
  <2>2. ASSUME NEW g \in Game, NEW t \in Team
        PROVE  OpponentTeam(g, t) \in Team
    BY SeasonAssumption DEF OpponentTeam
  <2> PICK a \in Account, t \in Team, at \in Readings :
        \/ \E g \in Game, s \in Slot, v \in Venue, asked \in ProcessRoute \cup {"DEFAULT"} :
             Submit(r, a, t, g, s, v, asked, at)
        \/ RespondToOpponent(a, r, t, at)
        \/ RespondAsSelectedTeam(a, r, t, at)
        \/ Withdraw(a, r)
    BY <1>2 DEF LeaderStep
  <2>3. CASE \E g \in Game, s \in Slot, v \in Venue, asked \in ProcessRoute \cup {"DEFAULT"} :
               Submit(r, a, t, g, s, v, asked, at)
    BY <2>3, <2>2 DEF Submit, Response
  <2>4. CASE RespondToOpponent(a, r, t, at) \/ RespondAsSelectedTeam(a, r, t, at) \/ Withdraw(a, r)
    BY <2>4, <2>1 DEF RespondToOpponent, RespondAsSelectedTeam, Withdraw,
       AnswerTooLate, AnswerNo, OpponentAgrees, SelectedTeamAgrees
  <2> QED
    BY <2>3, <2>4
<1>3. ASSUME NEW r \in Request, AdminStep(r) \/ WorkerStep(r)
      PROVE  confirmation' \in [Request -> [Team -> Response \cup {NotAsked}]]
  BY <1>3 DEF AdminStep, WorkerStep, AdminApproves, AdminRejects, AdminCallsVote,
     AdminFinallyApproves, AdminFinallyRejects, AdminCancels, ExpireRequest, Response
<1>4. CASE \E g \in Game : PublishResult(g)
  BY <1>4 DEF PublishResult
<1>5. CASE \E pair \in Appointments :
             IF pair[1] = NoAccount THEN ReleaseLeader(pair[2]) ELSE TransferLeader(pair[1], pair[2])
  BY <1>5, SeasonAssumption DEF ReleaseLeader, TransferLeader
<1>6. CASE Tick
  BY <1>6 DEF Tick
<1> QED
  BY <1>1, <1>2, <1>3, <1>4, <1>5, <1>6 DEF Next

LEMMA InitTyped == Init => TypeOK
<1> SUFFICES ASSUME Init PROVE TypeOK
  OBVIOUS
<1>1. game \in [Game -> GameRow]
  BY DEF Init, StartGame, GameRow
<1>2. reservation \in [Reservation -> ReservationRow \cup {NoRow}]
  <2> PICK allocated \in SUBSET {g \in Game : game[g].status # "VOID" /\ game[g].venue \in Venue} :
        reservation = [q \in Reservation |->
          IF q \in allocated
          THEN [status |-> "CONVERTED", slot |-> game[q].slot, venue |-> game[q].venue, game |-> q]
          ELSE NoRow]
    BY DEF Init
  <2> QED
    BY <1>1 DEF ReservationRow, GameRow
<1> QED
  BY <1>1, <1>2, SeasonAssumption DEF Init, TypeOK

LEMMA StepTyped ==
  ASSUME TypeOK, [Next]_vars
  PROVE  TypeOK'
<1>1. CASE Next
  BY <1>1, StepShape, RowsTyped, OthersTyped DEF TypeOK
<1>2. CASE UNCHANGED vars
  BY <1>2 DEF vars, TypeOK
<1> QED
  BY <1>1, <1>2

(* Every row the service writes is one that its table can hold: requests,  *)
(* reservations and games keep their types through every command.          *)
THEOREM TypeCorrect == Spec => []TypeOK
<1>1. TypeOK /\ [Next]_vars => TypeOK'
  BY StepTyped
<1> QED
  BY <1>1, InitTyped, PTL DEF Spec

-----------------------------------------------------------------------------
(* What each shape does, row by row. *)

LEMMA SubmitEffect ==
  ASSUME TypeOK, NEW r \in Request, NEW a \in Account, NEW t \in Team, NEW g \in Game,
         NEW s \in Slot, NEW v \in Venue, NEW asked \in ProcessRoute \cup {"DEFAULT"},
         NEW at \in Readings, Submit(r, a, t, g, s, v, asked, at)
  PROVE  /\ \A q \in Request \ {r} : request'[q] = request[q]
         /\ \A q \in Reservation \ {r} : reservation'[q] = reservation[q]
         /\ \A h \in Game \ {g} : game'[h] = game[h]
         /\ request[r] = NoRow /\ request'[r] \in RequestRow
         /\ request'[r].status = "WAITING_OPPONENT" /\ request'[r].game = g
         /\ request'[r].slot = s /\ request'[r].venue = v
         /\ request'[r].gameVersion = game[g].version
         /\ reservation'[r] =
              [status |-> "ACTIVE", slot |-> s, venue |-> v, game |-> NoGame]
         /\ game[g].lock = NoRequest /\ game[g].status = "SCHEDULED"
         /\ SamePlace(game'[g], game[g]) /\ game'[g].status = "SCHEDULED"
         /\ game'[g].lock = r /\ game'[g].version = game[g].version + 1
<1>1. /\ game'[g] = Locked(game[g], r)
      /\ request'[r] = SubmittedRow(g, t, s, v, asked)
      /\ reservation'[r] = [status |-> "ACTIVE", slot |-> s, venue |-> v, game |-> NoGame]
      /\ \A q \in Request \ {r} : request'[q] = request[q]
      /\ \A q \in Reservation \ {r} : reservation'[q] = reservation[q]
      /\ \A h \in Game \ {g} : game'[h] = game[h]
      /\ request[r] = NoRow
      /\ game[g].lock = NoRequest /\ game[g].status = "SCHEDULED"
  BY DEF Submit, SubmitAllowed, TypeOK, Reservation
<1>2. game[g] \in GameRow /\ game[g].version + 1 \in Nat
  BY DEF TypeOK, GameRow
<1>3. /\ SamePlace(Locked(game[g], r), game[g])
      /\ Locked(game[g], r).status = game[g].status
      /\ Locked(game[g], r).lock = r
      /\ Locked(game[g], r).version = game[g].version + 1
  BY <1>2 DEF Locked, GameRow, SamePlace
<1> QED
  BY <1>1, <1>3, SubmittedRowTyped

LEMMA ReleaseEffect ==
  ASSUME TypeOK, NEW r \in Request, NEW outcome \in Failed, NEW row,
         request[r].status \in Waiting, Revised(row, r), Release(r, row, outcome),
         NEW g, g = request[r].game
  PROVE  /\ g \in Game
         /\ \A q \in Request \ {r} : request'[q] = request[q]
         /\ \A q \in Reservation \ {r} : reservation'[q] = reservation[q]
         /\ \A h \in Game \ {g} : game'[h] = game[h]
         /\ request[r] \in RequestRow /\ request'[r] \in RequestRow
         /\ request'[r].status = outcome /\ request'[r].game = g
         /\ SamePlace(request'[r], request[r])
         /\ request'[r].gameVersion = request[r].gameVersion
         /\ reservation[r].status # "ACTIVE" => reservation'[r] = reservation[r]
         /\ reservation[r].status = "ACTIVE" => reservation'[r].status = "RELEASED"
         /\ SamePlace(game'[g], game[g]) /\ game'[g].status = game[g].status
         /\ game'[g].lock = IF game[g].lock = r THEN NoRequest ELSE game[g].lock
         /\ game'[g].version =
              IF game[g].lock = r THEN game[g].version + 1 ELSE game[g].version
<1>1. /\ row \in RequestRow /\ row.game = g /\ SamePlace(row, request[r])
      /\ row.gameVersion = request[r].gameVersion /\ g \in Game
      /\ request[r] \in RequestRow
  BY RevisedRow, WaitingRow DEF RequestRow, SamePlace
<1>2. /\ game'[g] = Unlocked(game[g], r)
      /\ request'[r] = Advanced(row, outcome)
      /\ reservation'[r] = GivenBack(reservation[r])
      /\ \A q \in Request \ {r} : request'[q] = request[q]
      /\ \A q \in Reservation \ {r} : reservation'[q] = reservation[q]
      /\ \A h \in Game \ {g} : game'[h] = game[h]
  BY <1>1 DEF Release, TypeOK, Reservation
<1>3. game[g] \in GameRow /\ game[g].version + 1 \in Nat
  BY <1>1 DEF TypeOK, GameRow
<1>4. /\ SamePlace(Unlocked(game[g], r), game[g])
      /\ Unlocked(game[g], r).status = game[g].status
      /\ Unlocked(game[g], r).lock = IF game[g].lock = r THEN NoRequest ELSE game[g].lock
      /\ Unlocked(game[g], r).version =
           IF game[g].lock = r THEN game[g].version + 1 ELSE game[g].version
  BY <1>3 DEF Unlocked, GameRow, SamePlace
<1>5. /\ reservation[r].status # "ACTIVE" => GivenBack(reservation[r]) = reservation[r]
      /\ reservation[r].status = "ACTIVE" => GivenBack(reservation[r]).status = "RELEASED"
  BY DEF GivenBack, TypeOK, Reservation, ReservationRow, NoRow
<1>6. outcome \in Waiting \cup Terminal
  BY DEF Terminal
<1>7. /\ Advanced(row, outcome) \in RequestRow
      /\ Advanced(row, outcome).status = outcome
      /\ Advanced(row, outcome).game = g
      /\ SamePlace(Advanced(row, outcome), request[r])
      /\ Advanced(row, outcome).gameVersion = request[r].gameVersion
  BY <1>1, <1>6, AdvancedTyped DEF SamePlace
<1> QED
  BY <1>1, <1>2, <1>4, <1>5, <1>7

LEMMA ApproveEffect ==
  ASSUME TypeOK, NEW r \in Request, NEW row,
         request[r].status \in Waiting, Revised(row, r), Approve(r, row),
         NEW g, g = request[r].game
  PROVE  /\ g \in Game
         /\ \A q \in Request \ {r} : request'[q] = request[q]
         /\ \A q \in Reservation \ {r} :
              IF reservation[q].status = "CONVERTED" /\ reservation[q].game = g
              THEN reservation'[q].status = "RELEASED"
              ELSE reservation'[q] = reservation[q]
         /\ \A h \in Game \ {g} : game'[h] = game[h]
         /\ request[r] \in RequestRow /\ request'[r] \in RequestRow
         /\ request'[r].status = "APPROVED" /\ request'[r].game = g
         /\ SamePlace(request'[r], request[r])
         /\ request'[r].gameVersion = request[r].gameVersion
         /\ reservation[r] \in ReservationRow /\ reservation[r].status = "ACTIVE"
         /\ NobodyElseAt(r, reservation[r]) /\ game[g].lock = r
         /\ reservation'[r].status = "CONVERTED" /\ reservation'[r].game = g
         /\ SamePlace(reservation'[r], reservation[r])
         /\ SamePlace(game'[g], reservation[r]) /\ game'[g].status = game[g].status
         /\ game'[g].lock = NoRequest /\ game'[g].version = game[g].version + 1
<1>1. /\ row \in RequestRow /\ row.game = g /\ SamePlace(row, request[r])
      /\ row.gameVersion = request[r].gameVersion /\ g \in Game
      /\ request[r] \in RequestRow
  BY RevisedRow, WaitingRow DEF RequestRow, SamePlace
<1>2. /\ game'[g] = Moved(game[g], reservation[r])
      /\ request'[r] = Advanced(row, "APPROVED")
      /\ \A q \in Reservation : reservation'[q] = Converted(q, r, g)
      /\ \A q \in Request \ {r} : request'[q] = request[q]
      /\ \A h \in Game \ {g} : game'[h] = game[h]
      /\ reservation[r].status = "ACTIVE" /\ game[g].lock = r
      /\ NobodyElseAt(r, reservation[r])
  BY <1>1 DEF Approve, Approvable, TypeOK
<1>3. game[g] \in GameRow /\ game[g].version + 1 \in Nat /\ reservation[r] \in ReservationRow
  BY <1>1, <1>2 DEF TypeOK, GameRow, Reservation, NoRow
<1>4. /\ SamePlace(Moved(game[g], reservation[r]), reservation[r])
      /\ Moved(game[g], reservation[r]).status = game[g].status
      /\ Moved(game[g], reservation[r]).lock = NoRequest
      /\ Moved(game[g], reservation[r]).version = game[g].version + 1
  BY <1>3 DEF Moved, GameRow, SamePlace
<1>5. /\ reservation'[r].status = "CONVERTED" /\ reservation'[r].game = g
      /\ SamePlace(reservation'[r], reservation[r])
  BY <1>2, <1>3 DEF Converted, ReservationRow, Reservation, SamePlace
<1>6. ASSUME NEW q \in Reservation \ {r}
      PROVE  IF reservation[q].status = "CONVERTED" /\ reservation[q].game = g
             THEN reservation'[q].status = "RELEASED"
             ELSE reservation'[q] = reservation[q]
  <2>1. reservation[q] = NoRow \/ reservation[q] \in ReservationRow
    BY DEF TypeOK
  <2>2. reservation[q].status = "CONVERTED" => reservation[q] \in ReservationRow
    BY <2>1 DEF NoRow
  <2> QED
    BY <1>2, <2>2 DEF Converted, ReservationRow
<1>7. /\ Advanced(row, "APPROVED") \in RequestRow
      /\ Advanced(row, "APPROVED").status = "APPROVED"
      /\ Advanced(row, "APPROVED").game = g
      /\ SamePlace(Advanced(row, "APPROVED"), request[r])
      /\ Advanced(row, "APPROVED").gameVersion = request[r].gameVersion
  BY <1>1, AdvancedTyped DEF SamePlace, Terminal
<1> QED
  BY <1>1, <1>2, <1>3, <1>4, <1>5, <1>6, <1>7

LEMMA MoveOnEffect ==
  ASSUME TypeOK, NEW r \in Request, NEW row, NEW status \in Waiting,
         request[r].status \in Waiting, Revised(row, r), MoveOn(r, row, status)
  PROVE  /\ game' = game /\ reservation' = reservation
         /\ \A q \in Request \ {r} : request'[q] = request[q]
         /\ request[r] \in RequestRow /\ request'[r] \in RequestRow
         /\ request'[r].status = status /\ request'[r].game = request[r].game
         /\ SamePlace(request'[r], request[r])
         /\ request'[r].gameVersion = request[r].gameVersion
<1>1. /\ row \in RequestRow /\ row.game = request[r].game /\ SamePlace(row, request[r])
      /\ row.gameVersion = request[r].gameVersion /\ request[r] \in RequestRow
  BY RevisedRow, WaitingRow DEF SamePlace
<1>2. request'[r] = Advanced(row, status)
  BY DEF MoveOn, TypeOK
<1> QED
  BY <1>1, <1>2, AdvancedTyped DEF MoveOn, TypeOK, SamePlace

LEMMA PublishEffect ==
  ASSUME TypeOK, NEW g \in Game, PublishResult(g)
  PROVE  /\ request' = request /\ reservation' = reservation
         /\ \A h \in Game \ {g} : game'[h] = game[h]
         /\ SamePlace(game'[g], game[g]) /\ game'[g].lock = game[g].lock
         /\ game[g].status # "VOID" /\ game'[g].status = "COMPLETED"
         /\ game'[g].version = game[g].version + 1
<1>1. game[g] \in GameRow /\ game[g].version + 1 \in Nat
  BY DEF TypeOK, GameRow
<1>2. game'[g] = [game[g] EXCEPT !.status = "COMPLETED", !.version = game[g].version + 1]
  BY DEF PublishResult, TypeOK
<1> QED
  BY <1>1, <1>2 DEF PublishResult, TypeOK, GameRow, SamePlace

-----------------------------------------------------------------------------
(***************************************************************************)
(* The negotiation of a request: who was asked, who agreed, how the        *)
(* superadmins classified it.  Here every step is seen from one request:   *)
(* either it leaves the request and its confirmations alone or it makes    *)
(* one of the moves below.                                                 *)
(***************************************************************************)

Kept(r) == request'[r] = request[r] /\ confirmation'[r] = confirmation[r]

(* The stored row moves on and stays the same case. *)
SameCase(r) ==
  /\ request[r] \in RequestRow /\ request'[r] \in RequestRow
  /\ request'[r].game = request[r].game /\ request'[r].team = request[r].team
  /\ request'[r].type = request[r].type /\ request'[r].route = request[r].route
  /\ request'[r].version = request[r].version + 1

Opponent(row) == OpponentTeam(row.game, row.team)

Asked(r) ==
  /\ request[r] = NoRow /\ request'[r] \in RequestRow
  /\ request'[r].status = "WAITING_OPPONENT" /\ request'[r].class = NoClassification
  /\ request'[r].type = "CROSS_WEEK" => request'[r].route = "HANDBOOK_REVIEW"
  /\ request'[r].team \in Teams(request'[r].game)
  /\ confirmation'[r] = [confirmation[r] EXCEPT ![Opponent(request'[r])] = "PENDING"]

Ended(r) ==
  /\ request[r].status \in Waiting /\ SameCase(r) /\ request'[r].status \in Failed
  /\ \/ request'[r].class = request[r].class
     \/ request'[r].class = "CROSS_ROUND" /\ request[r].route = "HANDBOOK_REVIEW"
  /\ request'[r].status = "EXPIRED" =>
       request[r].status \in TeamWaiting /\ now >= request[r].deadline

OpponentAgreed(r) ==
  /\ request[r].status = "WAITING_OPPONENT" /\ SameCase(r)
  /\ request'[r].class = request[r].class
  /\ request'[r].status =
       IF request[r].type = "SAME_WEEK" /\ request[r].route = "ORDINARY"
       THEN "APPROVED" ELSE "WAITING_ADMIN_DECISION"
  /\ confirmation'[r] = [confirmation[r] EXCEPT ![Opponent(request[r])] = "ACCEPTED"]

TeamAgreed(r) ==
  /\ request[r].status = "WAITING_SELECTED_TEAMS"
  /\ \E t \in Voters(r) :
       /\ confirmation'[r] = [confirmation[r] EXCEPT ![t] = "ACCEPTED"]
       /\ IF StillAsked(r, t)
          THEN request'[r] = request[r]
          ELSE /\ SameCase(r) /\ request'[r].class = request[r].class
               /\ request'[r].status = "WAITING_ADMIN_FINAL"

Classifying(r) ==
  /\ request[r].status = "WAITING_ADMIN_DECISION" /\ request[r].route = "HANDBOOK_REVIEW"
  /\ SameCase(r) /\ request'[r].class \in ReviewClassification

AdminApproved(r) ==
  /\ Classifying(r) /\ request'[r].status = "APPROVED"
  /\ request'[r].class = "ORDINARY" => request[r].type = "SAME_WEEK"
  /\ confirmation'[r] = confirmation[r]

VoteCalled(r) ==
  /\ Classifying(r) /\ request'[r].status = "WAITING_SELECTED_TEAMS"
  /\ request'[r].class = "CROSS_ROUND"
  /\ \E selected \in SUBSET EligibleVoters(request[r].game) :
       /\ selected # {}
       /\ confirmation'[r] =
            [t \in Team |-> IF t \in selected THEN "PENDING" ELSE confirmation[r][t]]

FinallyApproved(r) ==
  /\ request[r].status = "WAITING_ADMIN_FINAL" /\ SameCase(r)
  /\ request'[r].class = request[r].class /\ request'[r].status = "APPROVED"
  /\ confirmation'[r] = confirmation[r]

RequestMove(r) ==
  \/ Kept(r) \/ Asked(r) \/ Ended(r) \/ OpponentAgreed(r) \/ TeamAgreed(r)
  \/ AdminApproved(r) \/ VoteCalled(r) \/ FinallyApproved(r)

-----------------------------------------------------------------------------
(* Every step, seen from every request, is one of the moves. *)

LEMMA AdvancedCase ==
  ASSUME TypeOK, NEW r \in Request, request[r].status \in Waiting, NEW row, Revised(row, r),
         NEW status \in Waiting \cup Terminal, request'[r] = Advanced(row, status)
  PROVE  SameCase(r) /\ request'[r].status = status /\ request'[r].class = row.class
<1>1. /\ row \in RequestRow /\ request[r] \in RequestRow
      /\ row.game = request[r].game /\ row.team = request[r].team
      /\ row.type = request[r].type /\ row.route = request[r].route
      /\ row.version = request[r].version
  BY RevisedRow, WaitingRow
<1>2. row.version + 1 \in Nat
  BY <1>1 DEF RequestRow
<1>3. /\ Advanced(row, status).game = row.game /\ Advanced(row, status).team = row.team
      /\ Advanced(row, status).type = row.type /\ Advanced(row, status).route = row.route
      /\ Advanced(row, status).class = row.class
  BY <1>1, <1>2 DEF Advanced, RequestRow
<1> QED
  BY <1>1, <1>3, AdvancedTyped DEF SameCase

(* A row whose class the command did not touch. *)
LEMMA AdvancedSame ==
  ASSUME TypeOK, NEW r \in Request, request[r].status \in Waiting,
         NEW status \in Waiting \cup Terminal, request'[r] = Advanced(request[r], status)
  PROVE  SameCase(r) /\ request'[r].status = status /\ request'[r].class = request[r].class
BY SameRowRevised, AdvancedCase

LEMMA SubmitMove ==
  ASSUME TypeOK, NEW r \in Request, NEW a \in Account, NEW t \in Team, NEW g \in Game,
         NEW s \in Slot, NEW v \in Venue, NEW asked \in ProcessRoute \cup {"DEFAULT"},
         NEW at \in Readings, Submit(r, a, t, g, s, v, asked, at)
  PROVE  Asked(r)
<1> DEFINE row == SubmittedRow(g, t, s, v, asked)
           type == DateRelation(Day[game[g].slot], Day[s])
<1>1. /\ request[r] = NoRow /\ request'[r] = row
      /\ confirmation'[r] = [confirmation[r] EXCEPT ![OpponentTeam(g, t)] = "PENDING"]
  BY DEF Submit, TypeOK
<1>2. row \in RequestRow /\ row.status = "WAITING_OPPONENT" /\ row.game = g
  BY SubmittedRowTyped
<1>3. /\ row.team = t /\ row.type = type /\ row.route = ResolvedRoute(asked, type)
      /\ row.class = NoClassification
  BY DEF SubmittedRow
<1>4. /\ ResolvedRoute(asked, type) = "ORDINARY" => type = "SAME_WEEK"
      /\ t \in Teams(g)
  BY DEF Submit, SubmitAllowed
<1>5. row.type = "CROSS_WEEK" => row.route = "HANDBOOK_REVIEW"
  BY <1>2, <1>3, <1>4 DEF RequestRow, ProcessRoute
<1> HIDE DEF row
<1> QED
  BY <1>1, <1>2, <1>3, <1>4, <1>5 DEF Asked, Opponent

(* The rows that a command on r leaves alone. *)
LEMMA OthersKept ==
  ASSUME TypeOK, NEW r \in Request, NEW q \in Request, q # r,
         LeaderStep(r) \/ AdminStep(r) \/ WorkerStep(r)
  PROVE  Kept(q)
<1> USE DEF TypeOK
<1>1. CASE LeaderStep(r)
  <2> PICK a \in Account, t \in Team, at \in Readings :
        \/ \E g \in Game, s \in Slot, v \in Venue, asked \in ProcessRoute \cup {"DEFAULT"} :
             Submit(r, a, t, g, s, v, asked, at)
        \/ RespondToOpponent(a, r, t, at)
        \/ RespondAsSelectedTeam(a, r, t, at)
        \/ Withdraw(a, r)
    BY <1>1 DEF LeaderStep
  <2>1. CASE \E g \in Game, s \in Slot, v \in Venue, asked \in ProcessRoute \cup {"DEFAULT"} :
               Submit(r, a, t, g, s, v, asked, at)
    BY <2>1 DEF Submit, Kept
  <2>2. CASE RespondToOpponent(a, r, t, at)
    BY <2>2 DEF RespondToOpponent, AnswerTooLate, AnswerNo, OpponentAgrees,
       Answer, Release, Approve, MoveOn, Kept
  <2>3. CASE RespondAsSelectedTeam(a, r, t, at) \/ Withdraw(a, r)
    BY <2>3 DEF RespondAsSelectedTeam, Withdraw, AnswerTooLate, AnswerNo, SelectedTeamAgrees,
       Answer, Release, MoveOn, Kept
  <2> QED
    BY <2>1, <2>2, <2>3
<1>2. CASE AdminStep(r)
  BY <1>2 DEF AdminStep, AdminApproves, AdminRejects, AdminCallsVote, AdminFinallyApproves,
     AdminFinallyRejects, AdminCancels, Release, Approve, MoveOn, Kept
<1>3. CASE WorkerStep(r)
  BY <1>3 DEF WorkerStep, ExpireRequest, Release, Kept
<1> QED
  BY <1>1, <1>2, <1>3

LEMMA LeaderMove ==
  ASSUME TypeOK, NEW r \in Request, LeaderStep(r)
  PROVE  RequestMove(r)
<1> USE DEF Waiting, TeamWaiting, AdminWaiting, Terminal, Failed
<1> PICK a \in Account, t \in Team, at \in Readings :
      \/ \E g \in Game, s \in Slot, v \in Venue, asked \in ProcessRoute \cup {"DEFAULT"} :
           Submit(r, a, t, g, s, v, asked, at)
      \/ RespondToOpponent(a, r, t, at)
      \/ RespondAsSelectedTeam(a, r, t, at)
      \/ Withdraw(a, r)
  BY DEF LeaderStep
<1>1. CASE \E g \in Game, s \in Slot, v \in Venue, asked \in ProcessRoute \cup {"DEFAULT"} :
             Submit(r, a, t, g, s, v, asked, at)
  BY <1>1, SubmitMove DEF RequestMove
<1>2. ASSUME NEW status \in TeamWaiting, AnswerTooLate(a, r, t, status, at)
      PROVE  RequestMove(r)
  <2>1. /\ request[r].status = status /\ at >= request[r].deadline
        /\ request'[r] = Advanced(request[r], "EXPIRED")
    BY <1>2 DEF AnswerTooLate, MayAnswer, Release, TypeOK
  <2>2. /\ SameCase(r) /\ request'[r].status = "EXPIRED"
        /\ request'[r].class = request[r].class
    BY <2>1, AdvancedSame
  <2>3. now >= request[r].deadline
    BY <2>1, <2>2 DEF Readings, SameCase, RequestRow, TypeOK
  <2> QED
    BY <2>1, <2>2, <2>3 DEF Ended, RequestMove
<1>3. ASSUME NEW status \in TeamWaiting, AnswerNo(a, r, t, status, at)
      PROVE  RequestMove(r)
  <2>1. /\ request[r].status = status
        /\ request'[r] = Advanced(request[r], "REJECTED")
    BY <1>3 DEF AnswerNo, MayAnswer, Release, TypeOK
  <2>2. /\ SameCase(r) /\ request'[r].status = "REJECTED"
        /\ request'[r].class = request[r].class
    BY <2>1, AdvancedSame
  <2> QED
    BY <2>1, <2>2 DEF Ended, RequestMove
<1>4. CASE Withdraw(a, r)
  <2>1. /\ request[r].status \in Waiting
        /\ request'[r] = Advanced(request[r], "WITHDRAWN")
    BY <1>4 DEF Withdraw, Release, TypeOK
  <2>2. /\ SameCase(r) /\ request'[r].status = "WITHDRAWN"
        /\ request'[r].class = request[r].class
    BY <2>1, AdvancedSame
  <2> QED
    BY <2>1, <2>2 DEF Ended, RequestMove
<1>5. CASE OpponentAgrees(a, r, t, at)
  <2> DEFINE outcome == IF request[r].type = "SAME_WEEK" /\ request[r].route = "ORDINARY"
                        THEN "APPROVED" ELSE "WAITING_ADMIN_DECISION"
  <2>1. /\ request[r].status = "WAITING_OPPONENT"
        /\ request'[r] = Advanced(request[r], outcome)
        /\ confirmation'[r] = [confirmation[r] EXCEPT ![Opponent(request[r])] = "ACCEPTED"]
    BY <1>5 DEF OpponentAgrees, MayAnswer, Answer, Approve, MoveOn, Opponent, TypeOK
  <2>2. /\ SameCase(r) /\ request'[r].status = outcome
        /\ request'[r].class = request[r].class
    BY <2>1, AdvancedSame
  <2> QED
    BY <2>1, <2>2 DEF OpponentAgreed, RequestMove
<1>6. CASE SelectedTeamAgrees(a, r, t, at)
  <2>1. /\ request[r].status = "WAITING_SELECTED_TEAMS" /\ t \in Voters(r)
        /\ confirmation'[r] = [confirmation[r] EXCEPT ![t] = "ACCEPTED"]
        /\ IF StillAsked(r, t) THEN request'[r] = request[r]
           ELSE request'[r] = Advanced(request[r], "WAITING_ADMIN_FINAL")
    BY <1>6 DEF SelectedTeamAgrees, MayAnswer, Answer, MoveOn, TypeOK
  <2>2. ~ StillAsked(r, t) => /\ SameCase(r) /\ request'[r].status = "WAITING_ADMIN_FINAL"
                              /\ request'[r].class = request[r].class
    BY <2>1, AdvancedSame
  <2> QED
    BY <2>1, <2>2 DEF TeamAgreed, RequestMove
<1> QED
  BY <1>1, <1>2, <1>3, <1>4, <1>5, <1>6 DEF RespondToOpponent, RespondAsSelectedTeam

LEMMA AdminMove ==
  ASSUME TypeOK, NEW r \in Request, AdminStep(r) \/ WorkerStep(r)
  PROVE  RequestMove(r)
<1> USE DEF Waiting, TeamWaiting, AdminWaiting, Terminal, Failed
<1>1. ASSUME NEW given \in ReviewClassification \cup {"DEFAULT"}, MayDecide(r, given),
             NEW status \in Waiting \cup Terminal,
             request'[r] = Advanced(Decided(r, given), status)
      PROVE  /\ Classifying(r) /\ request'[r].status = status
             /\ request'[r].class = Classified(r, given)
             /\ request'[r].class = "ORDINARY" => request[r].type = "SAME_WEEK"
  <2>1. /\ request[r].status = "WAITING_ADMIN_DECISION"
        /\ request[r].route = "HANDBOOK_REVIEW"
        /\ Classified(r, given) \in ReviewClassification
        /\ Classified(r, given) = "ORDINARY" => request[r].type = "SAME_WEEK"
    BY <1>1 DEF MayDecide
  <2>2. Revised(Decided(r, given), r)
    BY <2>1 DEF Decided, Revised
  <2>3. Decided(r, given).class = Classified(r, given)
    BY <2>1, WaitingRow DEF Decided, RequestRow
  <2>4. /\ SameCase(r) /\ request'[r].status = status
        /\ request'[r].class = Decided(r, given).class
    BY <1>1, <2>1, <2>2, AdvancedCase
  <2> QED
    BY <2>1, <2>3, <2>4 DEF Classifying
<1>2. ASSUME NEW given \in ReviewClassification \cup {"DEFAULT"}, AdminApproves(r, given)
      PROVE  RequestMove(r)
  <2>1. /\ MayDecide(r, given) /\ request'[r] = Advanced(Decided(r, given), "APPROVED")
        /\ confirmation'[r] = confirmation[r]
    BY <1>2 DEF AdminApproves, Approve, TypeOK
  <2> QED
    BY <1>1, <2>1 DEF AdminApproved, RequestMove
<1>3. ASSUME NEW given \in ReviewClassification \cup {"DEFAULT"}, AdminRejects(r, given)
      PROVE  RequestMove(r)
  <2>1. /\ MayDecide(r, given) /\ request'[r] = Advanced(Decided(r, given), "REJECTED")
        /\ Classified(r, given) # "ORDINARY"
    BY <1>3 DEF AdminRejects, Release, TypeOK
  <2>2. Classifying(r) /\ request'[r].status = "REJECTED" /\ request'[r].class = "CROSS_ROUND"
    BY <1>1, <2>1 DEF Classifying, ReviewClassification
  <2> QED
    BY <2>2 DEF Classifying, Ended, RequestMove
<1>4. ASSUME NEW given \in ReviewClassification \cup {"DEFAULT"},
             NEW selected \in SUBSET Team, NEW at \in Readings,
             AdminCallsVote(r, given, selected, at)
      PROVE  RequestMove(r)
  <2>1. /\ MayDecide(r, given) /\ Classified(r, given) # "ORDINARY"
        /\ request'[r] = Advanced(Decided(r, given), "WAITING_SELECTED_TEAMS")
        /\ selected # {} /\ selected \subseteq EligibleVoters(request[r].game)
        /\ confirmation'[r] =
             [t \in Team |-> IF t \in selected THEN "PENDING" ELSE confirmation[r][t]]
    BY <1>4 DEF AdminCallsVote, MoveOn, TypeOK
  <2>2. /\ Classifying(r) /\ request'[r].status = "WAITING_SELECTED_TEAMS"
        /\ request'[r].class = "CROSS_ROUND"
    BY <1>1, <2>1 DEF Classifying, ReviewClassification
  <2> QED
    BY <2>1, <2>2 DEF VoteCalled, RequestMove
<1>5. CASE AdminFinallyApproves(r)
  <2>1. /\ request[r].status = "WAITING_ADMIN_FINAL"
        /\ request'[r] = Advanced(request[r], "APPROVED") /\ confirmation'[r] = confirmation[r]
    BY <1>5 DEF AdminFinallyApproves, Approve, TypeOK
  <2>2. /\ SameCase(r) /\ request'[r].status = "APPROVED"
        /\ request'[r].class = request[r].class
    BY <2>1, AdvancedSame
  <2> QED
    BY <2>1, <2>2 DEF FinallyApproved, RequestMove
<1>6. CASE AdminFinallyRejects(r) \/ AdminCancels(r)
  <2>1. /\ request[r].status \in Waiting
        /\ \E outcome \in {"REJECTED", "ADMIN_CANCELLED"} :
             request'[r] = Advanced(request[r], outcome)
    BY <1>6 DEF AdminFinallyRejects, AdminCancels, Release, TypeOK
  <2>2. /\ SameCase(r) /\ request'[r].status \in {"REJECTED", "ADMIN_CANCELLED"}
        /\ request'[r].class = request[r].class
    BY <2>1, AdvancedSame
  <2> QED
    BY <2>1, <2>2 DEF Ended, RequestMove
<1>7. CASE WorkerStep(r)
  <2> PICK at \in Readings : ExpireRequest(r, at)
    BY <1>7 DEF WorkerStep
  <2>1. /\ request[r].status \in TeamWaiting /\ at >= request[r].deadline
        /\ request'[r] = Advanced(request[r], "EXPIRED")
    BY DEF ExpireRequest, Release, TypeOK
  <2>2. /\ SameCase(r) /\ request'[r].status = "EXPIRED"
        /\ request'[r].class = request[r].class
    BY <2>1, AdvancedSame
  <2>3. now >= request[r].deadline
    BY <2>1, <2>2 DEF Readings, SameCase, RequestRow, TypeOK
  <2> QED
    BY <2>1, <2>2, <2>3 DEF Ended, RequestMove
<1> QED
  BY <1>2, <1>3, <1>4, <1>5, <1>6, <1>7 DEF AdminStep

LEMMA StepMoves ==
  ASSUME TypeOK, [Next]_vars
  PROVE  \A r \in Request : RequestMove(r)
<1> TAKE q \in Request
<1>1. ASSUME NEW r \in Request, LeaderStep(r) \/ AdminStep(r) \/ WorkerStep(r)
      PROVE  RequestMove(q)
  BY <1>1, OthersKept, LeaderMove, AdminMove DEF RequestMove
<1>2. CASE UNCHANGED <<request, confirmation>>
  BY <1>2 DEF Kept, RequestMove
<1>3. CASE \E g \in Game : PublishResult(g)
  BY <1>2, <1>3 DEF PublishResult
<1>4. CASE \E pair \in Appointments :
             IF pair[1] = NoAccount THEN ReleaseLeader(pair[2]) ELSE TransferLeader(pair[1], pair[2])
  BY <1>2, <1>4 DEF ReleaseLeader, TransferLeader
<1>5. CASE Tick
  BY <1>2, <1>5 DEF Tick
<1>6. CASE UNCHANGED vars
  BY <1>2, <1>6 DEF vars
<1> QED
  BY <1>1, <1>3, <1>4, <1>5, <1>6 DEF Next

-----------------------------------------------------------------------------
(* Decisions. *)

LEMMA TerminalIsLast ==
  ASSUME NEW r \in Request, RequestMove(r), request'[r] # request[r]
  PROVE  /\ request[r].status \notin Terminal
         /\ request'[r].status = "EXPIRED" =>
              request[r].status \in TeamWaiting /\ now >= request[r].deadline
<1> USE DEF Terminal, Failed, Waiting, TeamWaiting, AdminWaiting, NoRow
<1>1. CASE Kept(r) \/ Asked(r)
  BY <1>1 DEF Kept, Asked
<1>2. CASE Ended(r)
  BY <1>2 DEF Ended
<1>3. CASE OpponentAgreed(r) \/ TeamAgreed(r)
  BY <1>3 DEF OpponentAgreed, TeamAgreed
<1>4. CASE AdminApproved(r) \/ VoteCalled(r) \/ FinallyApproved(r)
  BY <1>4 DEF AdminApproved, VoteCalled, FinallyApproved, Classifying
<1> QED
  BY <1>1, <1>2, <1>3, <1>4 DEF RequestMove

(* What is decided stays decided, and only a request that waits for a team *)
(* expires, not before its deadline: no command on a request reads anything *)
(* but a waiting status (the status checks after the row lock).            *)
THEOREM DecisionsAreLast == Spec => DecisionsLast
<1> DEFINE Last ==
      \A r \in Request : request'[r] # request[r] =>
        /\ request[r].status \notin Terminal
        /\ request'[r].status = "EXPIRED" =>
             request[r].status \in TeamWaiting /\ now >= request[r].deadline
<1>1. TypeOK /\ [Next]_vars => [Last]_vars
  BY StepMoves, TerminalIsLast
<1> QED
  BY <1>1, TypeCorrect, PTL DEF Spec, DecisionsLast

LEMMA RequestVersions ==
  ASSUME NEW r \in Request, RequestMove(r), Live(r), request'[r].status # request[r].status
  PROVE  request'[r].version = request[r].version + 1
<1>1. ~ Kept(r) /\ ~ Asked(r)
  BY DEF Kept, Asked, Live
<1>2. CASE TeamAgreed(r)
  BY <1>2 DEF TeamAgreed, SameCase
<1> QED
  BY <1>1, <1>2 DEF RequestMove, Ended, OpponentAgreed, AdminApproved, VoteCalled,
     FinallyApproved, Classifying, SameCase

LEMMA GameVersions ==
  ASSUME TypeOK, [Next]_vars, NEW g \in Game, game'[g] # game[g]
  PROVE  game'[g].version = game[g].version + 1
<1>1. CASE Submitting
  BY <1>1, SubmitEffect DEF Submitting
<1>2. CASE Releasing
  <2> PICK r \in Request, outcome \in Failed, row \in RequestRow :
             request[r].status \in Waiting /\ Revised(row, r) /\ Release(r, row, outcome)
    BY <1>2 DEF Releasing
  <2>1. row.game = request[r].game /\ request[r].game \in Game
    BY RevisedRow, WaitingRow DEF RequestRow
  <2>2. g = row.game /\ game'[g] = Unlocked(game[g], r)
    BY <2>1 DEF Release, TypeOK
  <2>3. game[g].lock = r
    BY <2>2 DEF Unlocked
  <2> QED
    BY <2>1, <2>2, <2>3, ReleaseEffect
<1>3. CASE Approving
  BY <1>3, ApproveEffect DEF Approving
<1>4. CASE MovingOn \/ Idle
  BY <1>4 DEF MovingOn, MoveOn, Idle
<1>5. CASE Publishing
  BY <1>5, PublishEffect DEF Publishing
<1>6. Shape
  BY StepShape DEF vars, Idle, Shape
<1> QED
  BY <1>1, <1>2, <1>3, <1>4, <1>5, <1>6 DEF Shape

(* No status and no game row changes under an unchanged version, so a      *)
(* caller who carries the version of an older state is always refused.     *)
THEOREM VersionsTellStates == Spec => VersionsTell
<1> DEFINE Tell ==
      /\ \A r \in Request : Live(r) /\ request'[r].status # request[r].status
           => request'[r].version = request[r].version + 1
      /\ \A g \in Game : game'[g] # game[g] => game'[g].version = game[g].version + 1
<1>1. TypeOK /\ [Next]_vars => [Tell]_vars
  BY StepMoves, RequestVersions, GameVersions
<1> QED
  BY <1>1, TypeCorrect, PTL DEF Spec, VersionsTell

(* Both together: no decision is taken back, none is made for a state its  *)
(* maker did not see.                                                      *)
THEOREM DecisionsStandForEver == Spec => DecisionsStand
BY DecisionsAreLast, VersionsTellStates DEF DecisionsStand

-----------------------------------------------------------------------------
(* Classification. *)

WellClassified(row) ==
  /\ row.type = "CROSS_WEEK" => row.route = "HANDBOOK_REVIEW"
  /\ row.class = "ORDINARY" => row.type = "SAME_WEEK" /\ row.status = "APPROVED"
  /\ row.class # NoClassification =>
       /\ row.route = "HANDBOOK_REVIEW"
       /\ row.status \notin {"WAITING_OPPONENT", "WAITING_ADMIN_DECISION"}
  /\ row.status \in {"WAITING_SELECTED_TEAMS", "WAITING_ADMIN_FINAL"} =>
       row.class = "CROSS_ROUND"
  /\ row.status \in Waiting \ {"WAITING_OPPONENT"} => row.route = "HANDBOOK_REVIEW"
  /\ row.status = "APPROVED" /\ row.route = "HANDBOOK_REVIEW" => row.class # NoClassification

LEMMA ClassificationStep ==
  ASSUME NEW r \in Request, RequestMove(r), request[r] = NoRow \/ WellClassified(request[r])
  PROVE  request'[r] = NoRow \/ WellClassified(request'[r])
<1> USE DEF Failed, Waiting, TeamWaiting, AdminWaiting, NoRow, NoClassification,
            ReviewClassification, WellClassified
<1>1. CASE Kept(r)
  BY <1>1 DEF Kept
<1>2. CASE Asked(r)
  BY <1>2 DEF Asked
<1>3. CASE Ended(r)
  BY <1>3 DEF Ended, SameCase
<1>4. CASE OpponentAgreed(r)
  BY <1>4 DEF OpponentAgreed, SameCase, RequestRow, RequestType, ProcessRoute
<1>5. CASE TeamAgreed(r)
  BY <1>5 DEF TeamAgreed, SameCase
<1>6. CASE AdminApproved(r) \/ VoteCalled(r)
  BY <1>6 DEF AdminApproved, VoteCalled, Classifying, SameCase
<1>7. CASE FinallyApproved(r)
  BY <1>7 DEF FinallyApproved, SameCase
<1> QED
  BY <1>1, <1>2, <1>3, <1>4, <1>5, <1>6, <1>7 DEF RequestMove

(* No command is ever stopped by a check constraint of reschedule_request:  *)
(* an approval in the handbook route is classified, a request that crosses *)
(* weeks is never ordinary, only cross-round requests are voted on.        *)
THEOREM SchemaNeverRefuses == Spec => []SchemaConstraints
<1> DEFINE WellFormed == \A r \in Request : request[r] = NoRow \/ WellClassified(request[r])
<1>1. Init => WellFormed
  BY DEF Init
<1>2. TypeOK /\ WellFormed /\ [Next]_vars => WellFormed'
  BY StepMoves, ClassificationStep
<1>3. WellFormed => SchemaConstraints
  BY DEF SchemaConstraints, WellClassified, Live
<1> QED
  BY <1>1, <1>2, <1>3, TypeCorrect, PTL DEF Spec

-----------------------------------------------------------------------------
(* Consent. *)

(* What NobodyOverruled says of one request. *)
Consented(r) ==
  LET opponent == OpponentTeam(request[r].game, request[r].team)
      answers == {confirmation[r][t] : t \in Voters(r)}
  IN /\ request[r].status \in AdminWaiting \cup {"WAITING_SELECTED_TEAMS", "APPROVED"}
        => confirmation[r][opponent] = "ACCEPTED"
     /\ request[r].status = "WAITING_ADMIN_FINAL" => answers = {"ACCEPTED"}
     /\ request[r].status = "APPROVED" => answers \subseteq {"ACCEPTED"}
     /\ request[r].status = "WAITING_SELECTED_TEAMS" => "PENDING" \in answers
     /\ request[r].status \in Waiting => "REJECTED" \notin answers

(* Why it lasts: nobody is asked before there is a request, the asking     *)
(* team plays in the game, so its opponent is no voter, and no voter is    *)
(* asked before the superadmins call the vote.                             *)
AskedInOrder(r) ==
  /\ ~ Live(r) => \A t \in Team : confirmation[r][t] = NotAsked
  /\ Live(r) => request[r].team \in Teams(request[r].game)
  /\ Live(r) /\ request[r].status \in {"WAITING_OPPONENT", "WAITING_ADMIN_DECISION"}
       => Voters(r) = {}

Negotiated(r) == AskedInOrder(r) /\ (Live(r) => Consented(r))

LEMMA OpponentPlays ==
  ASSUME NEW g \in Game, NEW t \in Teams(g)
  PROVE  OpponentTeam(g, t) \in Teams(g) /\ OpponentTeam(g, t) \in Team
BY SeasonAssumption DEF OpponentTeam, Teams

(* The voters of a case change only with who was asked. *)
LEMMA SameVoters ==
  ASSUME TypeOK, TypeOK', NEW r \in Request, request'[r].game = request[r].game,
         \A t \in Team \ Teams(request[r].game) :
           confirmation'[r][t] = NotAsked <=> confirmation[r][t] = NotAsked
  PROVE  Voters(r)' = Voters(r)
BY DEF Voters

LEMMA NegotiationStep ==
  ASSUME TypeOK, TypeOK', NEW r \in Request, RequestMove(r), Negotiated(r)
  PROVE  Negotiated(r)'
<1> USE DEF Waiting, TeamWaiting, AdminWaiting
<1>0. /\ confirmation[r] \in [Team -> Response \cup {NotAsked}]
      /\ confirmation'[r] \in [Team -> Response \cup {NotAsked}]
  BY DEF TypeOK
<1>1. CASE Kept(r)
  BY <1>1 DEF Kept, Negotiated, AskedInOrder, Consented, Live, Voters
<1>2. CASE Asked(r)
  <2> DEFINE o == Opponent(request'[r])
  <2>1. /\ request'[r] \in RequestRow /\ Live(r)' /\ request'[r].game \in Game
        /\ o \in Teams(request'[r].game)
    BY <1>2, OpponentPlays DEF Asked, Opponent, RequestRow, NoRow, Live, Terminal, Failed
  <2>2. \A t \in Team \ {o} : confirmation'[r][t] = NotAsked
    BY <1>0, <1>2 DEF Asked, Negotiated, AskedInOrder, Live
  <2>3. Voters(r)' = {}
    BY <2>1, <2>2 DEF Voters
  <2> QED
    BY <1>2, <2>1, <2>3 DEF Asked, Negotiated, AskedInOrder, Consented
<1>3. CASE Ended(r)
  <2>1. /\ Live(r) /\ Live(r)' /\ SameCase(r) /\ request'[r].status \in Failed
    BY <1>3 DEF Ended, SameCase, Live, NoRow, RequestRow, Terminal, Failed
  <2> QED
    BY <2>1 DEF SameCase, Negotiated, AskedInOrder, Consented, Failed
<1>4. CASE OpponentAgreed(r)
  <2> DEFINE o == Opponent(request[r])
  <2>1. /\ Live(r) /\ Live(r)' /\ SameCase(r) /\ request[r].game \in Game
        /\ request'[r].status \in {"APPROVED", "WAITING_ADMIN_DECISION"}
    BY <1>4 DEF OpponentAgreed, SameCase, Live, NoRow, RequestRow, Terminal, Failed
  <2>2. o \in Teams(request[r].game) /\ o \in Team /\ Voters(r) = {}
    BY <1>4, <2>1, OpponentPlays DEF OpponentAgreed, Negotiated, AskedInOrder, Opponent
  <2>3. confirmation'[r][o] = "ACCEPTED" /\ \A t \in Team \ {o} : confirmation'[r][t] = confirmation[r][t]
    BY <1>0, <1>4, <2>2 DEF OpponentAgreed
  <2>4. Voters(r)' = {}
    BY <2>1, <2>2, <2>3, SameVoters DEF SameCase
  <2> QED
    BY <2>1, <2>3, <2>4 DEF SameCase, Negotiated, AskedInOrder, Consented, Opponent
<1>5. CASE TeamAgreed(r)
  <2> PICK t \in Voters(r) :
        /\ confirmation'[r] = [confirmation[r] EXCEPT ![t] = "ACCEPTED"]
        /\ IF StillAsked(r, t)
           THEN request'[r] = request[r]
           ELSE /\ SameCase(r) /\ request'[r].class = request[r].class
                /\ request'[r].status = "WAITING_ADMIN_FINAL"
    BY <1>5 DEF TeamAgreed
  <2> DEFINE o == Opponent(request[r])
  <2>1. /\ Live(r) /\ Live(r)' /\ request[r].status = "WAITING_SELECTED_TEAMS"
        /\ request[r].game \in Game
        /\ request'[r].game = request[r].game /\ request'[r].team = request[r].team
    BY <1>5, WaitingRow DEF TeamAgreed, SameCase, Live, NoRow, RequestRow, Terminal, Failed
  <2>2. o \in Teams(request[r].game) /\ o # t /\ t \in Team
    BY <2>1, OpponentPlays DEF Negotiated, AskedInOrder, Opponent, Voters
  <2>3. /\ confirmation'[r][t] = "ACCEPTED"
        /\ \A u \in Team \ {t} : confirmation'[r][u] = confirmation[r][u]
    BY <1>0, <2>2
  <2>4. Voters(r)' = Voters(r)
    BY <2>1, <2>2, <2>3, SameVoters DEF Voters, NotAsked
  <2>5. confirmation[r][o] = "ACCEPTED" /\ \A u \in Voters(r) : confirmation[r][u] # "REJECTED"
    BY <2>1 DEF Negotiated, Consented, Opponent
  <2>6. o \in Team /\ confirmation'[r][o] = "ACCEPTED"
    BY <2>1, <2>2, <2>3, <2>5, OpponentPlays DEF Negotiated, AskedInOrder, Opponent
  <2>7. CASE StillAsked(r, t)
    <3>1. \E u \in Voters(r) : confirmation'[r][u] = "PENDING"
      BY <2>3, <2>7 DEF StillAsked, Voters
    <3>2. \A u \in Voters(r) : confirmation'[r][u] # "REJECTED"
      BY <2>3, <2>5 DEF Voters
    <3>3. Consented(r)'
      BY <2>1, <2>4, <2>6, <2>7, <3>1, <3>2 DEF Consented, Opponent
    <3> QED
      BY <2>1, <2>4, <2>7, <3>3 DEF Negotiated, AskedInOrder
  <2>8. CASE ~ StillAsked(r, t)
    <3>1. \A u \in Voters(r) : confirmation'[r][u] = "ACCEPTED"
      BY <1>0, <2>3, <2>5, <2>8 DEF StillAsked, Voters, Response
    <3>2. {confirmation'[r][u] : u \in Voters(r)} = {"ACCEPTED"}
      BY <3>1
    <3>3. Consented(r)'
      BY <2>1, <2>4, <2>6, <2>8, <3>2 DEF Consented, Opponent
    <3> QED
      BY <2>1, <2>4, <2>8, <3>3 DEF Negotiated, AskedInOrder
  <2> QED
    BY <2>7, <2>8
<1>6. CASE AdminApproved(r) \/ FinallyApproved(r)
  <2>1. /\ Live(r) /\ Live(r)' /\ SameCase(r) /\ request'[r].status = "APPROVED"
        /\ request[r].status \in AdminWaiting /\ confirmation'[r] = confirmation[r]
    BY <1>6 DEF AdminApproved, FinallyApproved, Classifying, SameCase, Live, NoRow,
                RequestRow, Terminal, Failed
  <2>2. Voters(r)' = Voters(r)
    BY <2>1, SameVoters DEF SameCase
  <2>3. {confirmation[r][t] : t \in Voters(r)} \subseteq {"ACCEPTED"}
    BY <2>1 DEF Negotiated, AskedInOrder, Consented
  <2>4. confirmation[r][Opponent(request[r])] = "ACCEPTED"
    BY <2>1 DEF Negotiated, Consented, Opponent
  <2>5. Consented(r)'
    BY <2>1, <2>2, <2>3, <2>4 DEF Consented, SameCase, Opponent
  <2> QED
    BY <2>1, <2>5 DEF SameCase, Negotiated, AskedInOrder
<1>7. CASE VoteCalled(r)
  <2> PICK selected \in SUBSET EligibleVoters(request[r].game) :
        /\ selected # {}
        /\ confirmation'[r] =
             [t \in Team |-> IF t \in selected THEN "PENDING" ELSE confirmation[r][t]]
    BY <1>7 DEF VoteCalled
  <2> DEFINE o == Opponent(request[r])
  <2>1. /\ Live(r) /\ Live(r)' /\ SameCase(r) /\ request[r].game \in Game
        /\ request[r].status = "WAITING_ADMIN_DECISION"
        /\ request'[r].status = "WAITING_SELECTED_TEAMS"
    BY <1>7 DEF VoteCalled, Classifying, SameCase, Live, NoRow, RequestRow, Terminal, Failed
  <2>2. /\ selected \subseteq Team /\ selected \cap Teams(request[r].game) = {}
        /\ o \in Teams(request[r].game) /\ o \in Team /\ Voters(r) = {}
    BY <2>1, OpponentPlays, SeasonAssumption
    DEF EligibleVoters, Negotiated, AskedInOrder, Opponent
  <2>3. Voters(r)' = selected
    BY <2>1, <2>2 DEF Voters, SameCase, NotAsked
  <2>4. {confirmation'[r][t] : t \in selected} = {"PENDING"}
    BY <2>2
  <2>5. confirmation'[r][o] = "ACCEPTED"
    BY <2>1, <2>2 DEF Negotiated, Consented, Opponent
  <2>6. Consented(r)'
    BY <2>1, <2>3, <2>4, <2>5 DEF Consented, SameCase, Opponent
  <2> QED
    BY <2>1, <2>6 DEF SameCase, Negotiated, AskedInOrder
<1> QED
  BY <1>1, <1>2, <1>3, <1>4, <1>5, <1>6, <1>7 DEF RequestMove

(* Nobody is overruled: the superadmins decide only after the opponent has *)
(* agreed, finally only after every selected team has, and a refusal ends  *)
(* the request at once.                                                    *)
THEOREM NobodyIsOverruled == Spec => []NobodyOverruled
<1> DEFINE Negotiation == \A r \in Request : Negotiated(r)
<1>1. Init => Negotiation
  BY DEF Init, Negotiated, AskedInOrder, Live
<1>2. TypeOK /\ TypeOK' /\ Negotiation /\ [Next]_vars => Negotiation'
  BY StepMoves, NegotiationStep
<1>3. Negotiation => NobodyOverruled
  BY DEF Negotiated, Consented, NobodyOverruled
<1> QED
  BY <1>1, <1>2, <1>3, TypeCorrect, PTL DEF Spec

-----------------------------------------------------------------------------
(* The same shapes, with the rows they are about. *)
LEMMA ShapeCases ==
  ASSUME TypeOK, [Next]_vars
  PROVE  Shape
BY StepShape DEF vars, Idle, Shape

LEMMA StatusFacts ==
  /\ Waiting \cap Failed = {} /\ "APPROVED" \notin Waiting /\ "APPROVED" \notin Failed
  /\ "WAITING_OPPONENT" \in Waiting /\ NoRow.status \notin Waiting \cup Failed
BY DEF Waiting, TeamWaiting, AdminWaiting, Failed, NoRow

LEMMA RowIsLive ==
  ASSUME NEW row \in RequestRow
  PROVE  row # NoRow
BY DEF RequestRow, NoRow, Waiting, TeamWaiting, AdminWaiting, Terminal, Failed

LEMMA LiveRow ==
  ASSUME TypeOK, NEW r \in Request, Live(r)
  PROVE  request[r] \in RequestRow /\ request[r].game \in Game
BY DEF TypeOK, Live, RequestRow

-----------------------------------------------------------------------------
(* Locks. *)

LEMMA LockHeldInit == Init => LockHeld
BY IdentityAssumption DEF Init, LockHeld, Live, StartGame

LEMMA LockHeldStep ==
  ASSUME TypeOK, TypeOK', LockHeld, [Next]_vars
  PROVE  LockHeld'
<1> USE StatusFacts
<1>1. CASE Submitting
  <2> PICK r \in Request, a \in Account, t \in Team, g \in Game, s \in Slot, v \in Venue,
           asked \in ProcessRoute \cup {"DEFAULT"}, at \in Readings :
             Submit(r, a, t, g, s, v, asked, at)
    BY <1>1 DEF Submitting
  <2>1. /\ \A q \in Request \ {r} : request'[q] = request[q]
        /\ \A q \in Reservation \ {r} : reservation'[q] = reservation[q]
        /\ \A h \in Game \ {g} : game'[h] = game[h]
        /\ request[r] = NoRow /\ request'[r] \in RequestRow
        /\ request'[r].status = "WAITING_OPPONENT" /\ request'[r].game = g
        /\ request'[r].slot = s /\ request'[r].venue = v
        /\ reservation'[r] = [status |-> "ACTIVE", slot |-> s, venue |-> v, game |-> NoGame]
        /\ game[g].lock = NoRequest /\ game'[g].lock = r
    BY SubmitEffect
  <2>2. request'[r] # NoRow
    BY <2>1, RowIsLive
  <2>3. ASSUME NEW q \in Request, NEW h \in Game
        PROVE  (game[h].lock = q <=>
                 (Live(q) /\ request[q].game = h /\ request[q].status \in Waiting))'
    BY <2>1, <2>2, IdentityAssumption DEF LockHeld, Live
  <2>4. ASSUME NEW q \in Request, request'[q] # NoRow
        PROVE  /\ request'[q].status \in Waiting <=> reservation'[q].status = "ACTIVE"
               /\ request'[q].status \in Failed => reservation'[q].status = "RELEASED"
               /\ request'[q].status \in Waiting => SamePlace(request'[q], reservation'[q])
    BY <2>1, <2>2, <2>4 DEF LockHeld, Live, Reservation, SamePlace
  <2> QED
    BY <2>3, <2>4 DEF LockHeld, Live
<1>2. CASE Releasing
  <2> PICK r \in Request, outcome \in Failed, row \in RequestRow :
             request[r].status \in Waiting /\ Revised(row, r) /\ Release(r, row, outcome)
    BY <1>2 DEF Releasing
  <2> DEFINE g == request[r].game
  <2>1. /\ g \in Game
        /\ \A q \in Request \ {r} : request'[q] = request[q]
        /\ \A q \in Reservation \ {r} : reservation'[q] = reservation[q]
        /\ \A h \in Game \ {g} : game'[h] = game[h]
        /\ request[r] \in RequestRow /\ request'[r] \in RequestRow
        /\ request'[r].status = outcome /\ request'[r].game = g
        /\ reservation[r].status = "ACTIVE" => reservation'[r].status = "RELEASED"
        /\ game'[g].lock = IF game[g].lock = r THEN NoRequest ELSE game[g].lock
    BY ReleaseEffect
  <2>2. request[r] # NoRow /\ request'[r] # NoRow
    BY <2>1, RowIsLive
  <2>3. reservation[r].status = "ACTIVE" /\ game[g].lock = r
    BY <2>1, <2>2 DEF LockHeld, Live
  <2> HIDE DEF g
  <2>4. ASSUME NEW q \in Request, NEW h \in Game
        PROVE  (game[h].lock = q <=>
                 (Live(q) /\ request[q].game = h /\ request[q].status \in Waiting))'
    BY <2>1, <2>2, <2>3, IdentityAssumption DEF LockHeld, Live
  <2>5. ASSUME NEW q \in Request, request'[q] # NoRow
        PROVE  /\ request'[q].status \in Waiting <=> reservation'[q].status = "ACTIVE"
               /\ request'[q].status \in Failed => reservation'[q].status = "RELEASED"
               /\ request'[q].status \in Waiting => SamePlace(request'[q], reservation'[q])
    BY <2>1, <2>2, <2>3, <2>5 DEF LockHeld, Live, Reservation
  <2> QED
    BY <2>4, <2>5 DEF LockHeld, Live
<1>3. CASE Approving
  <2> PICK r \in Request, row \in RequestRow :
             request[r].status \in Waiting /\ Revised(row, r) /\ Approve(r, row)
    BY <1>3 DEF Approving
  <2> DEFINE g == request[r].game
  <2>1. /\ g \in Game
        /\ \A q \in Request \ {r} : request'[q] = request[q]
        /\ \A q \in Reservation \ {r} :
             IF reservation[q].status = "CONVERTED" /\ reservation[q].game = g
             THEN reservation'[q].status = "RELEASED"
             ELSE reservation'[q] = reservation[q]
        /\ \A h \in Game \ {g} : game'[h] = game[h]
        /\ request[r] \in RequestRow /\ request'[r] \in RequestRow
        /\ request'[r].status = "APPROVED" /\ request'[r].game = g
        /\ reservation'[r].status = "CONVERTED"
        /\ game[g].lock = r /\ game'[g].lock = NoRequest
    BY ApproveEffect
  <2>2. request[r] # NoRow /\ request'[r] # NoRow
    BY <2>1, RowIsLive
  <2> HIDE DEF g
  <2>3. ASSUME NEW q \in Request, NEW h \in Game
        PROVE  (game[h].lock = q <=>
                 (Live(q) /\ request[q].game = h /\ request[q].status \in Waiting))'
    BY <2>1, <2>2, IdentityAssumption DEF LockHeld, Live
  <2>4. ASSUME NEW q \in Request \ {r}
        PROVE  \/ reservation'[q] = reservation[q]
               \/ reservation[q].status = "CONVERTED" /\ reservation'[q].status = "RELEASED"
    BY <2>1 DEF Reservation
  <2>5. ASSUME NEW q \in Request, request'[q] # NoRow
        PROVE  /\ request'[q].status \in Waiting <=> reservation'[q].status = "ACTIVE"
               /\ request'[q].status \in Failed => reservation'[q].status = "RELEASED"
               /\ request'[q].status \in Waiting => SamePlace(request'[q], reservation'[q])
    BY <2>1, <2>2, <2>4, <2>5 DEF LockHeld, Live
  <2> QED
    BY <2>3, <2>5 DEF LockHeld, Live
<1>4. CASE MovingOn
  <2> PICK r \in Request, status \in Waiting, row \in RequestRow :
             request[r].status \in Waiting /\ Revised(row, r) /\ MoveOn(r, row, status)
    BY <1>4 DEF MovingOn
  <2>1. /\ game' = game /\ reservation' = reservation
        /\ \A q \in Request \ {r} : request'[q] = request[q]
        /\ request[r] \in RequestRow /\ request'[r] \in RequestRow
        /\ request'[r].status = status /\ request'[r].game = request[r].game
        /\ SamePlace(request'[r], request[r])
    BY MoveOnEffect
  <2>2. request[r] # NoRow /\ request'[r] # NoRow
    BY <2>1, RowIsLive
  <2> QED
    BY <2>1, <2>2 DEF LockHeld, Live, SamePlace
<1>5. CASE Publishing
  <2> PICK g \in Game : PublishResult(g)
    BY <1>5 DEF Publishing
  <2>1. /\ request' = request /\ reservation' = reservation
        /\ \A h \in Game \ {g} : game'[h] = game[h]
        /\ game'[g].lock = game[g].lock
    BY PublishEffect
  <2>2. \A h \in Game : game'[h].lock = game[h].lock
    BY <2>1
  <2> QED
    BY <2>1, <2>2 DEF LockHeld, Live
<1>6. CASE Idle
  BY <1>6 DEF Idle, LockHeld, Live
<1> QED
  BY ShapeCases, <1>1, <1>2, <1>3, <1>4, <1>5, <1>6 DEF Shape

(* A running request holds the lock of its game and its reservation until  *)
(* it ends, and nothing else holds either: submit_reschedule,              *)
(* _release_request and _approve_request keep the three tables together.   *)
THEOREM LocksHeld == Spec => []LockHeld
<1>1. TypeOK /\ TypeOK' /\ LockHeld /\ [Next]_vars => LockHeld'
  BY LockHeldStep
<1> QED
  BY LockHeldInit, <1>1, TypeCorrect, PTL DEF Spec

-----------------------------------------------------------------------------
(* Places. *)

(* What uniq_active_reservation_venue demands of the database. *)
PlacesUnique ==
  \A q \in Reservation : Occupying(q) =>
    \A p \in Reservation \ {q} : Occupying(p) => ~ SamePlace(reservation[p], reservation[q])

LEMMA PlacesUniqueInit == Init => PlacesUnique
<1> SUFFICES ASSUME Init, NEW q \in Reservation, Occupying(q),
                    NEW p \in Reservation \ {q}, Occupying(p)
             PROVE  ~ SamePlace(reservation[p], reservation[q])
  BY DEF PlacesUnique
<1> PICK allocated \in SUBSET {g \in Game : game[g].status # "VOID" /\ game[g].venue \in Venue} :
      reservation = [o \in Reservation |->
        IF o \in allocated
        THEN [status |-> "CONVERTED", slot |-> game[o].slot, venue |-> game[o].venue, game |-> o]
        ELSE NoRow]
  BY DEF Init
<1>1. p \in allocated /\ q \in allocated
  BY DEF Occupying, NoRow
<1>2. /\ reservation[p].slot = game[p].slot /\ reservation[p].venue = game[p].venue
      /\ reservation[q].slot = game[q].slot /\ reservation[q].venue = game[q].venue
  BY <1>1
<1>3. ~ SamePlace(game[q], game[p])
  BY <1>1 DEF Init, VenueExclusive
<1> QED
  BY <1>2, <1>3 DEF SamePlace

LEMMA PlacesUniqueStep ==
  ASSUME TypeOK, PlacesUnique, [Next]_vars
  PROVE  PlacesUnique'
<1>1. CASE Submitting
  <2> PICK r \in Request, a \in Account, t \in Team, g \in Game, s \in Slot, v \in Venue,
           asked \in ProcessRoute \cup {"DEFAULT"}, at \in Readings :
             Submit(r, a, t, g, s, v, asked, at)
    BY <1>1 DEF Submitting
  <2>1. /\ \A q \in Reservation \ {r} : reservation'[q] = reservation[q]
        /\ reservation'[r] = [status |-> "ACTIVE", slot |-> s, venue |-> v, game |-> NoGame]
    BY SubmitEffect
  <2>2. \A q \in Reservation \ {r} : Occupying(q) => ~ SamePlace(reservation[q], reservation'[r])
    BY <2>1 DEF Submit, NobodyElseAt
  <2> QED
    BY <2>1, <2>2 DEF PlacesUnique, Occupying, SamePlace
<1>2. CASE Releasing
  <2> PICK r \in Request, outcome \in Failed, row \in RequestRow :
             request[r].status \in Waiting /\ Revised(row, r) /\ Release(r, row, outcome)
    BY <1>2 DEF Releasing
  <2> DEFINE g == request[r].game
  <2>1. /\ \A q \in Reservation \ {r} : reservation'[q] = reservation[q]
        /\ reservation[r].status # "ACTIVE" => reservation'[r] = reservation[r]
        /\ reservation[r].status = "ACTIVE" => reservation'[r].status = "RELEASED"
    BY ReleaseEffect
  <2>2. \A q \in Reservation : Occupying(q)' => Occupying(q) /\ reservation'[q] = reservation[q]
    BY <2>1 DEF Occupying
  <2> QED
    BY <2>2 DEF PlacesUnique
<1>3. CASE Approving
  <2> PICK r \in Request, row \in RequestRow :
             request[r].status \in Waiting /\ Revised(row, r) /\ Approve(r, row)
    BY <1>3 DEF Approving
  <2> DEFINE g == request[r].game
  <2>1. /\ \A q \in Reservation \ {r} :
             IF reservation[q].status = "CONVERTED" /\ reservation[q].game = g
             THEN reservation'[q].status = "RELEASED"
             ELSE reservation'[q] = reservation[q]
        /\ reservation[r].status = "ACTIVE"
        /\ SamePlace(reservation'[r], reservation[r])
    BY ApproveEffect
  <2>2. \A q \in Reservation : Occupying(q)' =>
          Occupying(q) /\ SamePlace(reservation'[q], reservation[q])
    BY <2>1 DEF Occupying, SamePlace
  <2> QED
    BY <2>2 DEF PlacesUnique, SamePlace
<1>4. CASE reservation' = reservation
  BY <1>4 DEF PlacesUnique, Occupying
<1>5. CASE MovingOn \/ Publishing \/ Idle
  BY <1>4, <1>5 DEF MovingOn, MoveOn, Publishing, PublishResult, Idle
<1> QED
  BY ShapeCases, <1>1, <1>2, <1>3, <1>5 DEF Shape

LEMMA VenueExclusiveStep ==
  ASSUME TypeOK, PlacesUnique, VenueExclusive, [Next]_vars
  PROVE  VenueExclusive'
<1>1. CASE Submitting
  <2> PICK r \in Request, a \in Account, t \in Team, g \in Game, s \in Slot, v \in Venue,
           asked \in ProcessRoute \cup {"DEFAULT"}, at \in Readings :
             Submit(r, a, t, g, s, v, asked, at)
    BY <1>1 DEF Submitting
  <2>1. /\ \A q \in Reservation \ {r} : reservation'[q] = reservation[q]
        /\ \A h \in Game \ {g} : game'[h] = game[h]
        /\ reservation'[r] = [status |-> "ACTIVE", slot |-> s, venue |-> v, game |-> NoGame]
        /\ game[g].status = "SCHEDULED" /\ game'[g].status = "SCHEDULED"
        /\ SamePlace(game'[g], game[g])
    BY SubmitEffect
  <2>2. \A h \in Game : SamePlace(game'[h], game[h]) /\ game'[h].status = game[h].status
    BY <2>1 DEF SamePlace
  <2>3. \A h \in Game : game[h].status # "VOID" => ~ SamePlace(game[h], reservation'[r])
    BY <2>1 DEF Submit, FirstAvailableVenue, OccupiedVenues, GamesAt, SamePlace
  <2> QED
    BY <2>1, <2>2, <2>3 DEF VenueExclusive, SamePlace
<1>2. CASE Releasing
  <2> PICK r \in Request, outcome \in Failed, row \in RequestRow :
             request[r].status \in Waiting /\ Revised(row, r) /\ Release(r, row, outcome)
    BY <1>2 DEF Releasing
  <2> DEFINE g == request[r].game
  <2>1. /\ \A q \in Reservation \ {r} : reservation'[q] = reservation[q]
        /\ reservation[r].status # "ACTIVE" => reservation'[r] = reservation[r]
        /\ reservation[r].status = "ACTIVE" => reservation'[r].status = "RELEASED"
        /\ \A h \in Game \ {g} : game'[h] = game[h]
        /\ SamePlace(game'[g], game[g]) /\ game'[g].status = game[g].status
    BY ReleaseEffect
  <2>2. \A q \in Reservation : reservation'[q].status = "ACTIVE" => reservation'[q] = reservation[q]
    BY <2>1
  <2>3. \A h \in Game : SamePlace(game'[h], game[h]) /\ game'[h].status = game[h].status
    BY <2>1 DEF SamePlace
  <2> QED
    BY <2>2, <2>3 DEF VenueExclusive, SamePlace
<1>3. CASE Approving
  <2> PICK r \in Request, row \in RequestRow :
             request[r].status \in Waiting /\ Revised(row, r) /\ Approve(r, row)
    BY <1>3 DEF Approving
  <2> DEFINE g == request[r].game
  <2>1. /\ g \in Game
        /\ \A q \in Reservation \ {r} :
             IF reservation[q].status = "CONVERTED" /\ reservation[q].game = g
             THEN reservation'[q].status = "RELEASED"
             ELSE reservation'[q] = reservation[q]
        /\ \A h \in Game \ {g} : game'[h] = game[h]
        /\ reservation[r].status = "ACTIVE" /\ reservation'[r].status = "CONVERTED"
        /\ SamePlace(game'[g], reservation[r]) /\ game'[g].status = game[g].status
    BY ApproveEffect
  <2>2. \A q \in Reservation : reservation'[q].status = "ACTIVE" =>
          q # r /\ reservation'[q] = reservation[q]
    BY <2>1
  <2>3. \A h \in Game \ {g} : game[h].status # "VOID" => ~ SamePlace(game[h], game'[g])
    BY <2>1 DEF VenueExclusive, SamePlace, Reservation
  <2>4. \A q \in Reservation \ {r} :
          reservation[q].status = "ACTIVE" => ~ SamePlace(reservation[q], game'[g])
    BY <2>1 DEF PlacesUnique, Occupying, SamePlace, Reservation
  <2> HIDE DEF g
  <2> QED
    BY <2>1, <2>2, <2>3, <2>4 DEF VenueExclusive, SamePlace
<1>4. CASE Publishing
  <2> PICK g \in Game : PublishResult(g)
    BY <1>4 DEF Publishing
  <2>1. \A h \in Game : /\ SamePlace(game'[h], game[h])
                        /\ game'[h].status # "VOID" => game[h].status # "VOID"
    BY PublishEffect DEF SamePlace
  <2> QED
    BY <2>1, PublishEffect DEF VenueExclusive, SamePlace
<1>5. CASE MovingOn \/ Idle
  BY <1>5 DEF MovingOn, MoveOn, Idle, VenueExclusive
<1> QED
  BY ShapeCases, <1>1, <1>2, <1>3, <1>4, <1>5 DEF Shape

(* No court is promised twice in a slot, to two games or to a game and a   *)
(* running request, whatever the leaders, the superadmins and the worker   *)
(* do (submit_reschedule, _first_available_venue, _approve_request).       *)
THEOREM CourtsExclusive == Spec => []VenueExclusive
<1>1. Init => VenueExclusive
  BY DEF Init
<1>2. TypeOK /\ PlacesUnique /\ [Next]_vars => PlacesUnique'
  BY PlacesUniqueStep
<1>3. TypeOK /\ PlacesUnique /\ VenueExclusive /\ [Next]_vars => VenueExclusive'
  BY VenueExclusiveStep
<1> QED
  BY <1>1, <1>2, <1>3, PlacesUniqueInit, TypeCorrect, PTL DEF Spec

-----------------------------------------------------------------------------
(* Teams. *)

(* A slot is only ever kept for a request that exists. *)
KeptForRequests ==
  \A r \in Request : reservation[r].status = "ACTIVE" => Live(r)

(* Steps that move no game and keep no further slot. *)
LEMMA SameTeams ==
  ASSUME TeamExclusive,
         \A q \in Request : /\ reservation'[q].status = "ACTIVE" => reservation'[q] = reservation[q]
                            /\ request'[q].game = request[q].game,
         \A h \in Game : /\ game'[h].slot = game[h].slot
                         /\ game'[h].status # "VOID" => game[h].status # "VOID"
  PROVE  TeamExclusive'
<1>1. \A x : GamesAt(x)' \subseteq GamesAt(x)
  BY DEF GamesAt
<1> QED
  BY <1>1 DEF TeamExclusive

LEMMA TeamExclusiveStep ==
  ASSUME TypeOK, LockHeld, KeptForRequests, TeamExclusive, [Next]_vars
  PROVE  TeamExclusive'
<1> USE StatusFacts
<1>1. CASE Submitting
  <2> PICK r \in Request, a \in Account, t \in Team, g \in Game, s \in Slot, v \in Venue,
           asked \in ProcessRoute \cup {"DEFAULT"}, at \in Readings :
             Submit(r, a, t, g, s, v, asked, at)
    BY <1>1 DEF Submitting
  <2>1. /\ \A q \in Request \ {r} : request'[q] = request[q]
        /\ \A q \in Reservation \ {r} : reservation'[q] = reservation[q]
        /\ \A h \in Game \ {g} : game'[h] = game[h]
        /\ request'[r].game = g
        /\ reservation'[r] = [status |-> "ACTIVE", slot |-> s, venue |-> v, game |-> NoGame]
        /\ game[g].status = "SCHEDULED" /\ game'[g].status = "SCHEDULED"
        /\ SamePlace(game'[g], game[g])
    BY SubmitEffect
  <2>2. \A h \in Game : game'[h].slot = game[h].slot /\ game'[h].status = game[h].status
    BY <2>1 DEF SamePlace
  <2>3. ~ TeamConflict(g, s)
    BY DEF Submit, SubmitAllowed
  <2>4. \A h \in Game : game[h].status # "VOID" /\ game[h].slot = s => Teams(g) \cap Teams(h) = {}
    BY <2>3 DEF TeamConflict, GamesAt
  <2>5. \A q \in Request \ {r} : reservation[q].status = "ACTIVE" /\ reservation[q].slot = s
          => Teams(g) \cap Teams(request[q].game) = {}
    <3> SUFFICES ASSUME NEW q \in Request \ {r}, reservation[q].status = "ACTIVE",
                        reservation[q].slot = s, Live(q)
                 PROVE  Teams(g) \cap Teams(request[q].game) = {}
      BY DEF KeptForRequests
    <3>1. request[q].slot = s
      BY DEF LockHeld, SamePlace
    <3> QED
      BY <2>3, <3>1 DEF TeamConflict
  <2>6. \A q \in Request \ {r} : q \in Reservation
    BY DEF Reservation
  <2>7. ASSUME NEW q \in Request, reservation'[q].status = "ACTIVE"
        PROVE  /\ \A h \in Game : game'[h].status # "VOID" /\ game'[h].slot = reservation'[q].slot
                    => Teams(request'[q].game) \cap Teams(h) = {}
               /\ \A p \in Request \ {q} :
                    reservation'[p].status = "ACTIVE" /\ reservation'[p].slot = reservation'[q].slot
                    => Teams(request'[q].game) \cap Teams(request'[p].game) = {}
    <3>1. CASE q = r
      BY <3>1, <2>1, <2>2, <2>4, <2>5, <2>6
    <3>2. CASE q # r
      <4>1. request'[q] = request[q] /\ reservation'[q] = reservation[q]
        BY <3>2, <2>1, <2>6
      <4>2. \A h \in Game : game'[h].status # "VOID" /\ game'[h].slot = reservation'[q].slot
              => Teams(request'[q].game) \cap Teams(h) = {}
        BY <2>2, <2>7, <4>1 DEF TeamExclusive, GamesAt
      <4>3. ASSUME NEW p \in Request \ {q, r}, reservation'[p].status = "ACTIVE",
                   reservation'[p].slot = reservation'[q].slot
            PROVE  Teams(request'[q].game) \cap Teams(request'[p].game) = {}
        BY <4>1, <4>3, <2>1, <2>6, <2>7 DEF TeamExclusive
      <4>4. reservation[q].slot = s => Teams(request[q].game) \cap Teams(g) = {}
        BY <2>5, <2>7, <3>2, <4>1
      <4> QED
        BY <2>1, <4>1, <4>2, <4>3, <4>4
    <3> QED
      BY <3>1, <3>2
  <2> QED
    BY <2>2, <2>7 DEF TeamExclusive, GamesAt
<1>2. CASE Releasing
  <2> PICK r \in Request, outcome \in Failed, row \in RequestRow :
             request[r].status \in Waiting /\ Revised(row, r) /\ Release(r, row, outcome)
    BY <1>2 DEF Releasing
  <2> DEFINE g == request[r].game
  <2>1. /\ \A q \in Request \ {r} : request'[q] = request[q]
        /\ \A q \in Reservation \ {r} : reservation'[q] = reservation[q]
        /\ reservation[r].status # "ACTIVE" => reservation'[r] = reservation[r]
        /\ reservation[r].status = "ACTIVE" => reservation'[r].status = "RELEASED"
        /\ request'[r].game = g
        /\ \A h \in Game \ {g} : game'[h] = game[h]
        /\ SamePlace(game'[g], game[g]) /\ game'[g].status = game[g].status
    BY ReleaseEffect
  <2>2. \A q \in Request : /\ reservation'[q].status = "ACTIVE" => reservation'[q] = reservation[q]
                           /\ request'[q].game = request[q].game
    BY <2>1 DEF Reservation
  <2>3. \A h \in Game : game'[h].slot = game[h].slot /\ game'[h].status = game[h].status
    BY <2>1 DEF SamePlace
  <2> HIDE DEF g
  <2> QED
    BY <2>2, <2>3, SameTeams
<1>3. CASE Approving
  <2> PICK r \in Request, row \in RequestRow :
             request[r].status \in Waiting /\ Revised(row, r) /\ Approve(r, row)
    BY <1>3 DEF Approving
  <2> DEFINE g == request[r].game
  <2>1. /\ g \in Game
        /\ \A q \in Request \ {r} : request'[q] = request[q]
        /\ \A q \in Reservation \ {r} :
             IF reservation[q].status = "CONVERTED" /\ reservation[q].game = g
             THEN reservation'[q].status = "RELEASED"
             ELSE reservation'[q] = reservation[q]
        /\ \A h \in Game \ {g} : game'[h] = game[h]
        /\ reservation[r].status = "ACTIVE" /\ reservation'[r].status = "CONVERTED"
        /\ SamePlace(game'[g], reservation[r]) /\ game'[g].status = game[g].status
    BY ApproveEffect
  <2>2. \A q \in Request : reservation'[q].status = "ACTIVE" =>
          q # r /\ reservation'[q] = reservation[q] /\ request'[q] = request[q]
    BY <2>1 DEF Reservation
  <2>3. \A h \in Game \ {g} : game[h].status # "VOID" /\ game[h].slot = game'[g].slot
          => Teams(g) \cap Teams(h) = {}
    BY <2>1 DEF TeamExclusive, GamesAt, SamePlace
  <2>4. \A q \in Request \ {r} :
          reservation[q].status = "ACTIVE" /\ reservation[q].slot = game'[g].slot
          => Teams(g) \cap Teams(request[q].game) = {}
    BY <2>1 DEF TeamExclusive, SamePlace
  <2> HIDE DEF g
  <2>5. ASSUME NEW h \in Game, NEW k \in Game, h # k, game'[h].slot = game'[k].slot,
               game'[h].status # "VOID", game'[k].status # "VOID"
        PROVE  Teams(h) \cap Teams(k) = {}
    BY <2>1, <2>3, <2>5 DEF TeamExclusive
  <2>6. ASSUME NEW q \in Request, reservation'[q].status = "ACTIVE"
        PROVE  /\ \A h \in Game : game'[h].status # "VOID" /\ game'[h].slot = reservation'[q].slot
                    => Teams(request'[q].game) \cap Teams(h) = {}
               /\ \A p \in Request \ {q} :
                    reservation'[p].status = "ACTIVE" /\ reservation'[p].slot = reservation'[q].slot
                    => Teams(request'[q].game) \cap Teams(request'[p].game) = {}
    <3>1. q # r /\ reservation'[q] = reservation[q] /\ request'[q] = request[q]
      BY <2>2, <2>6
    <3>2. ASSUME NEW h \in Game, game'[h].status # "VOID", game'[h].slot = reservation'[q].slot
          PROVE  Teams(request'[q].game) \cap Teams(h) = {}
      <4>1. CASE h = g
        BY <4>1, <3>1, <3>2, <2>4, <2>6
      <4>2. CASE h # g
        BY <4>2, <3>1, <3>2, <2>1, <2>6 DEF TeamExclusive, GamesAt
      <4> QED
        BY <4>1, <4>2
    <3>3. ASSUME NEW p \in Request \ {q}, reservation'[p].status = "ACTIVE",
                 reservation'[p].slot = reservation'[q].slot
          PROVE  Teams(request'[q].game) \cap Teams(request'[p].game) = {}
      BY <3>1, <3>3, <2>2, <2>6 DEF TeamExclusive
    <3> QED
      BY <3>1, <3>2, <3>3
  <2> QED
    BY <2>5, <2>6 DEF TeamExclusive, GamesAt
<1>4. CASE MovingOn
  <2> PICK r \in Request, status \in Waiting, row \in RequestRow :
             request[r].status \in Waiting /\ Revised(row, r) /\ MoveOn(r, row, status)
    BY <1>4 DEF MovingOn
  <2>1. /\ game' = game /\ reservation' = reservation
        /\ \A q \in Request : request'[q].game = request[q].game
    BY MoveOnEffect
  <2> QED
    BY <2>1, SameTeams
<1>5. CASE Publishing
  <2> PICK g \in Game : PublishResult(g)
    BY <1>5 DEF Publishing
  <2>1. \A h \in Game : /\ game'[h].slot = game[h].slot
                        /\ game'[h].status # "VOID" => game[h].status # "VOID"
    BY PublishEffect DEF SamePlace
  <2>2. request' = request /\ reservation' = reservation
    BY PublishEffect
  <2> QED
    BY <2>1, <2>2, SameTeams
<1>6. CASE Idle
  BY <1>6, SameTeams DEF Idle
<1> QED
  BY ShapeCases, <1>1, <1>2, <1>3, <1>4, <1>5, <1>6 DEF Shape

LEMMA KeptForRequestsStep ==
  ASSUME TypeOK, KeptForRequests, [Next]_vars
  PROVE  KeptForRequests'
<1>1. CASE Submitting
  <2> PICK r \in Request, a \in Account, t \in Team, g \in Game, s \in Slot, v \in Venue,
           asked \in ProcessRoute \cup {"DEFAULT"}, at \in Readings :
             Submit(r, a, t, g, s, v, asked, at)
    BY <1>1 DEF Submitting
  <2>1. /\ \A q \in Request \ {r} : request'[q] = request[q]
        /\ \A q \in Reservation \ {r} : reservation'[q] = reservation[q]
        /\ request'[r] \in RequestRow
    BY SubmitEffect
  <2> QED
    BY <2>1, RowIsLive DEF KeptForRequests, Live, Reservation
<1>2. CASE Releasing
  <2> PICK r \in Request, outcome \in Failed, row \in RequestRow :
             request[r].status \in Waiting /\ Revised(row, r) /\ Release(r, row, outcome)
    BY <1>2 DEF Releasing
  <2> DEFINE g == request[r].game
  <2>1. /\ \A q \in Request \ {r} : request'[q] = request[q] /\ reservation'[q] = reservation[q]
        /\ request'[r] \in RequestRow
    BY ReleaseEffect DEF Reservation
  <2> QED
    BY <2>1, RowIsLive DEF KeptForRequests, Live
<1>3. CASE Approving
  <2> PICK r \in Request, row \in RequestRow :
             request[r].status \in Waiting /\ Revised(row, r) /\ Approve(r, row)
    BY <1>3 DEF Approving
  <2> DEFINE g == request[r].game
  <2>1. /\ \A q \in Request \ {r} :
             /\ request'[q] = request[q]
             /\ reservation'[q].status = "ACTIVE" => reservation'[q] = reservation[q]
        /\ request'[r] \in RequestRow
    BY ApproveEffect DEF Reservation
  <2> QED
    BY <2>1, RowIsLive DEF KeptForRequests, Live
<1>4. CASE MovingOn
  <2> PICK r \in Request, status \in Waiting, row \in RequestRow :
             request[r].status \in Waiting /\ Revised(row, r) /\ MoveOn(r, row, status)
    BY <1>4 DEF MovingOn
  <2>1. /\ reservation' = reservation /\ request'[r] \in RequestRow
        /\ \A q \in Request \ {r} : request'[q] = request[q]
    BY MoveOnEffect
  <2> QED
    BY <2>1, RowIsLive DEF KeptForRequests, Live
<1>5. CASE Publishing \/ Idle
  BY <1>5 DEF Publishing, PublishResult, Idle, KeptForRequests, Live
<1> QED
  BY ShapeCases, <1>1, <1>2, <1>3, <1>4, <1>5 DEF Shape

(* No team is due on two courts at once.  Approval moves the game without  *)
(* looking for conflicts again; it may, because the slot has been kept     *)
(* since _validate_target_team_conflicts looked for them.                  *)
THEOREM TeamsExclusive == Spec => []TeamExclusive
<1>1. Init => TeamExclusive /\ KeptForRequests
  <2> SUFFICES ASSUME Init PROVE TeamExclusive /\ KeptForRequests
    OBVIOUS
  <2>1. ASSUME NEW r \in Request
        PROVE  reservation[r].status # "ACTIVE"
    BY DEF Init, NoRow, Reservation
  <2> QED
    BY <2>1 DEF Init, KeptForRequests
<1>2. TypeOK /\ KeptForRequests /\ [Next]_vars => KeptForRequests'
  BY KeptForRequestsStep
<1>3. TypeOK /\ LockHeld /\ KeptForRequests /\ TeamExclusive /\ [Next]_vars => TeamExclusive'
  BY TeamExclusiveStep
<1> QED
  BY <1>1, <1>2, <1>3, TypeCorrect, LocksHeld, PTL DEF Spec

-----------------------------------------------------------------------------
(* Allocations. *)

(* A game that a request has locked is to be played. *)
LockedIsPlayed == \A g \in Game : game[g].lock # NoRequest => game[g].status # "VOID"

Allocation == LockedIsPlayed /\ AllocationFollowsGame

LEMMA AllocationInit == Init => Allocation
<1> SUFFICES ASSUME Init PROVE Allocation
  OBVIOUS
<1> PICK allocated \in SUBSET {g \in Game : game[g].status # "VOID" /\ game[g].venue \in Venue} :
      reservation = [o \in Reservation |->
        IF o \in allocated
        THEN [status |-> "CONVERTED", slot |-> game[o].slot, venue |-> game[o].venue, game |-> o]
        ELSE NoRow]
  BY DEF Init
<1>1. ASSUME NEW q \in Reservation, reservation[q].status = "CONVERTED"
      PROVE  /\ q \in Game /\ reservation[q].game = q
             /\ SamePlace(game[q], reservation[q]) /\ game[q].status # "VOID"
  <2>1. q \in allocated
    BY <1>1 DEF NoRow
  <2> QED
    BY <2>1 DEF SamePlace
<1>2. LockedIsPlayed
  BY DEF Init, StartGame, LockedIsPlayed
<1>3. AllocationFollowsGame
  BY <1>1, IdentityAssumption DEF AllocationFollowsGame
<1> QED
  BY <1>2, <1>3 DEF Allocation

LEMMA AllocationStep ==
  ASSUME TypeOK, Allocation, [Next]_vars
  PROVE  Allocation'
<1>0. ASSUME NEW q \in Reservation, reservation[q].status = "CONVERTED"
      PROVE  reservation[q].game \in Game
  BY <1>0 DEF TypeOK, ReservationRow, NoRow, Allocation, AllocationFollowsGame
<1>1. CASE Submitting
  <2> PICK r \in Request, a \in Account, t \in Team, g \in Game, s \in Slot, v \in Venue,
           asked \in ProcessRoute \cup {"DEFAULT"}, at \in Readings :
             Submit(r, a, t, g, s, v, asked, at)
    BY <1>1 DEF Submitting
  <2>1. /\ \A q \in Reservation \ {r} : reservation'[q] = reservation[q]
        /\ reservation'[r] = [status |-> "ACTIVE", slot |-> s, venue |-> v, game |-> NoGame]
        /\ \A h \in Game \ {g} : game'[h] = game[h]
        /\ game[g].status = "SCHEDULED" /\ game'[g].status = "SCHEDULED"
        /\ SamePlace(game'[g], game[g])
    BY SubmitEffect
  <2>2. \A q \in Reservation : reservation'[q].status = "CONVERTED" => reservation'[q] = reservation[q]
    BY <2>1
  <2>3. \A h \in Game : /\ SamePlace(game'[h], game[h]) /\ game'[h].status = game[h].status
                        /\ game'[h].lock # game[h].lock => game[h].status # "VOID"
    BY <2>1 DEF SamePlace
  <2> QED
    BY <1>0, <2>2, <2>3 DEF Allocation, LockedIsPlayed, AllocationFollowsGame, SamePlace
<1>2. CASE Releasing
  <2> PICK r \in Request, outcome \in Failed, row \in RequestRow :
             request[r].status \in Waiting /\ Revised(row, r) /\ Release(r, row, outcome)
    BY <1>2 DEF Releasing
  <2> DEFINE g == request[r].game
  <2>1. /\ \A q \in Reservation \ {r} : reservation'[q] = reservation[q]
        /\ reservation'[r].status = "CONVERTED" => reservation'[r] = reservation[r]
        /\ \A h \in Game : /\ SamePlace(game'[h], game[h]) /\ game'[h].status = game[h].status
                           /\ game'[h].lock # NoRequest => game[h].lock # NoRequest
    BY ReleaseEffect DEF SamePlace
  <2>2. \A q \in Reservation : reservation'[q].status = "CONVERTED" => reservation'[q] = reservation[q]
    BY <2>1
  <2> QED
    BY <1>0, <2>1, <2>2 DEF Allocation, LockedIsPlayed, AllocationFollowsGame, SamePlace
<1>3. CASE Approving
  <2> PICK r \in Request, row \in RequestRow :
             request[r].status \in Waiting /\ Revised(row, r) /\ Approve(r, row)
    BY <1>3 DEF Approving
  <2> DEFINE g == request[r].game
  <2>1. /\ g \in Game
        /\ \A q \in Reservation \ {r} :
             IF reservation[q].status = "CONVERTED" /\ reservation[q].game = g
             THEN reservation'[q].status = "RELEASED"
             ELSE reservation'[q] = reservation[q]
        /\ \A h \in Game \ {g} : game'[h] = game[h]
        /\ reservation'[r].game = g
        /\ SamePlace(reservation'[r], reservation[r]) /\ SamePlace(game'[g], reservation[r])
        /\ game[g].lock = r /\ game'[g].lock = NoRequest /\ game'[g].status = game[g].status
    BY ApproveEffect
  <2>2. game'[g].status # "VOID"
    BY <2>1, IdentityAssumption DEF Allocation, LockedIsPlayed
  <2>3. \A q \in Reservation \ {r} : reservation'[q].status = "CONVERTED" =>
          /\ reservation'[q] = reservation[q] /\ reservation[q].game \in Game \ {g}
    BY <1>0, <2>1
  <2>4. LockedIsPlayed'
    BY <2>1 DEF Allocation, LockedIsPlayed
  <2> HIDE DEF g
  <2>5. ASSUME NEW q \in Reservation, reservation'[q].status = "CONVERTED"
        PROVE  /\ reservation'[q].game # NoGame
               /\ SamePlace(game'[reservation'[q].game], reservation'[q])
               /\ game'[reservation'[q].game].status # "VOID"
               /\ \A p \in Reservation \ {q} :
                    reservation'[p].status = "CONVERTED" => reservation'[p].game # reservation'[q].game
    <3>1. CASE q = r
      BY <3>1, <2>1, <2>2, <2>3, IdentityAssumption DEF SamePlace
    <3>2. CASE q # r
      BY <3>2, <2>1, <2>3, <2>5 DEF Allocation, AllocationFollowsGame
    <3> QED
      BY <3>1, <3>2
  <2> QED
    BY <2>4, <2>5 DEF Allocation, AllocationFollowsGame
<1>4. CASE MovingOn \/ Idle
  BY <1>4 DEF MovingOn, MoveOn, Idle, Allocation, LockedIsPlayed, AllocationFollowsGame
<1>5. CASE Publishing
  <2> PICK g \in Game : PublishResult(g)
    BY <1>5 DEF Publishing
  <2>1. /\ reservation' = reservation
        /\ \A h \in Game : /\ SamePlace(game'[h], game[h])
                           /\ game[h].status # "VOID" => game'[h].status # "VOID"
                           /\ game'[h].lock = game[h].lock
    BY PublishEffect DEF SamePlace
  <2> QED
    BY <1>0, <2>1 DEF Allocation, LockedIsPlayed, AllocationFollowsGame, SamePlace
<1> QED
  BY ShapeCases, <1>1, <1>2, <1>3, <1>4, <1>5 DEF Shape

LEMMA AllocationInvariant == Spec => []Allocation
<1>1. TypeOK /\ Allocation /\ [Next]_vars => Allocation'
  BY AllocationStep
<1> QED
  BY <1>1, AllocationInit, TypeCorrect, PTL DEF Spec

(* A game has at most one allocation, at the place where it is: the        *)
(* allocation an approval releases is the one the game leaves.             *)
THEOREM AllocationsFollowGames == Spec => []AllocationFollowsGame
<1>1. Allocation => AllocationFollowsGame
  BY DEF Allocation
<1> QED
  BY <1>1, AllocationInvariant, PTL

LEMMA PlacesUniqueInvariant == Spec => []PlacesUnique
<1>1. TypeOK /\ PlacesUnique /\ [Next]_vars => PlacesUnique'
  BY PlacesUniqueStep
<1> QED
  BY <1>1, PlacesUniqueInit, TypeCorrect, PTL DEF Spec

LEMMA DatabaseAgreesBecause ==
  ASSUME TypeOK, LockHeld, PlacesUnique, Allocation
  PROVE  DatabaseAgrees
<1>1. ASSUME NEW s \in Slot, NEW v \in Venue, v \notin OccupiedVenues(s),
             NEW q \in Reservation, Occupying(q),
             SamePlace(reservation[q], [slot |-> s, venue |-> v])
      PROVE  FALSE
  <2>1. reservation[q].slot = s /\ reservation[q].venue = v
    BY <1>1 DEF SamePlace
  <2>2. CASE reservation[q].status = "ACTIVE"
    BY <1>1, <2>1, <2>2 DEF OccupiedVenues, ReservedAt
  <2>3. CASE reservation[q].status = "CONVERTED"
    <3>1. PICK g \in Game : /\ g = reservation[q].game /\ SamePlace(game[g], reservation[q])
                            /\ game[g].status # "VOID"
      BY <2>3 DEF Allocation, AllocationFollowsGame, TypeOK, ReservationRow, NoRow
    <3> QED
      BY <1>1, <2>1, <3>1 DEF OccupiedVenues, GamesAt, SamePlace
  <2> QED
    BY <1>1, <2>2, <2>3 DEF Occupying
<1>2. ASSUME NEW r \in Request, request[r].status \in Waiting
      PROVE  Approvable(r, request[r].game)
  <2>1. Live(r)
    BY <1>2, StatusFacts DEF Live
  <2>2. reservation[r].status = "ACTIVE" /\ game[request[r].game].lock = r
    BY <1>2, <2>1, LiveRow DEF LockHeld
  <2> QED
    BY <2>2 DEF Approvable, NobodyElseAt, PlacesUnique, Occupying, Reservation
<1> QED
  BY <1>1, <1>2 DEF DatabaseAgrees

(* No command is ever stopped by the unique constraint on reservations:    *)
(* _first_available_venue does not look at CONVERTED rows, but each of     *)
(* them lies under its game; and every check of _approve_request holds for *)
(* every running request.                                                  *)
THEOREM DatabaseNeverRefuses == Spec => []DatabaseAgrees
<1>1. TypeOK /\ LockHeld /\ PlacesUnique /\ Allocation => DatabaseAgrees
  BY DatabaseAgreesBecause
<1> QED
  BY <1>1, TypeCorrect, LocksHeld, PlacesUniqueInvariant, AllocationInvariant, PTL

-----------------------------------------------------------------------------
(* Identities. *)

LEMMA FingerprintStep ==
  ASSUME TypeOK, TypeOK', FingerprintIdentifies, [Next]_vars
  PROVE  FingerprintIdentifies'
<1>0. ASSUME NEW q \in Request, Live(q)
      PROVE  /\ request[q].game \in Game /\ request[q].gameVersion \in Nat
             /\ game[request[q].game].version \in Nat
  BY <1>0, LiveRow DEF TypeOK, RequestRow, GameRow
<1>a. \A h \in Game : game[h].version \in Nat
  BY DEF TypeOK, GameRow
<1>1. CASE Submitting
  <2> PICK r \in Request, a \in Account, t \in Team, g \in Game, s \in Slot, v \in Venue,
           asked \in ProcessRoute \cup {"DEFAULT"}, at \in Readings :
             Submit(r, a, t, g, s, v, asked, at)
    BY <1>1 DEF Submitting
  <2>1. /\ \A q \in Request \ {r} : request'[q] = request[q]
        /\ \A h \in Game \ {g} : game'[h] = game[h]
        /\ request[r] = NoRow
        /\ reservation'[r] = [status |-> "ACTIVE", slot |-> s, venue |-> v, game |-> NoGame]
        /\ request'[r].game = g /\ request'[r].gameVersion = game[g].version
        /\ game'[g].version = game[g].version + 1
    BY SubmitEffect
  <2>2. \A h \in Game : game'[h].version >= game[h].version
    BY <2>1, <1>a
  <2>3. ASSUME NEW q \in Request \ {r}, Live(q)
        PROVE  /\ request[q].gameVersion < game'[request[q].game].version
               /\ request[q].game = g => request[q].gameVersion # game[g].version
    BY <2>1, <2>2, <2>3, <1>0, <1>a DEF FingerprintIdentifies
  <2> QED
    BY <2>1, <2>3, <1>a DEF FingerprintIdentifies, Live
<1>2. ASSUME \A q \in Request : Live(q)' =>
               /\ Live(q) /\ request'[q].game = request[q].game
               /\ request'[q].gameVersion = request[q].gameVersion,
             \A h \in Game : game'[h].version >= game[h].version
      PROVE  FingerprintIdentifies'
  <2>1. \A h \in Game : game'[h].version \in Nat
    BY DEF TypeOK, GameRow
  <2>2. ASSUME NEW q \in Request, Live(q)'
        PROVE  request'[q].gameVersion < game'[request'[q].game].version
    BY <1>0, <1>2, <2>1, <2>2 DEF FingerprintIdentifies
  <2> QED
    BY <1>2, <2>2 DEF FingerprintIdentifies
<1>3. CASE Approving
  <2> PICK r \in Request, row \in RequestRow :
             request[r].status \in Waiting /\ Revised(row, r) /\ Approve(r, row)
    BY <1>3 DEF Approving
  <2> DEFINE g == request[r].game
  <2>1. /\ g \in Game /\ \A q \in Request \ {r} : request'[q] = request[q]
        /\ \A h \in Game \ {g} : game'[h] = game[h]
        /\ request[r] \in RequestRow /\ request'[r].game = g
        /\ request'[r].gameVersion = request[r].gameVersion
        /\ game'[g].version = game[g].version + 1
    BY ApproveEffect
  <2>2. \A h \in Game : game'[h].version >= game[h].version
    BY <2>1, <1>a
  <2> QED
    BY <1>2, <2>1, <2>2, RowIsLive DEF Live
<1>4. CASE MovingOn
  <2> PICK r \in Request, status \in Waiting, row \in RequestRow :
             request[r].status \in Waiting /\ Revised(row, r) /\ MoveOn(r, row, status)
    BY <1>4 DEF MovingOn
  <2>1. /\ game' = game /\ request[r] \in RequestRow
        /\ \A q \in Request \ {r} : request'[q] = request[q]
        /\ request'[r].game = request[r].game
        /\ request'[r].gameVersion = request[r].gameVersion
    BY MoveOnEffect
  <2> QED
    BY <1>2, <1>a, <2>1, RowIsLive DEF Live
<1>5. CASE Publishing
  <2> PICK g \in Game : PublishResult(g)
    BY <1>5 DEF Publishing
  <2>1. /\ request' = request /\ \A h \in Game \ {g} : game'[h] = game[h]
        /\ game'[g].version = game[g].version + 1
    BY PublishEffect
  <2> QED
    BY <1>2, <1>a, <2>1 DEF Live
<1>6. CASE Releasing
  <2> PICK r \in Request, outcome \in Failed, row \in RequestRow :
             request[r].status \in Waiting /\ Revised(row, r) /\ Release(r, row, outcome)
    BY <1>6 DEF Releasing
  <2> DEFINE g == request[r].game
  <2>1. /\ g \in Game /\ \A q \in Request \ {r} : request'[q] = request[q]
        /\ \A h \in Game \ {g} : game'[h] = game[h]
        /\ request[r] \in RequestRow /\ request'[r].game = g
        /\ request'[r].gameVersion = request[r].gameVersion
        /\ game'[g].version = game[g].version + 1 \/ game'[g].version = game[g].version
    BY ReleaseEffect
  <2>2. \A h \in Game : game'[h].version >= game[h].version
    BY <2>1, <1>a
  <2> QED
    BY <1>2, <2>1, <2>2, RowIsLive DEF Live
<1>7. CASE Idle
  BY <1>7 DEF Idle, FingerprintIdentifies, Live
<1> QED
  BY ShapeCases, <1>1, <1>3, <1>4, <1>5, <1>6, <1>7 DEF Shape

(* The pair of a game and the version a create command was sent for names  *)
(* at most one request, so replaying the command finds that request and no *)
(* other (find_matching_reschedule_request).                               *)
THEOREM FingerprintsIdentify == Spec => []FingerprintIdentifies
<1>1. Init => FingerprintIdentifies
  BY DEF Init, FingerprintIdentifies, Live
<1>2. TypeOK /\ TypeOK' /\ FingerprintIdentifies /\ [Next]_vars => FingerprintIdentifies'
  BY FingerprintStep
<1> QED
  BY <1>1, <1>2, TypeCorrect, PTL DEF Spec

(* A game only moves because a running request for it is approved, and to  *)
(* the place that was kept for that request.                               *)
THEOREM MovesByConsent == Spec => GameMovesByConsent
<1> DEFINE Consent ==
      \A g \in Game : ~ SamePlace(game'[g], game[g]) =>
        \E r \in Request :
          /\ request[r].status \in Waiting /\ request'[r].status = "APPROVED"
          /\ request[r].game = g /\ SamePlace(game'[g], request[r])
<1>1. ASSUME TypeOK, LockHeld, [Next]_vars
      PROVE  Consent
  <2>1. CASE Approving
    <3> PICK r \in Request, row \in RequestRow :
               request[r].status \in Waiting /\ Revised(row, r) /\ Approve(r, row)
      BY <2>1 DEF Approving
    <3>1. /\ \A h \in Game \ {request[r].game} : game'[h] = game[h]
          /\ SamePlace(game'[request[r].game], reservation[r])
          /\ request'[r].status = "APPROVED"
      BY <1>1, ApproveEffect
    <3>2. SamePlace(request[r], reservation[r])
      BY <1>1, StatusFacts DEF LockHeld, Live
    <3> QED
      BY <3>1, <3>2 DEF SamePlace
  <2>2. CASE Submitting
    <3> PICK r \in Request, a \in Account, t \in Team, g \in Game, s \in Slot, v \in Venue,
             asked \in ProcessRoute \cup {"DEFAULT"}, at \in Readings :
               Submit(r, a, t, g, s, v, asked, at)
      BY <2>2 DEF Submitting
    <3>1. /\ \A h \in Game \ {g} : game'[h] = game[h]
          /\ reservation'[r] = [status |-> "ACTIVE", slot |-> s, venue |-> v, game |-> NoGame]
          /\ SamePlace(game'[g], game[g])
      BY <1>1, SubmitEffect
    <3> QED
      BY <3>1 DEF SamePlace
  <2>3. CASE Releasing
    <3> PICK r \in Request, outcome \in Failed, row \in RequestRow :
               request[r].status \in Waiting /\ Revised(row, r) /\ Release(r, row, outcome)
      BY <2>3 DEF Releasing
    <3>1. /\ \A h \in Game \ {request[r].game} : game'[h] = game[h]
          /\ SamePlace(game'[request[r].game], game[request[r].game])
      BY <1>1, ReleaseEffect
    <3> QED
      BY <3>1 DEF SamePlace
  <2>4. CASE MovingOn \/ Idle
    BY <2>4 DEF MovingOn, MoveOn, Idle, SamePlace
  <2>5. CASE Publishing
    BY <1>1, <2>5, PublishEffect DEF Publishing, SamePlace
  <2> QED
    BY <1>1, ShapeCases, <2>1, <2>2, <2>3, <2>4, <2>5 DEF Shape
<1>2. TypeOK /\ LockHeld /\ [Next]_vars => [Consent]_vars
  BY <1>1
<1> QED
  BY <1>2, TypeCorrect, LocksHeld, PTL DEF Spec, GameMovesByConsent

-----------------------------------------------------------------------------
(* Capacity. *)

LEMMA FiniteRows ==
  ASSUME NEW s
  PROVE  /\ IsFiniteSet(GamesAt(s)) /\ IsFiniteSet(ReservedAt(s))
         /\ Cardinality(GamesAt(s)) \in Nat /\ Cardinality(ReservedAt(s)) \in Nat
<1>1. IsFiniteSet(Reservation)
  BY FiniteAssumption, FS_Union DEF Reservation
<1>2. GamesAt(s) \in SUBSET Game /\ ReservedAt(s) \in SUBSET Reservation
  BY DEF GamesAt, ReservedAt
<1>3. IsFiniteSet(GamesAt(s)) /\ IsFiniteSet(ReservedAt(s))
  BY <1>1, <1>2, FiniteAssumption, FS_Subset
<1> QED
  BY <1>3, FS_CardinalityType

LEMMA AddOne ==
  ASSUME NEW S, NEW x, IsFiniteSet(S), Cardinality(S) \in Nat
  PROVE  IsFiniteSet(S \cup {x}) /\ Cardinality(S \cup {x}) <= Cardinality(S) + 1
<1>1. /\ IsFiniteSet(S \cup {x})
      /\ \/ Cardinality(S \cup {x}) = Cardinality(S)
         \/ Cardinality(S \cup {x}) = Cardinality(S) + 1
  BY FS_AddElement
<1> QED
  BY <1>1

(* Fewer rows in a slot than the season allows stay fewer. *)
LEMMA NoMoreRows ==
  ASSUME NEW s \in Slot, WithinCapacity,
         GamesAt(s)' \subseteq GamesAt(s), ReservedAt(s)' \subseteq ReservedAt(s)
  PROVE  Occupancy(s)' <= Capacity[s]
<1>1. Cardinality(GamesAt(s)') <= Cardinality(GamesAt(s)) /\ Cardinality(GamesAt(s)') \in Nat
  BY FiniteRows, FS_Subset, FS_CardinalityType
<1>2. /\ Cardinality(ReservedAt(s)') <= Cardinality(ReservedAt(s))
      /\ Cardinality(ReservedAt(s)') \in Nat
  BY FiniteRows, FS_Subset, FS_CardinalityType
<1>3. Cardinality(GamesAt(s)) + Cardinality(ReservedAt(s)) <= Capacity[s]
  BY DEF WithinCapacity, Occupancy
<1>4. Capacity[s] \in Nat
  BY CalendarAssumption
<1> QED
  BY <1>1, <1>2, <1>3, <1>4, FiniteRows DEF Occupancy

LEMMA WithinCapacityStep ==
  ASSUME TypeOK, WithinCapacity, [Next]_vars
  PROVE  WithinCapacity'
<1>1. CASE Submitting
  <2> PICK r \in Request, a \in Account, t \in Team, g \in Game, s \in Slot, v \in Venue,
           asked \in ProcessRoute \cup {"DEFAULT"}, at \in Readings :
             Submit(r, a, t, g, s, v, asked, at)
    BY <1>1 DEF Submitting
  <2>1. /\ \A q \in Reservation \ {r} : reservation'[q] = reservation[q]
        /\ \A h \in Game \ {g} : game'[h] = game[h]
        /\ reservation'[r] = [status |-> "ACTIVE", slot |-> s, venue |-> v, game |-> NoGame]
        /\ game[g].status = "SCHEDULED" /\ game'[g].status = "SCHEDULED"
        /\ SamePlace(game'[g], game[g])
    BY SubmitEffect
  <2>2. \A x : GamesAt(x)' = GamesAt(x)
    BY <2>1 DEF GamesAt, SamePlace
  <2>3. \A x \in Slot \ {s} : ReservedAt(x)' \subseteq ReservedAt(x)
    BY <2>1 DEF ReservedAt
  <2>4. ReservedAt(s)' \subseteq ReservedAt(s) \cup {r}
    BY <2>1 DEF ReservedAt
  <2>5. Occupancy(s)' <= Capacity[s]
    <3>1. Cardinality(GamesAt(s)) + Cardinality(ReservedAt(s)) < Capacity[s]
      BY DEF Submit, SubmitAllowed, HasRoom, Occupancy
    <3>2. /\ IsFiniteSet(ReservedAt(s) \cup {r})
          /\ Cardinality(ReservedAt(s) \cup {r}) <= Cardinality(ReservedAt(s)) + 1
      BY FiniteRows, AddOne
    <3>3. /\ Cardinality(ReservedAt(s)') <= Cardinality(ReservedAt(s) \cup {r})
          /\ Cardinality(ReservedAt(s)') \in Nat /\ Cardinality(ReservedAt(s) \cup {r}) \in Nat
      BY <2>4, <3>2, FS_Subset, FS_CardinalityType
    <3>4. Cardinality(GamesAt(s)') = Cardinality(GamesAt(s))
      BY <2>2
    <3>5. Capacity[s] \in Nat
      BY CalendarAssumption
    <3> QED
      BY <3>1, <3>2, <3>3, <3>4, <3>5, FiniteRows DEF Occupancy
  <2>6. \A x \in Slot \ {s} : Occupancy(x)' <= Capacity[x]
    BY <2>2, <2>3, NoMoreRows
  <2> QED
    BY <2>5, <2>6 DEF WithinCapacity
<1>2. CASE Releasing
  <2> PICK r \in Request, outcome \in Failed, row \in RequestRow :
             request[r].status \in Waiting /\ Revised(row, r) /\ Release(r, row, outcome)
    BY <1>2 DEF Releasing
  <2> DEFINE g == request[r].game
  <2>1. /\ \A q \in Reservation \ {r} : reservation'[q] = reservation[q]
        /\ reservation[r].status # "ACTIVE" => reservation'[r] = reservation[r]
        /\ reservation[r].status = "ACTIVE" => reservation'[r].status = "RELEASED"
        /\ \A h \in Game \ {g} : game'[h] = game[h]
        /\ SamePlace(game'[g], game[g]) /\ game'[g].status = game[g].status
    BY ReleaseEffect
  <2>2. \A x : GamesAt(x)' \subseteq GamesAt(x) /\ ReservedAt(x)' \subseteq ReservedAt(x)
    BY <2>1 DEF GamesAt, ReservedAt, SamePlace
  <2> QED
    BY <2>2, NoMoreRows DEF WithinCapacity
<1>3. CASE Approving
  <2> PICK r \in Request, row \in RequestRow :
             request[r].status \in Waiting /\ Revised(row, r) /\ Approve(r, row)
    BY <1>3 DEF Approving
  <2> DEFINE g == request[r].game
  <2>1. /\ g \in Game /\ reservation[r] \in ReservationRow
        /\ \A q \in Reservation \ {r} :
             IF reservation[q].status = "CONVERTED" /\ reservation[q].game = g
             THEN reservation'[q].status = "RELEASED"
             ELSE reservation'[q] = reservation[q]
        /\ \A h \in Game \ {g} : game'[h] = game[h]
        /\ reservation[r].status = "ACTIVE" /\ reservation'[r].status = "CONVERTED"
        /\ SamePlace(game'[g], reservation[r]) /\ game'[g].status = game[g].status
    BY ApproveEffect
  <2> DEFINE s == reservation[r].slot
  <2>2. \A x : ReservedAt(x)' \subseteq ReservedAt(x) \ {r}
    BY <2>1 DEF ReservedAt
  <2>3. \A x \in Slot \ {s} : GamesAt(x)' \subseteq GamesAt(x)
    BY <2>1 DEF GamesAt, SamePlace
  <2>4. \A x : GamesAt(x)' \subseteq GamesAt(x) \cup {g}
    BY <2>1 DEF GamesAt
  <2>5. s \in Slot /\ r \in ReservedAt(s)
    BY <2>1 DEF ReservationRow, ReservedAt, Reservation
  <2>6. \A x \in Slot \ {s} : Occupancy(x)' <= Capacity[x]
    BY <2>2, <2>3, NoMoreRows
  <2>7. ASSUME NEW x \in Slot, x = s
        PROVE  Occupancy(x)' <= Capacity[x]
    <3>1. Cardinality(GamesAt(x)) + Cardinality(ReservedAt(x)) <= Capacity[x]
      BY DEF WithinCapacity, Occupancy
    <3>2. /\ IsFiniteSet(GamesAt(x) \cup {g})
          /\ Cardinality(GamesAt(x) \cup {g}) <= Cardinality(GamesAt(x)) + 1
      BY FiniteRows, AddOne
    <3>3. /\ Cardinality(GamesAt(x)') <= Cardinality(GamesAt(x) \cup {g})
          /\ Cardinality(GamesAt(x)') \in Nat /\ Cardinality(GamesAt(x) \cup {g}) \in Nat
      BY <2>4, <3>2, FS_Subset, FS_CardinalityType
    <3>4. /\ IsFiniteSet(ReservedAt(x) \ {r})
          /\ Cardinality(ReservedAt(x) \ {r}) = Cardinality(ReservedAt(x)) - 1
      BY <2>5, <2>7, FiniteRows, FS_RemoveElement
    <3>5. /\ Cardinality(ReservedAt(x)') <= Cardinality(ReservedAt(x) \ {r})
          /\ Cardinality(ReservedAt(x)') \in Nat /\ Cardinality(ReservedAt(x) \ {r}) \in Nat
      BY <2>2, <3>4, FS_Subset, FS_CardinalityType
    <3>6. Capacity[x] \in Nat
      BY CalendarAssumption
    <3> QED
      BY <3>1, <3>2, <3>3, <3>4, <3>5, <3>6, FiniteRows DEF Occupancy
  <2> HIDE DEF s
  <2>8. \A x \in Slot : Occupancy(x)' <= Capacity[x]
    BY <2>6, <2>7
  <2> QED
    BY <2>8 DEF WithinCapacity
<1>4. CASE MovingOn \/ Idle
  <2>1. \A x : GamesAt(x)' \subseteq GamesAt(x) /\ ReservedAt(x)' \subseteq ReservedAt(x)
    BY <1>4 DEF MovingOn, MoveOn, Idle, GamesAt, ReservedAt
  <2> QED
    BY <2>1, NoMoreRows DEF WithinCapacity
<1>5. CASE Publishing
  <2> PICK g \in Game : PublishResult(g)
    BY <1>5 DEF Publishing
  <2>1. /\ reservation' = reservation
        /\ \A h \in Game : /\ game'[h].slot = game[h].slot
                           /\ game'[h].status # "VOID" => game[h].status # "VOID"
    BY PublishEffect DEF SamePlace
  <2>2. \A x : GamesAt(x)' \subseteq GamesAt(x) /\ ReservedAt(x)' \subseteq ReservedAt(x)
    BY <2>1 DEF GamesAt, ReservedAt
  <2> QED
    BY <2>2, NoMoreRows DEF WithinCapacity
<1> QED
  BY ShapeCases, <1>1, <1>2, <1>3, <1>4, <1>5 DEF Shape

(* Games and kept slots together stay within the capacity of every slot,   *)
(* although only submit_reschedule counts: an approval fills the room its  *)
(* own reservation has held.                                               *)
THEOREM CapacityRespected == Spec => []WithinCapacity
<1>1. Init => WithinCapacity
  BY DEF Init
<1>2. TypeOK /\ WithinCapacity /\ [Next]_vars => WithinCapacity'
  BY WithinCapacityStep
<1> QED
  BY <1>1, <1>2, TypeCorrect, PTL DEF Spec

-----------------------------------------------------------------------------
(* Both together: courts are never promised twice and slots never overfull *)
(* (submit_reschedule, _approve_request, _release_request).                *)
THEOREM PlacesStayInOrder == Spec => []PlacesInOrder
<1>1. VenueExclusive /\ WithinCapacity => PlacesInOrder
  BY DEF PlacesInOrder
<1> QED
  BY <1>1, CourtsExclusive, CapacityRespected, PTL

(* Locks, allocations and reservations agree with requests and games.      *)
THEOREM LedgerStaysTrue == Spec => []LedgerAgrees
<1>1. LockHeld /\ AllocationFollowsGame /\ DatabaseAgrees => LedgerAgrees
  BY DEF LedgerAgrees
<1> QED
  BY <1>1, LocksHeld, AllocationsFollowGames, DatabaseNeverRefuses, PTL

-----------------------------------------------------------------------------
(* The preview of targets. *)

(* Every nonempty set of numbers has a least one (first-order, unlike the  *)
(* library's principle): numbers are ordered as the sets of those below.   *)
LEMMA LeastNatural ==
  ASSUME NEW N \in (SUBSET Nat) \ {{}}
  PROVE  \E n \in N : \A m \in N : n <= m
<1> DEFINE Below(n) == {k \in Nat : k < n}
           belows == {Below(n) : n \in N}
<1>1. ASSUME NEW n \in Nat
      PROVE  Below(n) \in FiniteSubsetsOf(Nat)
  <2>1. Below(n) = 0 .. (n - 1)
    OBVIOUS
  <2>2. IsFiniteSet(0 .. (n - 1))
    BY FS_Interval
  <2> QED
    BY <2>1, <2>2 DEF FiniteSubsetsOf
<1>2. belows \subseteq FiniteSubsetsOf(Nat) /\ belows # {}
  BY <1>1
<1>3. PICK b \in belows : \A c \in belows : ~ (<<c, b>> \in StrictSubsetOrdering(Nat))
  <2> HIDE DEF belows
  <2> QED
    BY <1>2, FS_StrictSubsetOrderingWellFounded, WFMin
<1>4. PICK n \in N : b = Below(n)
  OBVIOUS
<1>5. ASSUME NEW m \in N, m < n
      PROVE  FALSE
  <2>1. /\ Below(m) \in SUBSET Nat /\ Below(n) \in SUBSET Nat
        /\ Below(m) \subseteq Below(n) /\ m \in Below(n) /\ m \notin Below(m)
    BY <1>5
  <2>2. <<Below(m), Below(n)>> \in StrictSubsetOrdering(Nat)
    BY <2>1 DEF StrictSubsetOrdering
  <2> QED
    BY <1>3, <1>4, <2>2
<1> QED
  BY <1>5

(* Where a court is free, one of the free courts comes first.              *)
LEMMA FirstVenueExists ==
  ASSUME NEW s \in Slot, Venue \ OccupiedVenues(s) # {}
  PROVE  \E v \in Venue : FirstAvailableVenue(s, v)
<1> DEFINE free == Venue \ OccupiedVenues(s)
           ranks == {VenueRank[v] : v \in free}
<1>1. ranks \in (SUBSET Nat) \ {{}}
  BY CalendarAssumption
<1>2. PICK n \in ranks : \A m \in ranks : n <= m
  <2> HIDE DEF ranks
  <2> QED
    BY <1>1, LeastNatural
<1> QED
  BY <1>2 DEF FirstAvailableVenue

(* The date of the submission deadline is before the game itself.          *)
LEMMA DeadlineBeforeGame ==
  ASSUME TypeOK, NEW g \in Game, NEW s \in Slot,
         now < SubmitDeadline(Day[game[g].slot], Day[s])
  PROVE  now <= Day[game[g].slot]
<1>1. Day[game[g].slot] \in Nat /\ Day[s] \in Nat /\ now \in Nat
  BY CalendarAssumption DEF TypeOK, GameRow
<1> QED
  BY <1>1 DEF SubmitDeadline, DeadlineFor, Earlier

LEMMA PreviewIsHonest ==
  ASSUME TypeOK, DatabaseAgrees, Request # {}
  PROVE  PreviewHonest
<1> SUFFICES ASSUME NEW a \in Account, NEW g \in Game,
                    NEW asked \in ProcessRoute \cup {"DEFAULT"}, NEW s \in Slot
             PROVE  s \in OfferedTargets(a, g, asked) <=>
                      \E t \in Teams(g), v \in Venue, r \in Request :
                        /\ SubmitAllowed(a, t, g, s, asked, now) /\ FirstAvailableVenue(s, v)
                        /\ NobodyElseAt(r, [slot |-> s, venue |-> v])
  BY DEF PreviewHonest, OfferedTargets
<1> DEFINE from == Day[game[g].slot]
           type == DateRelation(from, Day[s])
<1>1. type \in {"SAME_WEEK", "CROSS_WEEK"}
  BY DEF DateRelation
<1>2. (ResolvedRoute(asked, type) = "ORDINARY" => type = "SAME_WEEK")
        <=> (asked = "ORDINARY" => type = "SAME_WEEK")
  BY <1>1 DEF ResolvedRoute, ProcessRoute
<1> HIDE DEF type
<1>3. ASSUME NEW t \in Teams(g)
      PROVE  SubmitAllowed(a, t, g, s, asked, now) <=>
               /\ game[g].status = "SCHEDULED" /\ g \in LeaderAdjustable
               /\ game[g].lock = NoRequest /\ Leads(a, t)
               /\ s # game[g].slot
               /\ now < SubmitDeadline(from, Day[s])
               /\ OfferedFor(g, s)
               /\ asked = "ORDINARY" => type = "SAME_WEEK"
  BY <1>2, DeadlineBeforeGame DEF SubmitAllowed, OfferedFor, type
<1>4. ASSUME NEW v \in Venue, FirstAvailableVenue(s, v), NEW r \in Request
      PROVE  NobodyElseAt(r, [slot |-> s, venue |-> v])
  BY <1>4 DEF DatabaseAgrees, NobodyElseAt, FirstAvailableVenue
<1>5. Venue \ OccupiedVenues(s) # {} <=> \E v \in Venue : FirstAvailableVenue(s, v)
  BY FirstVenueExists DEF FirstAvailableVenue
<1>6. s \in OfferedTargets(a, g, asked) <=>
        /\ s # game[g].slot
        /\ game[g].status = "SCHEDULED" /\ g \in LeaderAdjustable
        /\ game[g].lock = NoRequest
        /\ \E t \in Teams(g) : Leads(a, t)
        /\ now < SubmitDeadline(from, Day[s])
        /\ OfferedFor(g, s)
        /\ Venue \ OccupiedVenues(s) # {}
        /\ asked = "ORDINARY" => type = "SAME_WEEK"
  BY DEF OfferedTargets, type
<1> QED
  BY <1>3, <1>4, <1>5, <1>6

(* The preview offers exactly the slots that a submission accepts at that  *)
(* moment (available_reschedule_targets, submit_reschedule), as soon as    *)
(* the table can take one request more.                                    *)
THEOREM PreviewsAreHonest == (Request # {}) /\ Spec => []PreviewHonest
<1> DEFINE Setup == Request # {}
<1>1. Setup => Setup'
  OBVIOUS
<1>2. Setup /\ TypeOK /\ DatabaseAgrees => PreviewHonest
  BY PreviewIsHonest
<1> HIDE DEF Setup
<1>3. Setup /\ Spec => []PreviewHonest
  <2>1. Setup => []Setup
    BY <1>1, PTL
  <2> QED
    BY <2>1, <1>2, TypeCorrect, DatabaseNeverRefuses, PTL
<1> QED
  BY <1>3 DEF Setup

-----------------------------------------------------------------------------
(* Rescheduling implements CourtBooking: the courts that games own and the *)
(* options they hold change only as the abstract booking of courts allows. *)
(* A request is an option of its game while it runs; approving it          *)
(* exercises the option, every other end drops it, and everything else     *)
(* the negotiation does is invisible.                                      *)

Place == Slot \X (Venue \cup Hall)
Booked(g) == IF game[g].status = "VOID" THEN NoPlace ELSE PlaceOf(game[g])
Option(g) == IF game[g].lock = NoRequest THEN NoPlace ELSE PlaceOf(request[game[g].lock])

(* The steps of CourtBooking, game by game. *)

LEMMA TakesOption ==
  ASSUME NEW g \in Game, NEW p \in Place,
         Booked(g) # NoPlace, Option(g) = NoPlace,
         \A h \in Game : Booked(h) # p /\ Option(h) # p,
         \A h \in Game : Booked(h)' = Booked(h),
         \A h \in Game \ {g} : Option(h)' = Option(h),
         Option(g)' = p
  PROVE  Booking!BookingNext
<1>1. Booking!TakeOption(g, p)
  <2> DEFINE opt == [h \in Game |-> Option(h)]
             bkd == [h \in Game |-> Booked(h)]
  <2>1. bkd' = bkd
    OBVIOUS
  <2>2. opt' = [opt EXCEPT ![g] = p]
    OBVIOUS
  <2> QED
    BY <2>1, <2>2 DEF Booking!TakeOption, Booking!Unclaimed, Booked, Option
<1> QED
  BY <1>1 DEF Booking!BookingNext, Place

LEMMA ExercisesOption ==
  ASSUME NEW g \in Game, Option(g) # NoPlace,
         \A h \in Game \ {g} : Booked(h)' = Booked(h) /\ Option(h)' = Option(h),
         Booked(g)' = Option(g), Option(g)' = NoPlace
  PROVE  Booking!BookingNext
<1>1. Booking!ExerciseOption(g)
  <2> DEFINE opt == [h \in Game |-> Option(h)]
             bkd == [h \in Game |-> Booked(h)]
  <2>1. bkd' = [bkd EXCEPT ![g] = Option(g)]
    OBVIOUS
  <2>2. opt' = [opt EXCEPT ![g] = NoPlace]
    OBVIOUS
  <2> QED
    BY <2>1, <2>2 DEF Booking!ExerciseOption, Booked, Option
<1> QED
  BY <1>1 DEF Booking!BookingNext

LEMMA DropsOption ==
  ASSUME NEW g \in Game, Option(g) # NoPlace,
         \A h \in Game : Booked(h)' = Booked(h),
         \A h \in Game \ {g} : Option(h)' = Option(h), Option(g)' = NoPlace
  PROVE  Booking!BookingNext
<1>1. Booking!DropOption(g)
  <2> DEFINE opt == [h \in Game |-> Option(h)]
             bkd == [h \in Game |-> Booked(h)]
  <2>1. bkd' = bkd
    OBVIOUS
  <2>2. opt' = [h \in Game |-> IF h = g THEN NoPlace ELSE Option(h)]
    OBVIOUS
  <2> QED
    BY <2>1, <2>2 DEF Booking!DropOption, Booked, Option
<1> QED
  BY <1>1 DEF Booking!BookingNext

LEMMA BooksNothing ==
  ASSUME \A h \in Game : Booked(h)' = Booked(h) /\ Option(h)' = Option(h)
  PROVE  UNCHANGED Booking!bookingVars
<1> DEFINE opt == [h \in Game |-> Option(h)]
           bkd == [h \in Game |-> Booked(h)]
<1>1. bkd' = bkd
  OBVIOUS
<1>2. opt' = opt
  OBVIOUS
<1> QED
  BY <1>1, <1>2 DEF Booking!bookingVars, Booked, Option

-----------------------------------------------------------------------------
(* The initial states and the steps of the service. *)

LEMMA NoPlaceIsNone ==
  ASSUME TypeOK
  PROVE  /\ \A g \in Game : PlaceOf(game[g]) \in Place /\ PlaceOf(game[g]) # NoPlace
         /\ \A r \in Request : request[r] \in RequestRow =>
              PlaceOf(request[r]) \in Place /\ PlaceOf(request[r]) # NoPlace
BY IdentityAssumption DEF TypeOK, GameRow, RequestRow, PlaceOf, Place

LEMMA SamePlaceOf ==
  ASSUME NEW row1, NEW row2
  PROVE  SamePlace(row1, row2) <=> PlaceOf(row1) = PlaceOf(row2)
BY DEF SamePlace, PlaceOf

LEMMA RunningRequest ==
  ASSUME TypeOK, LockHeld, NEW g \in Game, game[g].lock # NoRequest
  PROVE  /\ game[g].lock \in Request /\ request[game[g].lock] \in RequestRow
         /\ Live(game[g].lock)
         /\ request[game[g].lock].game = g /\ reservation[game[g].lock].status = "ACTIVE"
         /\ SamePlace(request[game[g].lock], reservation[game[g].lock])
<1>1. game[g].lock \in Request
  BY DEF TypeOK, GameRow
<1> QED
  BY <1>1, LiveRow DEF LockHeld

LEMMA BookingInitially ==
  ASSUME Init, TypeOK
  PROVE  Booking!BookingInit
<1>1. [g \in Game |-> Booked(g)] \in [Game -> Place \cup {NoPlace}]
  BY NoPlaceIsNone DEF Booked
<1>2. ASSUME NEW g \in Game, NEW h \in Game, g # h
      PROVE  Booked(g) # Booked(h) \/ Booked(g) = NoPlace
  <2>1. CASE game[g].status # "VOID" /\ game[h].status # "VOID"
    <3>1. ~ SamePlace(game[g], game[h])
      BY <1>2, <2>1 DEF Init, VenueExclusive
    <3> QED
      BY <2>1, <3>1, SamePlaceOf DEF Booked
  <2>2. CASE game[g].status = "VOID" \/ game[h].status = "VOID"
    BY <2>2, NoPlaceIsNone DEF Booked
  <2> QED
    BY <2>1, <2>2
<1>3. [g \in Game |-> Option(g)] = [g \in Game |-> NoPlace]
  BY DEF Init, StartGame, Option
<1> QED
  BY <1>1, <1>2, <1>3 DEF Booking!BookingInit, Booked, Option, Place

LEMMA BookingStep ==
  ASSUME TypeOK, TypeOK', LockHeld, LockHeld', Allocation, [Next]_vars
  PROVE  [Booking!BookingNext]_(Booking!bookingVars)
<1>1. CASE Submitting
  <2> PICK r \in Request, a \in Account, t \in Team, g \in Game, s \in Slot, v \in Venue,
           asked \in ProcessRoute \cup {"DEFAULT"}, at \in Readings :
             Submit(r, a, t, g, s, v, asked, at)
    BY <1>1 DEF Submitting
  <2>1. /\ \A q \in Request \ {r} : request'[q] = request[q]
        /\ \A h \in Game \ {g} : game'[h] = game[h]
        /\ request[r] = NoRow /\ request'[r] \in RequestRow
        /\ request'[r].slot = s /\ request'[r].venue = v
        /\ reservation'[r] = [status |-> "ACTIVE", slot |-> s, venue |-> v, game |-> NoGame]
        /\ game[g].lock = NoRequest /\ game[g].status = "SCHEDULED"
        /\ SamePlace(game'[g], game[g]) /\ game'[g].status = "SCHEDULED"
        /\ game'[g].lock = r
    BY SubmitEffect
  <2>2. <<s, v>> \in Place /\ <<s, v>> # NoPlace
    BY IdentityAssumption DEF Place
  <2>3. Booked(g) # NoPlace /\ Option(g) = NoPlace
    BY <2>1, NoPlaceIsNone DEF Booked, Option
  <2>4. v \notin OccupiedVenues(s)
    BY DEF Submit, FirstAvailableVenue
  <2>5. ASSUME NEW h \in Game
        PROVE  Booked(h) # <<s, v>>
    BY <2>2, <2>4 DEF Booked, PlaceOf, OccupiedVenues, GamesAt
  <2>6. ASSUME NEW h \in Game
        PROVE  Option(h) # <<s, v>>
    <3>1. CASE game[h].lock = NoRequest
      BY <2>2, <3>1 DEF Option
    <3>2. CASE game[h].lock # NoRequest
      <4>1. /\ game[h].lock \in Request /\ reservation[game[h].lock].status = "ACTIVE"
            /\ SamePlace(request[game[h].lock], reservation[game[h].lock])
        BY <3>2, RunningRequest
      <4>2. ~ (reservation[game[h].lock].slot = s /\ reservation[game[h].lock].venue = v)
        BY <2>4, <4>1 DEF OccupiedVenues, ReservedAt, Reservation
      <4> QED
        BY <3>2, <4>1, <4>2 DEF Option, PlaceOf, SamePlace
    <3> QED
      BY <3>1, <3>2
  <2>7. ASSUME NEW h \in Game
        PROVE  Booked(h)' = Booked(h)
    BY <2>1, SamePlaceOf DEF Booked
  <2>8. ASSUME NEW h \in Game \ {g}
        PROVE  Option(h)' = Option(h)
    <3>1. CASE game[h].lock = NoRequest
      BY <2>1, <3>1 DEF Option
    <3>2. CASE game[h].lock # NoRequest
      BY <2>1, <3>2, RunningRequest DEF Option, Live
    <3> QED
      BY <3>1, <3>2
  <2>9. Option(g)' = <<s, v>>
    BY <2>1, IdentityAssumption DEF Option, PlaceOf
  <2> QED
    BY <2>2, <2>3, <2>5, <2>6, <2>7, <2>8, <2>9, TakesOption
<1>2. CASE Releasing
  <2> PICK r \in Request, outcome \in Failed, row \in RequestRow :
             request[r].status \in Waiting /\ Revised(row, r) /\ Release(r, row, outcome)
    BY <1>2 DEF Releasing
  <2> PICK g : g = request[r].game
    OBVIOUS
  <2>1. /\ g \in Game
        /\ \A q \in Request \ {r} : request'[q] = request[q]
        /\ \A h \in Game \ {g} : game'[h] = game[h]
        /\ request[r] \in RequestRow
        /\ SamePlace(game'[g], game[g]) /\ game'[g].status = game[g].status
        /\ game'[g].lock = IF game[g].lock = r THEN NoRequest ELSE game[g].lock
    BY ReleaseEffect
  <2>2. game[g].lock = r
    BY <2>1, RowIsLive DEF LockHeld, Live
  <2>3. Option(g) # NoPlace /\ Option(g)' = NoPlace
    BY <2>1, <2>2, NoPlaceIsNone, IdentityAssumption DEF Option
  <2>4. \A h \in Game : Booked(h)' = Booked(h)
    BY <2>1, SamePlaceOf DEF Booked
  <2>5. \A h \in Game \ {g} : Option(h)' = Option(h)
    <3> SUFFICES ASSUME NEW h \in Game \ {g} PROVE Option(h)' = Option(h)
      OBVIOUS
    <3>1. game[h].lock # NoRequest => game[h].lock \in Request \ {r}
      BY <2>2, RunningRequest, <2>1
    <3> QED
      BY <2>1, <3>1 DEF Option
  <2> QED
    BY <2>1, <2>3, <2>4, <2>5, DropsOption
<1>3. CASE Approving
  <2> PICK r \in Request, row \in RequestRow :
             request[r].status \in Waiting /\ Revised(row, r) /\ Approve(r, row)
    BY <1>3 DEF Approving
  <2> PICK g : g = request[r].game
    OBVIOUS
  <2>1. /\ g \in Game
        /\ \A q \in Request \ {r} : request'[q] = request[q]
        /\ \A h \in Game \ {g} : game'[h] = game[h]
        /\ request[r] \in RequestRow
        /\ game[g].lock = r /\ game'[g].lock = NoRequest
        /\ SamePlace(game'[g], reservation[r]) /\ game'[g].status = game[g].status
    BY ApproveEffect
  <2>2. SamePlace(request[r], reservation[r])
    BY <2>1, RunningRequest, IdentityAssumption
  <2>3. Option(g) = PlaceOf(request[r]) /\ Option(g) # NoPlace /\ Option(g)' = NoPlace
    BY <2>1, NoPlaceIsNone, IdentityAssumption DEF Option
  <2>4. Booked(g)' = Option(g)
    <3>1. game'[g].status # "VOID"
      BY <2>1, IdentityAssumption DEF Allocation, LockedIsPlayed
    <3> QED
      BY <2>1, <2>2, <2>3, <3>1 DEF Booked, PlaceOf, SamePlace
  <2>5. \A h \in Game \ {g} : Booked(h)' = Booked(h) /\ Option(h)' = Option(h)
    <3> SUFFICES ASSUME NEW h \in Game \ {g}
                 PROVE  Booked(h)' = Booked(h) /\ Option(h)' = Option(h)
      OBVIOUS
    <3>1. game[h].lock # NoRequest => game[h].lock \in Request \ {r}
      BY <2>1, RunningRequest, IdentityAssumption
    <3> QED
      BY <2>1, <3>1 DEF Option, Booked
  <2> QED
    BY <2>1, <2>3, <2>4, <2>5, ExercisesOption
<1>4. CASE MovingOn
  <2> PICK r \in Request, status \in Waiting, row \in RequestRow :
             request[r].status \in Waiting /\ Revised(row, r) /\ MoveOn(r, row, status)
    BY <1>4 DEF MovingOn
  <2>1. /\ game' = game
        /\ \A q \in Request : PlaceOf(request'[q]) = PlaceOf(request[q])
    BY MoveOnEffect DEF PlaceOf, SamePlace
  <2>2. \A h \in Game : game[h].lock # NoRequest => game[h].lock \in Request
    BY RunningRequest
  <2> QED
    BY <2>1, <2>2, BooksNothing DEF Booked, Option
<1>5. CASE Publishing
  <2> PICK g \in Game : PublishResult(g)
    BY <1>5 DEF Publishing
  <2>1. /\ request' = request /\ \A h \in Game \ {g} : game'[h] = game[h]
        /\ SamePlace(game'[g], game[g]) /\ game'[g].lock = game[g].lock
        /\ game[g].status # "VOID" /\ game'[g].status # "VOID"
    BY PublishEffect
  <2> QED
    BY <2>1, SamePlaceOf, BooksNothing DEF Booked, Option
<1>6. CASE Idle
  BY <1>6, BooksNothing DEF Idle, Booked, Option
<1> QED
  BY ShapeCases, <1>1, <1>2, <1>3, <1>4, <1>5, <1>6 DEF Shape

(* The service implements the abstract booking of courts: no interleaving  *)
(* of leaders, superadmins, worker and result publication gives a court    *)
(* that somebody else owns or has an option on, or exercises an option     *)
(* that was given up.                                                      *)
THEOREM Implementation == Spec => BookingImplemented
<1>1. Init /\ TypeOK => Booking!BookingInit
  BY BookingInitially
<1>2. TypeOK /\ TypeOK' /\ LockHeld /\ LockHeld' /\ Allocation /\ [Next]_vars
      => [Booking!BookingNext]_(Booking!bookingVars)
  BY BookingStep
<1> QED
  BY <1>1, <1>2, TypeCorrect, LocksHeld, AllocationInvariant, PTL
  DEF Spec, BookingImplemented, Booking!BookingSpec
=============================================================================
