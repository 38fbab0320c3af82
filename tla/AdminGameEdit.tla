--------------------------- MODULE AdminGameEdit ----------------------------
(***************************************************************************)
(* A superadmin edits a game directly (update_admin_game of                *)
(* core/api_mobile_admin.py) while requests are running.  The edit moves   *)
(* the game, sets its status and keeps its allocation in step; a running   *)
(* request is cancelled first if the superadmin agrees to that.  With      *)
(* override_rules the conflicts are reported but do not stop the edit.     *)
(*                                                                         *)
(* The columns that no rule of rescheduling reads (scores, start time,     *)
(* leader_adjustable) are left out, and the two teams of a game stay.      *)
(***************************************************************************)
EXTENDS Rescheduling

CONSTANTS
  Overrides,       \* the values of override_rules that superadmins send
  Edited,          \* the games that superadmins edit
  MaxEditVersion   \* bound on the version of an edited game

ASSUME EditAssumption ==
  /\ Edited \subseteq Game /\ Overrides \subseteq BOOLEAN /\ MaxEditVersion \in Nat
  /\ NoRequest \notin Game

VARIABLES
  published,  \* the games whose scoresheet is published
  reply       \* what the last edit answered

editVars == <<now, game, request, reservation, confirmation, leader, published, reply>>

EditTypeOK == TypeOK /\ published \subseteq Game /\ reply \in {"none", "ok", "forced", "error"}

Status == {"SCHEDULED", "COMPLETED", "FORFEIT", "VOID"}

(* A payload: the new slot, the name of the place, whether it is chosen    *)
(* from the standard courts or typed in, the status and the two flags.     *)
Payload ==
  {p \in [slot : Slot, venue : Venue \cup Hall, standard : BOOLEAN, status : Status,
          cancel : BOOLEAN, override : Overrides] : p.standard => p.venue \in Venue}

(* What is refused before anything is written. *)
EditAllowed(g, p) ==
  /\ g \in published => p.status = game[g].status
  /\ game[g].lock # NoRequest => p.cancel

(* The other games and the running requests of the target slot, once the   *)
(* request of g itself is cancelled.                                       *)
OtherGames(g, s) == GamesAt(s) \ {g}
OtherReserved(g, s) == ReservedAt(s) \ {game[g].lock}

VenueTaken(g, p) ==
  \/ \E h \in OtherGames(g, p.slot) : game[h].venue = p.venue
  \/ \E q \in OtherReserved(g, p.slot) : reservation[q].venue = p.venue
TeamTaken(g, p) == \E h \in OtherGames(g, p.slot) : Teams(h) \cap Teams(g) # {}
SlotFullByOne(g, p) ==
  Cardinality(OtherGames(g, p.slot)) + Cardinality(OtherReserved(g, p.slot)) > Capacity[p.slot]
SlotFull(g, p) ==
  Cardinality(OtherGames(g, p.slot)) + Cardinality(OtherReserved(g, p.slot)) >= Capacity[p.slot]

(* What is refused after the running request was cancelled. *)
EditFits(g, p) ==
  p.override \/ (~ VenueTaken(g, p) /\ ~ TeamTaken(g, p) /\ ~ SlotFull(g, p))

(* The tables after the running request of g, if any, was cancelled.       *)
CancelledReservation(g) ==
  [q \in Reservation |-> IF q = game[g].lock THEN GivenBack(reservation[q]) ELSE reservation[q]]
CancelledRequest(g) ==
  [r \in Request |-> IF r = game[g].lock THEN Advanced(request[r], "ADMIN_CANCELLED") ELSE request[r]]
CancelledGameStillLocked(g) == game[g]
CancelledGame(g) ==
  IF game[g].lock = NoRequest THEN game[g] ELSE Unlocked(game[g], game[g].lock)

(* The allocation the edit leaves behind: a game on a standard court has   *)
(* one, a voided game or one elsewhere has none.                           *)
AllocationRow(g) ==
  IF \E q \in Reservation : reservation[q].status = "CONVERTED" /\ reservation[q].game = g
  THEN CHOOSE q \in Reservation : reservation[q].status = "CONVERTED" /\ reservation[q].game = g
  ELSE g
Allocates(p) == p.standard /\ p.status # "VOID"
AllocatedNeverFreed(q, g, p) ==
  IF Allocates(p) /\ q = AllocationRow(g)
  THEN [status |-> "CONVERTED", slot |-> p.slot, venue |-> p.venue, game |-> g]
  ELSE CancelledReservation(g)[q]
Allocated(q, g, p) ==
  LET row == CancelledReservation(g)[q] IN
  IF Allocates(p) /\ q = AllocationRow(g)
  THEN [status |-> "CONVERTED", slot |-> p.slot, venue |-> p.venue, game |-> g]
  ELSE IF row.status = "CONVERTED" /\ row.game = g
       THEN [row EXCEPT !.status = "RELEASED"]
       ELSE row

(* The unique constraint rejects the whole transaction. *)
AllocationClashes(g, p) ==
  /\ Allocates(p)
  /\ \E q \in Reservation \ {AllocationRow(g), game[g].lock} :
       Occupying(q) /\ SamePlace(reservation[q], p)

EditApplied(g, p) ==
  /\ EditAllowed(g, p) /\ EditFits(g, p) /\ ~ AllocationClashes(g, p)
  /\ game' = [game EXCEPT ![g] =
       [CancelledGame(g) EXCEPT !.slot = p.slot, !.venue = p.venue, !.status = p.status,
                                !.version = CancelledGame(g).version + 1]]
  /\ request' = CancelledRequest(g)
  /\ reservation' = [q \in Reservation |-> Allocated(q, g, p)]
  /\ reply' = IF p.override THEN "forced" ELSE "ok"
  /\ UNCHANGED <<now, confirmation, leader, published>>

(* A check that fails after the cancellation returns an error from inside  *)
(* the atomic block, which commits what was written so far.                *)
EditRefusedLate(g, p) ==
  /\ EditAllowed(g, p) /\ ~ EditFits(g, p)
  /\ game' = [game EXCEPT ![g] = CancelledGame(g)]
  /\ request' = CancelledRequest(g)
  /\ reservation' = CancelledReservation(g)
  /\ reply' = "error"
  /\ UNCHANGED <<now, confirmation, leader, published>>

EditRefused(g, p) ==
  /\ ~ EditAllowed(g, p) \/ (EditFits(g, p) /\ AllocationClashes(g, p))
  /\ reply' = "error"
  /\ UNCHANGED <<now, game, request, reservation, confirmation, leader, published>>

EditGame(g) ==
  /\ game[g].version < MaxEditVersion
  /\ \E p \in Payload : EditApplied(g, p) \/ EditRefusedLate(g, p) \/ EditRefused(g, p)

-----------------------------------------------------------------------------
EditInit == Init /\ published = {} /\ reply = "none"

(* The negotiation goes on beside the edits. *)
Negotiate ==
  /\ \/ \E r \in Request : LeaderStep(r) \/ AdminStep(r) \/ WorkerStep(r)
     \/ Tick
  /\ reply' = "none"
  /\ UNCHANGED published

Publish(g) == PublishResult(g) /\ published' = published \cup {g} /\ reply' = "none"

EditNext ==
  \/ Negotiate
  \/ \E g \in Game : Publish(g)
  \/ \E g \in Edited : EditGame(g)

EditSpec == EditInit /\ [][EditNext]_editVars

-----------------------------------------------------------------------------
(* A running request is never left behind by its game: the game changes    *)
(* place only when its request is decided in the same transaction, or when *)
(* it has none.                                                            *)
GameNotPulledAway ==
  [][\A g \in Game : ~ SamePlace(game'[g], game[g]) =>
       /\ game'[g].lock = NoRequest
       /\ game[g].lock # NoRequest => request'[game[g].lock].status \in Terminal]_editVars

(* Requests and edits take turns on the same courts, and only an edit that  *)
(* overrides the rules puts two games on one court or too many in a slot;   *)
(* what an override left behind spoils nothing later.                       *)
OnlyOverridesOverfill ==
  [][PlacesInOrder /\ reply' # "forced" => PlacesInOrder']_editVars

(* What negotiation relies on survives the edits: locks, allocations and    *)
(* reservations agree (update_admin_game rewrites all three).               *)
EditKeepsRows == EditTypeOK /\ LedgerAgrees

(* README.md:37: key commands leave no partial write when they fail.  An   *)
(* edit that answers an error has changed nothing.                         *)
FailedEditChangesNothing ==
  [][reply' = "error" =>
       UNCHANGED <<now, game, request, reservation, confirmation, leader, published>>]_editVars
=============================================================================
