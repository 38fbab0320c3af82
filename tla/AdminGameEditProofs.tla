------------------------- MODULE AdminGameEditProofs ------------------------
(***************************************************************************)
(* Proofs about AdminGameEdit.  A step of the negotiation is a step of     *)
(* Rescheduling, whose invariants are inductive without a word about how   *)
(* the game came to its place; so only the edits have to be considered.    *)
(* An edit ends the request of the game, then rewrites the game and its    *)
(* allocation, or answers an error after the first half.                   *)
(***************************************************************************)
EXTENDS AdminGameEdit, ReschedulingProofs

(* What every invariant needs of the others. *)
Ledger == TypeOK /\ LockHeld /\ PlacesUnique /\ Allocation

(* What an edit of g does to requests, games and types, whether it is      *)
(* applied or refused late: the running request ends, its slot is free.    *)
RequestEnded(g) ==
  /\ \A h \in Game \ {g} : game'[h] = game[h]
  /\ game'[g] \in GameRow /\ game'[g].lock = NoRequest
  /\ \A r \in Request : r # game[g].lock => request'[r] = request[r]
  /\ game[g].lock # NoRequest =>
       /\ request'[game[g].lock] \in RequestRow
       /\ request'[game[g].lock].status = "ADMIN_CANCELLED"
       /\ reservation'[game[g].lock] \in ReservationRow
       /\ reservation'[game[g].lock].status = "RELEASED"

(* Every other reservation is kept, unless it is an allocation.            *)
OthersReserved(g) ==
  \A q \in Request : q # game[g].lock =>
    \/ reservation'[q] = reservation[q]
    \/ /\ reservation[q].status = "CONVERTED"
       /\ reservation'[q].status \in {"CONVERTED", "RELEASED"}

AllocatedRow(g, p) == [status |-> "CONVERTED", slot |-> p.slot, venue |-> p.venue, game |-> g]

(* What the edit p of g makes of the reservations. *)
Reallocated(g, p) ==
  \A q \in Reservation :
    IF Allocates(p) /\ q = AllocationRow(g) THEN reservation'[q] = AllocatedRow(g, p)
    ELSE IF q = game[g].lock \/ (reservation[q].status = "CONVERTED" /\ reservation[q].game = g)
    THEN reservation'[q].status = "RELEASED"
    ELSE reservation'[q] = reservation[q]

-----------------------------------------------------------------------------
(* What an edit does to the rows. *)

(* The request that holds the lock of g. *)
LEMMA LockingRequest ==
  ASSUME TypeOK, LockHeld, NEW g \in Game, game[g].lock # NoRequest
  PROVE  /\ game[g].lock \in Request /\ request[game[g].lock] \in RequestRow
         /\ request[game[g].lock].game = g /\ request[game[g].lock].status \in Waiting
         /\ reservation[game[g].lock] \in ReservationRow
         /\ reservation[game[g].lock].status = "ACTIVE"
<1>1. game[g].lock \in Request
  BY DEF TypeOK, GameRow
<1>2. /\ Live(game[g].lock) /\ request[game[g].lock].game = g
      /\ request[game[g].lock].status \in Waiting
      /\ reservation[game[g].lock].status = "ACTIVE"
  BY <1>1 DEF LockHeld
<1> QED
  BY <1>1, <1>2, WaitingRow DEF TypeOK, Reservation, NoRow

LEMMA AllocationRowIs ==
  ASSUME NEW g \in Game
  PROVE  /\ AllocationRow(g) \in Reservation
         /\ \/ AllocationRow(g) = g
            \/ /\ reservation[AllocationRow(g)].status = "CONVERTED"
               /\ reservation[AllocationRow(g)].game = g
BY DEF AllocationRow, Reservation

LEMMA AllocationNotLocked ==
  ASSUME TypeOK, LockHeld, NEW g \in Game
  PROVE  AllocationRow(g) # game[g].lock
<1>1. CASE game[g].lock = NoRequest
  BY <1>1, AllocationRowIs, EditAssumption, IdentityAssumption DEF Reservation
<1>2. CASE game[g].lock # NoRequest
  BY <1>2, AllocationRowIs, LockingRequest, IdentityAssumption
<1> QED
  BY <1>1, <1>2

LEMMA CancelledGameRow ==
  ASSUME TypeOK, NEW g \in Game
  PROVE  /\ CancelledGame(g) \in GameRow /\ CancelledGame(g).lock = NoRequest
         /\ CancelledGame(g).version + 1 \in Nat
         /\ SamePlace(CancelledGame(g), game[g]) /\ CancelledGame(g).status = game[g].status
<1>1. game[g] \in GameRow /\ game[g].version + 1 \in Nat
  BY DEF TypeOK, GameRow
<1>2. CASE game[g].lock = NoRequest
  BY <1>1, <1>2 DEF CancelledGame, SamePlace, GameRow
<1>3. CASE game[g].lock # NoRequest
  <2>1. CancelledGame(g) =
          [game[g] EXCEPT !.lock = NoRequest, !.version = game[g].version + 1]
    BY <1>3 DEF CancelledGame, Unlocked
  <2>2. /\ CancelledGame(g).version = game[g].version + 1
        /\ CancelledGame(g).lock = NoRequest /\ CancelledGame(g).status = game[g].status
        /\ SamePlace(CancelledGame(g), game[g])
    BY <1>1, <2>1 DEF GameRow, SamePlace
  <2>3. CancelledGame(g) \in GameRow
    BY <1>1, <2>1 DEF GameRow
  <2>4. CancelledGame(g).version + 1 \in Nat
    BY <2>3 DEF GameRow
  <2> QED
    BY <2>2, <2>3, <2>4
<1> QED
  BY <1>2, <1>3

(* What the cancellation makes of requests and reservations. *)
LEMMA CancelledRows ==
  ASSUME TypeOK, LockHeld, NEW g \in Game
  PROVE  /\ \A r \in Request : r # game[g].lock => CancelledRequest(g)[r] = request[r]
         /\ CancelledRequest(g) \in [Request -> RequestRow \cup {NoRow}]
         /\ game[g].lock # NoRequest =>
              /\ CancelledRequest(g)[game[g].lock] \in RequestRow
              /\ CancelledRequest(g)[game[g].lock].status = "ADMIN_CANCELLED"
              /\ CancelledReservation(g)[game[g].lock] \in ReservationRow
              /\ CancelledReservation(g)[game[g].lock].status = "RELEASED"
         /\ \A q \in Reservation : q # game[g].lock => CancelledReservation(g)[q] = reservation[q]
         /\ CancelledReservation(g) \in [Reservation -> ReservationRow \cup {NoRow}]
<1>1. ASSUME game[g].lock # NoRequest
      PROVE  /\ CancelledRequest(g)[game[g].lock] \in RequestRow
             /\ CancelledRequest(g)[game[g].lock].status = "ADMIN_CANCELLED"
             /\ CancelledReservation(g)[game[g].lock] \in ReservationRow
             /\ CancelledReservation(g)[game[g].lock].status = "RELEASED"
  <2> DEFINE r == game[g].lock
  <2>1. /\ r \in Request /\ r \in Reservation /\ request[r] \in RequestRow
        /\ reservation[r] \in ReservationRow /\ reservation[r].status = "ACTIVE"
    BY <1>1, LockingRequest DEF Reservation
  <2>2. CancelledRequest(g)[r] = Advanced(request[r], "ADMIN_CANCELLED")
    BY <2>1 DEF CancelledRequest
  <2>3. CancelledReservation(g)[r] = [reservation[r] EXCEPT !.status = "RELEASED"]
    BY <2>1 DEF CancelledReservation, GivenBack
  <2>4. "ADMIN_CANCELLED" \in Waiting \cup Terminal
    BY DEF Terminal, Failed
  <2> QED
    BY <2>1, <2>2, <2>3, <2>4, AdvancedTyped DEF ReservationRow
<1>2. \A r \in Request : r # game[g].lock => CancelledRequest(g)[r] = request[r]
  BY DEF CancelledRequest
<1>3. \A q \in Reservation : q # game[g].lock => CancelledReservation(g)[q] = reservation[q]
  BY DEF CancelledReservation
<1>4. CancelledRequest(g) \in [Request -> RequestRow \cup {NoRow}]
  <2>1. ASSUME NEW r \in Request
        PROVE  CancelledRequest(g)[r] \in RequestRow \cup {NoRow}
    BY <1>1, <1>2, IdentityAssumption DEF TypeOK
  <2> QED
    BY <2>1 DEF CancelledRequest
<1>5. CancelledReservation(g) \in [Reservation -> ReservationRow \cup {NoRow}]
  <2>1. ASSUME NEW q \in Reservation
        PROVE  CancelledReservation(g)[q] \in ReservationRow \cup {NoRow}
    BY <1>1, <1>3, IdentityAssumption, EditAssumption DEF TypeOK, Reservation
  <2> QED
    BY <2>1 DEF CancelledReservation
<1> QED
  BY <1>1, <1>2, <1>3, <1>4, <1>5

LEMMA AppliedGame ==
  ASSUME TypeOK, NEW g \in Game, NEW p \in Payload, EditApplied(g, p)
  PROVE  /\ game' \in [Game -> GameRow]
         /\ \A h \in Game \ {g} : game'[h] = game[h]
         /\ game'[g] \in GameRow /\ game'[g].lock = NoRequest
         /\ SamePlace(game'[g], p) /\ game'[g].status = p.status
<1>1. /\ p.slot \in Slot /\ p.venue \in Venue \cup Hall
      /\ p.status \in {"SCHEDULED", "COMPLETED", "FORFEIT", "VOID"}
  BY DEF Payload, Status
<1> DEFINE old == CancelledGame(g)
           new == [old EXCEPT !.slot = p.slot, !.venue = p.venue, !.status = p.status,
                              !.version = old.version + 1]
<1>2. old \in GameRow /\ old.lock = NoRequest /\ old.version + 1 \in Nat
  BY CancelledGameRow
<1>3. game' = [game EXCEPT ![g] = new]
  BY DEF EditApplied
<1> HIDE DEF old
<1>4. new \in GameRow /\ new.lock = NoRequest /\ SamePlace(new, p) /\ new.status = p.status
  BY <1>1, <1>2 DEF GameRow, SamePlace
<1> HIDE DEF new
<1> QED
  BY <1>3, <1>4 DEF TypeOK

LEMMA AppliedReservations ==
  ASSUME TypeOK, LockHeld, NEW g \in Game, NEW p \in Payload, EditApplied(g, p)
  PROVE  /\ Reallocated(g, p)
         /\ reservation' \in [Reservation -> ReservationRow \cup {NoRow}]
<1> DEFINE c == CancelledReservation(g)
<1>0. reservation' = [q \in Reservation |-> Allocated(q, g, p)]
  BY DEF EditApplied
<1>1. /\ \A q \in Reservation : q # game[g].lock => c[q] = reservation[q]
      /\ game[g].lock # NoRequest => c[game[g].lock].status = "RELEASED"
      /\ \A q \in Reservation : c[q] \in ReservationRow \cup {NoRow}
  BY CancelledRows
<1>2. Allocates(p) => AllocatedRow(g, p) \in ReservationRow
  BY DEF Allocates, AllocatedRow, ReservationRow, Payload
<1>3. ASSUME NEW q \in Reservation
      PROVE  Allocated(q, g, p) =
               IF Allocates(p) /\ q = AllocationRow(g) THEN AllocatedRow(g, p)
               ELSE IF c[q].status = "CONVERTED" /\ c[q].game = g
                    THEN [c[q] EXCEPT !.status = "RELEASED"] ELSE c[q]
  BY Zenon DEF Allocated, AllocatedRow
<1> HIDE DEF c
<1>4. ASSUME NEW q \in Reservation
      PROVE  /\ reservation'[q] \in ReservationRow \cup {NoRow}
             /\ IF Allocates(p) /\ q = AllocationRow(g) THEN reservation'[q] = AllocatedRow(g, p)
                ELSE IF \/ q = game[g].lock
                        \/ reservation[q].status = "CONVERTED" /\ reservation[q].game = g
                THEN reservation'[q].status = "RELEASED"
                ELSE reservation'[q] = reservation[q]
  <2>1. reservation'[q] = Allocated(q, g, p)
    BY <1>0
  <2>2. q = game[g].lock => c[q].status = "RELEASED"
    BY <1>1, EditAssumption, IdentityAssumption DEF Reservation
  <2>3. CASE Allocates(p) /\ q = AllocationRow(g)
    BY <1>2, <1>3, <2>1, <2>3
  <2>4. CASE ~ (Allocates(p) /\ q = AllocationRow(g)) /\ c[q].status = "CONVERTED" /\ c[q].game = g
    <3>1. c[q] \in ReservationRow
      BY <1>1, <2>4 DEF NoRow
    <3> QED
      BY <1>1, <1>3, <2>1, <2>2, <2>4, <3>1 DEF ReservationRow
  <2>5. CASE ~ (Allocates(p) /\ q = AllocationRow(g)) /\ ~ (c[q].status = "CONVERTED" /\ c[q].game = g)
    BY <1>1, <1>3, <2>1, <2>2, <2>5
  <2> QED
    BY <2>3, <2>4, <2>5
<1> QED
  BY <1>0, <1>4 DEF Reallocated

LEMMA AppliedEffect ==
  ASSUME TypeOK, LockHeld, NEW g \in Game, NEW p \in Payload, EditApplied(g, p)
  PROVE  RequestEnded(g) /\ OthersReserved(g) /\ TypeOK'
<1>1. /\ request' = CancelledRequest(g)
      /\ UNCHANGED <<now, confirmation, leader>>
  BY DEF EditApplied
<1>2. /\ Reallocated(g, p)
      /\ reservation' \in [Reservation -> ReservationRow \cup {NoRow}]
  BY AppliedReservations
<1>3. game[g].lock # NoRequest =>
        /\ reservation'[game[g].lock] \in ReservationRow
        /\ reservation'[game[g].lock].status = "RELEASED"
  BY <1>2, LockingRequest, AllocationNotLocked DEF Reallocated, Reservation, NoRow
<1>4. RequestEnded(g)
  BY <1>1, <1>3, CancelledRows, AppliedGame DEF RequestEnded
<1>5. OthersReserved(g)
  BY <1>2, AllocationRowIs, IdentityAssumption DEF Reallocated, OthersReserved, Reservation, AllocatedRow
<1>6. TypeOK'
  BY <1>1, <1>2, CancelledRows, AppliedGame DEF TypeOK
<1> QED
  BY <1>4, <1>5, <1>6

LEMMA RefusedLateEffect ==
  ASSUME TypeOK, LockHeld, NEW g \in Game, NEW p \in Payload, EditRefusedLate(g, p)
  PROVE  /\ RequestEnded(g) /\ OthersReserved(g) /\ TypeOK'
         /\ SamePlace(game'[g], game[g]) /\ game'[g].status = game[g].status
         /\ \A q \in Reservation : q # game[g].lock => reservation'[q] = reservation[q]
<1>1. /\ request' = CancelledRequest(g) /\ reservation' = CancelledReservation(g)
      /\ game' = [game EXCEPT ![g] = CancelledGame(g)]
      /\ UNCHANGED <<now, confirmation, leader>>
  BY DEF EditRefusedLate
<1>2. /\ \A h \in Game \ {g} : game'[h] = game[h]
      /\ game'[g] = CancelledGame(g)
  BY <1>1 DEF TypeOK
<1>3. RequestEnded(g) /\ OthersReserved(g)
  BY <1>1, <1>2, CancelledRows, CancelledGameRow DEF RequestEnded, OthersReserved, Reservation
<1>4. TypeOK'
  BY <1>1, CancelledRows, CancelledGameRow DEF TypeOK
<1> QED
  BY <1>1, <1>2, <1>3, <1>4, CancelledRows, CancelledGameRow

-----------------------------------------------------------------------------
(* The ledger. *)

LEMMA EditLockHeld ==
  ASSUME TypeOK, TypeOK', LockHeld, NEW g \in Game, RequestEnded(g), OthersReserved(g)
  PROVE  LockHeld'
<1> DEFINE l == game[g].lock
<1>0. l # NoRequest => l \in Request /\ request[l].game = g
  BY LockingRequest
<1>1. ASSUME NEW r \in Request, NEW h \in Game
      PROVE  (game[h].lock = r <=>
               (Live(r) /\ request[r].game = h /\ request[r].status \in Waiting))'
  <2>1. CASE r = l
    <3>1. request'[r].status \notin Waiting
      BY <2>1, StatusFacts, IdentityAssumption DEF RequestEnded, Failed
    <3>2. game'[h].lock # r
      BY <2>1, IdentityAssumption DEF RequestEnded, LockHeld
    <3> QED
      BY <3>1, <3>2
  <2>2. CASE r # l
    <3>1. request'[r] = request[r]
      BY <2>2 DEF RequestEnded
    <3>2. game'[h].lock = r <=> game[h].lock = r
      BY <2>2, IdentityAssumption DEF RequestEnded
    <3> QED
      BY <3>1, <3>2 DEF LockHeld, Live
  <2> QED
    BY <2>1, <2>2
<1>2. ASSUME NEW r \in Request, Live(r)'
      PROVE  (/\ request[r].status \in Waiting <=> reservation[r].status = "ACTIVE"
              /\ request[r].status \in Failed => reservation[r].status = "RELEASED"
              /\ request[r].status \in Waiting => SamePlace(request[r], reservation[r]))'
  <2>1. CASE r = l
    BY <2>1, StatusFacts, IdentityAssumption DEF RequestEnded, Failed
  <2>2. CASE r # l
    <3>1. request'[r] = request[r] /\ Live(r)
      BY <1>2, <2>2 DEF RequestEnded, Live
    <3>2. CASE reservation'[r] = reservation[r]
      BY <3>1, <3>2 DEF LockHeld
    <3>3. CASE /\ reservation[r].status = "CONVERTED"
               /\ reservation'[r].status \in {"CONVERTED", "RELEASED"}
      BY <3>1, <3>3 DEF LockHeld
    <3> QED
      BY <2>2, <3>2, <3>3 DEF OthersReserved
  <2> QED
    BY <2>1, <2>2
<1> QED
  BY <1>1, <1>2 DEF LockHeld

LEMMA AppliedPlacesUnique ==
  ASSUME TypeOK, LockHeld, PlacesUnique, NEW g \in Game, NEW p \in Payload, EditApplied(g, p)
  PROVE  PlacesUnique'
<1>1. Reallocated(g, p) /\ ~ AllocationClashes(g, p)
  BY AppliedReservations DEF EditApplied
<1> DEFINE Placed(q) == Allocates(p) /\ q = AllocationRow(g)
<1>2. ASSUME NEW q \in Reservation, Occupying(q)', ~ Placed(q)
      PROVE  reservation'[q] = reservation[q] /\ Occupying(q) /\ q # game[g].lock
  BY <1>1, <1>2 DEF Reallocated, Occupying
<1>3. ASSUME NEW q \in Reservation, Occupying(q)', ~ Placed(q),
             NEW o \in Reservation, Placed(o)
      PROVE  ~ SamePlace(reservation'[q], reservation'[o])
  <2>1. SamePlace(reservation'[o], p) /\ q # o
    BY <1>1, <1>3 DEF Reallocated, AllocatedRow, SamePlace
  <2>2. ~ SamePlace(reservation[q], p)
    BY <1>1, <1>2, <1>3 DEF AllocationClashes
  <2> QED
    BY <1>2, <1>3, <2>1, <2>2 DEF SamePlace
<1> SUFFICES ASSUME NEW q \in Reservation, Occupying(q)',
                    NEW o \in Reservation \ {q}, Occupying(o)'
             PROVE  ~ SamePlace(reservation'[o], reservation'[q])
  BY DEF PlacesUnique
<1>4. CASE Placed(q)
  BY <1>3, <1>4
<1>5. CASE Placed(o)
  BY <1>3, <1>5 DEF SamePlace
<1>6. CASE ~ Placed(q) /\ ~ Placed(o)
  BY <1>2, <1>6 DEF PlacesUnique
<1> QED
  BY <1>4, <1>5, <1>6

LEMMA LatePlacesUnique ==
  ASSUME TypeOK, LockHeld, PlacesUnique, NEW g \in Game, NEW p \in Payload,
         EditRefusedLate(g, p)
  PROVE  PlacesUnique'
<1>1. \A q \in Reservation : Occupying(q)' => reservation'[q] = reservation[q]
  BY RefusedLateEffect, IdentityAssumption, EditAssumption
  DEF RequestEnded, Occupying, Reservation
<1> QED
  BY <1>1 DEF PlacesUnique, Occupying

LEMMA AppliedAllocation ==
  ASSUME TypeOK, LockHeld, Allocation, NEW g \in Game, NEW p \in Payload, EditApplied(g, p)
  PROVE  Allocation'
<1>1. /\ Reallocated(g, p)
      /\ \A h \in Game \ {g} : game'[h] = game[h]
      /\ game'[g].lock = NoRequest /\ SamePlace(game'[g], p) /\ game'[g].status = p.status
  BY AppliedReservations, AppliedGame
<1>2. LockedIsPlayed'
  BY <1>1 DEF Allocation, LockedIsPlayed
<1> DEFINE Placed(q) == Allocates(p) /\ q = AllocationRow(g)
<1>3. ASSUME NEW q \in Reservation, reservation'[q].status = "CONVERTED"
      PROVE  IF Placed(q)
             THEN reservation'[q] = AllocatedRow(g, p)
             ELSE /\ reservation'[q] = reservation[q] /\ reservation[q].status = "CONVERTED"
                  /\ reservation[q].game \in Game \ {g}
  BY <1>1, <1>3 DEF Reallocated, Allocation, AllocationFollowsGame, TypeOK, ReservationRow, NoRow
<1>4. ASSUME NEW q \in Reservation, reservation'[q].status = "CONVERTED"
      PROVE  /\ reservation'[q].game # NoGame
             /\ SamePlace(game'[reservation'[q].game], reservation'[q])
             /\ game'[reservation'[q].game].status # "VOID"
             /\ \A o \in Reservation \ {q} :
                  reservation'[o].status = "CONVERTED" => reservation'[o].game # reservation'[q].game
  <2>1. CASE Placed(q)
    <3>1. /\ reservation'[q].game = g /\ SamePlace(reservation'[q], p) /\ p.status # "VOID"
      BY <1>3, <1>4, <2>1 DEF AllocatedRow, SamePlace, Allocates
    <3> QED
      BY <1>1, <1>3, <2>1, <3>1, IdentityAssumption DEF SamePlace
  <2>2. CASE ~ Placed(q)
    <3>1. /\ reservation'[q] = reservation[q] /\ reservation[q].status = "CONVERTED"
          /\ reservation[q].game \in Game \ {g}
      BY <1>3, <1>4, <2>2
    <3>2. ASSUME NEW o \in Reservation \ {q}, reservation'[o].status = "CONVERTED"
          PROVE  reservation'[o].game # reservation'[q].game
      BY <1>3, <3>1, <3>2 DEF Allocation, AllocationFollowsGame, AllocatedRow
    <3> QED
      BY <1>1, <3>1, <3>2 DEF Allocation, AllocationFollowsGame
  <2> QED
    BY <2>1, <2>2
<1> QED
  BY <1>2, <1>4 DEF Allocation, AllocationFollowsGame

LEMMA LateAllocation ==
  ASSUME TypeOK, LockHeld, Allocation, NEW g \in Game, NEW p \in Payload,
         EditRefusedLate(g, p)
  PROVE  Allocation'
<1>1. /\ \A h \in Game \ {g} : game'[h] = game[h]
      /\ game'[g].lock = NoRequest
      /\ SamePlace(game'[g], game[g]) /\ game'[g].status = game[g].status
  BY RefusedLateEffect DEF RequestEnded
<1>2. \A q \in Reservation : reservation'[q].status = "CONVERTED" => reservation'[q] = reservation[q]
  BY RefusedLateEffect, IdentityAssumption, EditAssumption DEF RequestEnded, Reservation
<1>3. \A h \in Game : SamePlace(game'[h], game[h]) /\ game'[h].status = game[h].status
  BY <1>1 DEF SamePlace
<1>4. \A q \in Reservation : reservation[q].status = "CONVERTED" => reservation[q].game \in Game
  BY DEF Allocation, AllocationFollowsGame, TypeOK, ReservationRow, NoRow
<1> QED
  BY <1>1, <1>2, <1>3, <1>4 DEF Allocation, AllocationFollowsGame, LockedIsPlayed, SamePlace

(* A step beside the edits is one of the negotiation. *)
LEMMA BesideEdits ==
  ASSUME [EditNext]_editVars
  PROVE  [Next]_vars \/ \E g \in Game, p \in Payload : EditApplied(g, p) \/ EditRefusedLate(g, p)
BY EditAssumption DEF EditNext, Negotiate, Publish, EditGame, EditRefused, editVars, vars, Next

LEMMA LedgerStep ==
  ASSUME Ledger, [EditNext]_editVars
  PROVE  Ledger'
<1> USE DEF Ledger
<1>1. CASE [Next]_vars
  BY <1>1, StepTyped, LockHeldStep, PlacesUniqueStep, AllocationStep
<1>2. ASSUME NEW g \in Game, NEW p \in Payload, EditApplied(g, p)
      PROVE  Ledger'
  BY <1>2, AppliedEffect, EditLockHeld, AppliedPlacesUnique, AppliedAllocation
<1>3. ASSUME NEW g \in Game, NEW p \in Payload, EditRefusedLate(g, p)
      PROVE  Ledger'
  BY <1>3, RefusedLateEffect, EditLockHeld, LatePlacesUnique, LateAllocation
<1> QED
  BY <1>1, <1>2, <1>3, BesideEdits

LEMMA LedgerInvariant == EditSpec => []Ledger
<1>1. EditInit => Ledger
  BY InitTyped, LockHeldInit, PlacesUniqueInit, AllocationInit DEF EditInit, Ledger
<1>2. Ledger /\ [EditNext]_editVars => Ledger'
  BY LedgerStep
<1> QED
  BY <1>1, <1>2, PTL DEF EditSpec

(* Locks, allocations, reservations and requests agree whatever            *)
(* superadmins edit, force or fail to edit while requests run              *)
(* (update_admin_game): no leader's command meets a broken row.            *)
THEOREM EditsKeepRows == EditSpec => []EditKeepsRows
<1> DEFINE Answered == published \subseteq Game /\ reply \in {"none", "ok", "forced", "error"}
<1>1. EditInit => Answered
  BY DEF EditInit
<1>2. Answered /\ [EditNext]_editVars => Answered'
  BY EditAssumption DEF EditNext, Negotiate, Publish, EditGame, EditApplied, EditRefusedLate,
     EditRefused, editVars
<1>3. Ledger /\ Answered => EditKeepsRows
  BY DatabaseAgreesBecause DEF Ledger, Allocation, EditKeepsRows, EditTypeOK, LedgerAgrees
<1> QED
  BY <1>1, <1>2, <1>3, LedgerInvariant, PTL DEF EditSpec

-----------------------------------------------------------------------------
(* What a step may do to places. *)

LEMMA SubmitMovesNothing ==
  ASSUME TypeOK, Submitting
  PROVE  \A h \in Game : SamePlace(game'[h], game[h])
<1> PICK r \in Request, a \in Account, t \in Team, g \in Game, s \in Slot, v \in Venue,
         asked \in ProcessRoute \cup {"DEFAULT"}, at \in Readings :
           Submit(r, a, t, g, s, v, asked, at)
  BY DEF Submitting
<1>1. /\ \A h \in Game \ {g} : game'[h] = game[h]
      /\ reservation'[r] = [status |-> "ACTIVE", slot |-> s, venue |-> v, game |-> NoGame]
      /\ SamePlace(game'[g], game[g])
  BY SubmitEffect
<1> QED
  BY <1>1 DEF SamePlace

(* A running request is never left behind by its game: an edit that moves  *)
(* a game cancels its request in the same transaction, an approval ends    *)
(* the request it moves the game for, and nothing else moves a game.       *)
THEOREM NoGameIsPulledAway == EditSpec => GameNotPulledAway
<1> DEFINE Left(g) == /\ game'[g].lock = NoRequest
                      /\ game[g].lock # NoRequest => request'[game[g].lock].status \in Terminal
           Stays == \A g \in Game : ~ SamePlace(game'[g], game[g]) => Left(g)
<1>1. ASSUME Ledger, [EditNext]_editVars
      PROVE  Stays
  <2> SUFFICES ASSUME NEW g \in Game, ~ SamePlace(game'[g], game[g])
               PROVE  Left(g)
    OBVIOUS
  <2>0. TypeOK /\ LockHeld
    BY <1>1 DEF Ledger
  <2>1. CASE [Next]_vars
    <3>1. CASE Approving
      <4> PICK r \in Request, row \in RequestRow :
            request[r].status \in Waiting /\ Revised(row, r) /\ Approve(r, row)
        BY <3>1 DEF Approving
      <4> DEFINE h == request[r].game
      <4>1. /\ \A k \in Game \ {h} : game'[k] = game[k]
            /\ request'[r].status = "APPROVED" /\ game[h].lock = r /\ game'[h].lock = NoRequest
        BY <2>0, ApproveEffect
      <4>2. g = h
        BY <4>1 DEF SamePlace
      <4> QED
        BY <4>1, <4>2 DEF Terminal
    <3>2. CASE Submitting
      BY <2>0, <3>2, SubmitMovesNothing
    <3>3. CASE Releasing
      BY <2>0, <3>3, ReleaseEffect DEF Releasing, SamePlace
    <3>4. CASE Publishing
      BY <2>0, <3>4, PublishEffect DEF Publishing, SamePlace
    <3>5. CASE MovingOn \/ Idle
      BY <3>5 DEF MovingOn, MoveOn, Idle, SamePlace
    <3> QED
      BY <2>0, <2>1, ShapeCases, <3>1, <3>2, <3>3, <3>4, <3>5 DEF Shape
  <2>2. ASSUME NEW h \in Game, NEW p \in Payload, EditApplied(h, p) \/ EditRefusedLate(h, p)
        PROVE  Left(g)
    <3>1. RequestEnded(h)
      BY <2>0, <2>2, AppliedEffect, RefusedLateEffect
    <3>2. g = h
      BY <3>1 DEF RequestEnded, SamePlace
    <3> QED
      BY <3>1, <3>2 DEF RequestEnded, Terminal, Failed
  <2> QED
    BY <1>1, <2>1, <2>2, BesideEdits
<1>2. Ledger /\ [EditNext]_editVars => [Stays]_editVars
  BY <1>1
<1> HIDE DEF Stays
<1>3. EditSpec => [][Stays]_editVars
  BY <1>2, LedgerInvariant, PTL DEF EditSpec
<1> QED
  BY <1>3 DEF Stays, GameNotPulledAway

(* Fewer games and reservations, each where it was, stay in order.         *)
LEMMA LatePlacesInOrder ==
  ASSUME TypeOK, LockHeld, PlacesInOrder, NEW g \in Game, NEW p \in Payload,
         EditRefusedLate(g, p)
  PROVE  PlacesInOrder'
<1>1. \A h \in Game : SamePlace(game'[h], game[h]) /\ game'[h].status = game[h].status
  BY RefusedLateEffect DEF RequestEnded, SamePlace
<1>2. \A q \in Reservation : reservation'[q].status = "ACTIVE" => reservation'[q] = reservation[q]
  BY RefusedLateEffect, IdentityAssumption, EditAssumption DEF RequestEnded, Reservation
<1>3. VenueExclusive'
  BY <1>1, <1>2 DEF PlacesInOrder, VenueExclusive, SamePlace
<1>4. \A s : GamesAt(s)' \subseteq GamesAt(s) /\ ReservedAt(s)' \subseteq ReservedAt(s)
  BY <1>1, <1>2 DEF GamesAt, ReservedAt, SamePlace
<1>5. WithinCapacity'
  BY <1>4, NoMoreRows DEF PlacesInOrder, WithinCapacity
<1> QED
  BY <1>3, <1>5 DEF PlacesInOrder

(* An edit that keeps to the rules finds its court free and its slot with  *)
(* room, and gives up what the game and its request had.                   *)
LEMMA AppliedPlacesInOrder ==
  ASSUME TypeOK, LockHeld, PlacesInOrder, NEW g \in Game, NEW p \in Payload,
         EditApplied(g, p), ~ p.override
  PROVE  PlacesInOrder'
<1>0. ~ VenueTaken(g, p) /\ ~ SlotFull(g, p) /\ p.slot \in Slot
  BY DEF EditApplied, EditFits, Payload
<1>1. /\ \A h \in Game \ {g} : game'[h] = game[h]
      /\ game'[g].slot = p.slot /\ game'[g].venue = p.venue
  BY AppliedGame DEF SamePlace
<1>2. \A q \in Reservation : reservation'[q].status = "ACTIVE" =>
        reservation'[q] = reservation[q] /\ q # game[g].lock
  <2>1. Reallocated(g, p)
    BY AppliedReservations
  <2> SUFFICES ASSUME NEW q \in Reservation, reservation'[q].status = "ACTIVE"
               PROVE  reservation'[q] = reservation[q] /\ q # game[g].lock
    OBVIOUS
  <2>2. ~ (Allocates(p) /\ q = AllocationRow(g))
    BY <2>1 DEF Reallocated, AllocatedRow
  <2> QED
    BY <2>1, <2>2 DEF Reallocated
<1>3. \A h \in Game \ {g} : game[h].status # "VOID" => ~ SamePlace(game[h], game'[g])
  BY <1>0, <1>1 DEF VenueTaken, OtherGames, GamesAt, SamePlace
<1>4. \A q \in Reservation \ {game[g].lock} :
        reservation[q].status = "ACTIVE" => ~ SamePlace(reservation[q], game'[g])
  BY <1>0, <1>1 DEF VenueTaken, OtherReserved, ReservedAt, SamePlace
<1>5. VenueExclusive'
  BY <1>1, <1>2, <1>3, <1>4 DEF PlacesInOrder, VenueExclusive, SamePlace
<1>6. \A s : ReservedAt(s)' \subseteq ReservedAt(s) \ {game[g].lock}
  BY <1>2 DEF ReservedAt
<1>7. \A s \in Slot \ {p.slot} : GamesAt(s)' \subseteq GamesAt(s)
  BY <1>1 DEF GamesAt
<1>8. \A s : GamesAt(s)' \subseteq OtherGames(g, s) \cup {g}
  BY <1>1 DEF GamesAt, OtherGames
<1>9. \A s \in Slot \ {p.slot} : Occupancy(s)' <= Capacity[s]
  BY <1>6, <1>7, NoMoreRows DEF PlacesInOrder
<1>10. Occupancy(p.slot)' <= Capacity[p.slot]
  <2> DEFINE s == p.slot
             others == OtherGames(g, s)
             kept == OtherReserved(g, s)
  <2>1. /\ IsFiniteSet(others) /\ IsFiniteSet(kept)
        /\ Cardinality(others) \in Nat /\ Cardinality(kept) \in Nat
    BY FiniteRows, FS_Subset, FS_CardinalityType DEF OtherGames, OtherReserved
  <2>2. Cardinality(others) + Cardinality(kept) < Capacity[s] /\ Capacity[s] \in Nat
    BY <1>0, <2>1, CalendarAssumption DEF SlotFull
  <2>3. GamesAt(s)' \subseteq others \cup {g} /\ ReservedAt(s)' \subseteq kept
    BY <1>6, <1>8 DEF OtherReserved
  <2>4. Occupancy(s)' = Cardinality(GamesAt(s)') + Cardinality(ReservedAt(s)')
    BY DEF Occupancy
  <2> HIDE DEF others, kept
  <2>5. /\ IsFiniteSet(others \cup {g})
        /\ Cardinality(others \cup {g}) <= Cardinality(others) + 1
    BY <2>1, AddOne
  <2>6. /\ Cardinality(GamesAt(s)') <= Cardinality(others \cup {g})
        /\ Cardinality(GamesAt(s)') \in Nat /\ Cardinality(others \cup {g}) \in Nat
    BY <2>3, <2>5, FS_Subset, FS_CardinalityType
  <2>7. Cardinality(ReservedAt(s)') <= Cardinality(kept) /\ Cardinality(ReservedAt(s)') \in Nat
    BY <2>1, <2>3, FS_Subset, FS_CardinalityType
  <2> QED
    BY <2>1, <2>2, <2>4, <2>5, <2>6, <2>7
<1>11. WithinCapacity'
  BY <1>9, <1>10 DEF WithinCapacity
<1> QED
  BY <1>5, <1>11 DEF PlacesInOrder

(* Requests and edits take turns on the same courts, and only an edit with *)
(* override_rules puts two games on one court or too many in a slot: from  *)
(* places in order every other step leads to places in order, whatever was *)
(* overridden before.                                                      *)
THEOREM OverridesAlone == EditSpec => OnlyOverridesOverfill
<1> DEFINE InOrder == PlacesInOrder /\ reply' # "forced" => PlacesInOrder'
<1>1. ASSUME Ledger, PlacesInOrder, [EditNext]_editVars, reply' # "forced"
      PROVE  PlacesInOrder'
  <2>0. TypeOK /\ LockHeld /\ PlacesUnique
    BY <1>1 DEF Ledger
  <2>1. CASE [Next]_vars
    BY <1>1, <2>0, <2>1, VenueExclusiveStep, WithinCapacityStep DEF PlacesInOrder
  <2>2. ASSUME NEW g \in Game, NEW p \in Payload, EditApplied(g, p)
        PROVE  PlacesInOrder'
    <3>1. ~ p.override
      BY <1>1, <2>2 DEF EditApplied
    <3> QED
      BY <1>1, <2>0, <2>2, <3>1, AppliedPlacesInOrder
  <2>3. ASSUME NEW g \in Game, NEW p \in Payload, EditRefusedLate(g, p)
        PROVE  PlacesInOrder'
    BY <1>1, <2>0, <2>3, LatePlacesInOrder
  <2> QED
    BY <1>1, <2>1, <2>2, <2>3, BesideEdits
<1>2. Ledger /\ [EditNext]_editVars => [InOrder]_editVars
  BY <1>1
<1> HIDE DEF InOrder
<1>3. EditSpec => [][InOrder]_editVars
  BY <1>2, LedgerInvariant, PTL DEF EditSpec
<1> QED
  BY <1>3 DEF InOrder, OnlyOverridesOverfill
=============================================================================
