---------------------------- MODULE CourtBooking ----------------------------
(***************************************************************************)
(* What rescheduling promises the tournament, with every step of the       *)
(* negotiation forgotten: a game that is to be played owns one place (a    *)
(* slot and a court), it may hold an option on one other place, and nobody *)
(* else can own or hold either.  An option is only ever exercised by the   *)
(* game that took it, or given up.  Rescheduling.tla implements this.      *)
(***************************************************************************)
CONSTANTS Game, Place, NoPlace

VARIABLES booking,   \* the official place of each game; NoPlace if voided
          option     \* the place kept for each game by a running request

bookingVars == <<booking, option>>

BookingTypeOK ==
  /\ booking \in [Game -> Place \cup {NoPlace}]
  /\ option \in [Game -> Place \cup {NoPlace}]

(* Nobody owns the place and nobody holds an option on it. *)
Unclaimed(p) == \A g \in Game : booking[g] # p /\ option[g] # p

BookingInit ==
  /\ booking \in [Game -> Place \cup {NoPlace}]
  /\ \A g, h \in Game : g # h => booking[g] # booking[h] \/ booking[g] = NoPlace
  /\ option = [g \in Game |-> NoPlace]

TakeOption(g, p) ==
  /\ booking[g] # NoPlace
  /\ option[g] = NoPlace
  /\ Unclaimed(p)
  /\ option' = [option EXCEPT ![g] = p]
  /\ UNCHANGED booking

ExerciseOption(g) ==
  /\ option[g] # NoPlace
  /\ booking' = [booking EXCEPT ![g] = option[g]]
  /\ option' = [option EXCEPT ![g] = NoPlace]

DropOption(g) ==
  /\ option[g] # NoPlace
  /\ option' = [option EXCEPT ![g] = NoPlace]
  /\ UNCHANGED booking

BookingNext ==
  \E g \in Game :
    \/ \E p \in Place : TakeOption(g, p)
    \/ ExerciseOption(g)
    \/ DropOption(g)

BookingSpec == BookingInit /\ [][BookingNext]_bookingVars
=============================================================================
