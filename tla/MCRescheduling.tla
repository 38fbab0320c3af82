--------------------------- MODULE MCRescheduling ---------------------------
(***************************************************************************)
(* Small tournaments for TLC.  "thu1" and "thu2" are two periods of day 3, *)
(* a Thursday; "mon" is in the week after.  Requests close on day 1 and    *)
(* answers on day 2, so a clock that reaches day 2 passes every deadline.  *)
(***************************************************************************)
EXTENDS Rescheduling, TLC

CONSTANTS g1, g2, A, B, C, D, a, b, c, d, v1, v2, r1, r2

Symmetry == Permutations(Request)

MCDay == [s \in Slot |-> IF s = "mon" THEN 7 ELSE 3]
MCVenueRank == [v \in Venue |-> IF v = v1 THEN 1 ELSE 2]
OneLeaderEach ==
  [t \in Team |-> CASE t = A -> a [] t = B -> b [] t = C -> c [] t = D -> d]
NobodyVotes == [g \in Game |-> {}]
WholeDivision == [g \in Game |-> Team]

(* Two games without a common team compete for two courts. *)
RivalHome == [g \in Game |-> IF g = g1 THEN A ELSE C]
RivalAway == [g \in Game |-> IF g = g1 THEN B ELSE D]
RivalStart == [g \in Game |-> "thu1"]
RivalCapacity == [s \in Slot |-> IF s = "mon" THEN 1 ELSE 2]

(* Two games of team A. *)
SharedHome == [g \in Game |-> A]
SharedAway == [g \in Game |-> IF g = g1 THEN B ELSE C]
SharedStart == [g \in Game |-> IF g = g1 THEN "thu1" ELSE "thu2"]
SharedCapacity == [s \in Slot |-> 2]

(* One game of a group of four teams, whose other two may vote. *)
VoteHome == [g \in Game |-> A]
VoteAway == [g \in Game |-> B]
VoteStart == [g \in Game |-> "thu1"]
VoteCapacity == [s \in Slot |-> 1]
VoteAppointments == {<<c, B>>, <<b, D>>}
=============================================================================
