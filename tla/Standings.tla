------------------------------ MODULE Standings ------------------------------
(***************************************************************************)
(* The table of a group (services/standings.py): teams by their points, and *)
(* teams with as many points by the games among them, then by all games.    *)
(* Teams that are equal in all of that share a rank.  The table is computed *)
(* when it is asked for, from the draw and the results of the moment, which *)
(* change in any order.                                                     *)
(***************************************************************************)
EXTENDS Integers, FiniteSets, Functions

CONSTANTS Teams,          \* numbered in the order of their names
          Games, Home, Away,
          Outcomes        \* [status, home, away]; VOID and SCHEDULED games have no score

VARIABLES drawn,          \* the teams that have a place in the group
          result          \* of each game

vars == <<drawn, result>>

Scheduled == [status |-> "SCHEDULED", home |-> 0, away |-> 0]
TypeOK == drawn \in SUBSET Teams /\ result \in [Games -> Outcomes \cup {Scheduled}]
Init == drawn = {} /\ result = [g \in Games |-> Scheduled]

Resolved(g) == {Home[g], Away[g]} \subseteq drawn

Draw(t) == t \notin drawn /\ drawn' = drawn \cup {t} /\ UNCHANGED result

(* A publication, an edit or a correction gives a game its result.          *)
Record(g, outcome) ==
  /\ outcome.status = "VOID" \/ Resolved(g)
  /\ result' = [result EXCEPT ![g] = outcome]
  /\ UNCHANGED drawn

Next == (\E t \in Teams : Draw(t)) \/ (\E g \in Games, outcome \in Outcomes : Record(g, outcome))

Spec == Init /\ [][Next]_vars

-----------------------------------------------------------------------------
Counted == {g \in Games : Resolved(g) /\ result[g].status \in {"COMPLETED", "FORFEIT"}}
HomeWon(g) == result[g].home > result[g].away

(* _competition_points, for the home side and for the away side.            *)
CompetitionPoints(g) ==
  LET loser == IF result[g].status = "FORFEIT" THEN 0 ELSE 1
  IN  IF HomeWon(g) THEN [home |-> 2, away |-> loser] ELSE [home |-> loser, away |-> 2]

(* What a team has from a set of games, as _apply_game and the loop over    *)
(* the games of a cohort add it up, game by game and side by side.          *)
Total(t, games) ==
  LET side(g) == IF t = Home[g] THEN "home" ELSE "away"
      other(g) == IF t = Home[g] THEN "away" ELSE "home"
      own == {g \in games : t \in {Home[g], Away[g]}}
  IN  [points |-> SumFunction([g \in own |-> CompetitionPoints(g)[side(g)]]),
       for |-> SumFunction([g \in own |-> result[g][side(g)]]),
       against |-> SumFunction([g \in own |-> result[g][other(g)]]),
       wins |-> Cardinality({g \in own : HomeWon(g) <=> t = Home[g]}),
       played |-> Cardinality(own)]

Table == [t \in drawn |-> Total(t, Counted)]

Cohort(t, table) == {u \in drawn : table[u].points = table[t].points}
AmongAll(t, table) == Counted
AmongCohort(t, table) == {g \in Counted : {Home[g], Away[g]} \subseteq Cohort(t, table)}

OfficialKey(all, mutual) ==
  <<all.points, mutual.points, mutual.for - mutual.against, mutual.for,
    all.for - all.against, all.for>>
OfficialKeys(table) ==
  [t \in drawn |-> OfficialKey(table[t], Total(t, AmongCohort(t, table)))]

Greater(k, l) == \E i \in DOMAIN k : k[i] > l[i] /\ \A j \in 1 .. i - 1 : k[j] = l[j]

(* _rank_group: sorted by key and name, then ranked one after the other.    *)
Ahead(key, t, u) == Greater(key[t], key[u]) \/ (key[t] = key[u] /\ t < u)
Ordered(key) ==
  CHOOSE order \in [1 .. Cardinality(drawn) -> drawn] :
    \A i, j \in DOMAIN order : i < j => Ahead(key, order[i], order[j])

RankedAs(key, order) ==
  LET rank[i \in 0 .. Cardinality(drawn)] ==
        IF i > 1 /\ key[order[i]] = key[order[i - 1]] THEN rank[i - 1] ELSE i
  IN  [t \in drawn |-> rank[CHOOSE i \in DOMAIN order : order[i] = t]]
RankGroup(key) == RankedAs(key, Ordered(key))

-----------------------------------------------------------------------------
Met(t, u) == {g \in Counted : {Home[g], Away[g]} = {t, u}}
Beat(t, u) == \E g \in Met(t, u) : HomeWon(g) <=> t = Home[g]
Margin(t, u) == Total(t, Met(t, u)).for - Total(u, Met(t, u)).for
Margins(t) == SumFunction([u \in drawn \ {t} |-> Margin(t, u)])

Fair(table, rank) ==
  /\ \A t, u \in drawn : table[t].points > table[u].points => rank[t] < rank[u]
  /\ \A t \in drawn : rank[t] = 1 + Cardinality({u \in drawn : rank[u] < rank[t]})
  /\ \A t, u \in drawn :
       Cohort(t, table) = {t, u} /\ Cardinality(Met(t, u)) = 1 /\ Beat(t, u) => rank[t] < rank[u]
  /\ Cardinality(drawn) > 2 =>
       \A t, u \in drawn :
         Cohort(t, table) = drawn /\ Margins(t) > Margins(u) => rank[t] < rank[u]

SumOf(table, field) == SumFunction([t \in drawn |-> table[t][field]])
Balanced(table) ==
  /\ SumOf(table, "wins") = Cardinality(Counted)
  /\ SumOf(table, "played") = 2 * Cardinality(Counted)
  /\ SumOf(table, "for") = SumOf(table, "against")

(* The table is fair (docs/USER_GUIDE.md, section 6): teams with more       *)
(* points are ahead and ranks count the teams ahead; of two teams alone     *)
(* with their points the one that won their only game is ahead, whatever    *)
(* both did to the others; in a group where all have the same points the    *)
(* margins decide; and what some have won others have lost.                 *)
StandingsAreFair == Fair(Table, RankGroup(OfficialKeys(Table))) /\ Balanced(Table)
=============================================================================
