--------------------------- MODULE ServicesProofs ---------------------------
(***************************************************************************)
(* What the run of all services checks, proved of the run.  The theorems    *)
(* about a service hold for all values of its constants; here they are      *)
(* instantiated with the values of the run.  Of each service four lemmas    *)
(* say that the instance in the proofs is the one the run has (Same), that  *)
(* a behaviour of the run is one of the service or never runs it (Run),     *)
(* that the values meet the assumptions of the theorems (Setup) and what    *)
(* therefore holds of the run (Holds); the theorems about the run follow.   *)
(* One instance serves several services whose names do not meet.            *)
(* Constants and variables that a service has no use for get the values {}  *)
(* and 0; the theorems that are cited are not about them.                   *)
(***************************************************************************)
EXTENDS MCServices, EmailOutboxProofs

(* The run runs this service, and no other.                                 *)
On(service) == focus = service

(* Sets of two or three are finite.                                         *)
LEMMA SmallSets ==
  \A a, b, c : IsFiniteSet({a, b}) /\ IsFiniteSet({a, b, c})
  <1> TAKE a, b, c
  <1>1. IsFiniteSet({a})
    BY FS_Singleton
  <1>2. IsFiniteSet({a} \cup {b})
    BY <1>1, FS_AddElement
  <1>3. IsFiniteSet(({a} \cup {b}) \cup {c})
    BY <1>2, FS_AddElement
  <1>4. {a} \cup {b} = {a, b} /\ ({a} \cup {b}) \cup {c} = {a, b, c}
    OBVIOUS
  <1>q. QED BY <1>2, <1>3, <1>4

(* A run stays with its service.                                            *)
LEMMA FocusStays == [ServicesNext]_all => focus' = focus
  BY DEF ServicesNext, all, Still5

-----------------------------------------------------------------------------
Mending == INSTANCE AdministrationProofs WITH
  Games <- {1, 2, 3}, Teams <- {1, 2, 3}, Corrections <- {1},
  GroupSlots <- {11, 12, 13}, Slots <- {11, 12, 13, 31, 32, 41, 42},
  SlotOf <- <<[home |-> 11, away |-> 12], [home |-> 31, away |-> 32], [home |-> 41, away |-> 42]>>,
  Phase <- <<0, 1, 2>>, Places <- {1, 2, 3, 4}, Halls <- {2}, TimeOf <- <<1, 2, 2, 3>>,
  Capacity <- 2,
  NoTeam <- 0, NoGame <- 0, NoPlace <- 0, NoCorrection <- 0,
  Outcomes <- {[status |-> "VOID", won |-> "none"], [status |-> "COMPLETED", won |-> "home"],
               [status |-> "COMPLETED", won |-> "away"]},
  Draws <- {[home |-> 3, away |-> 1], [home |-> 1, away |-> 2]}, MaxWork <- 15,
  Start <- {CorrectionStart},
  season <- s1, game <- s2, allocated <- s3, forced <- s4, assignment <- s5,
  revision <- s6, sheet <- s7, history <- s8, correction <- s9,
  Accounts <- {"a", "f"}, Founders <- {"a", "f"}, Browsers <- {"b1"}, Commands <- {"c1", "c2"},
  Nobody <- "none", MaxVersion <- 2, account <- s1, browser <- s2, challenge <- s3, command <- s4,
  revoked <- s5,
  Seasons <- {}, Divisions <- {}, Venues <- {}, Configurations <- {}, DivisionsOf <- {},
  VenuesOf <- {}, Default <- {}, Flows <- {}, NoSeason <- {}, NoVenue <- {}, NoToken <- {},
  Players <- {}, Names <- {}, Batches <- {}, Numbers <- {}, Entries <- {}, Files <- {},
  NoNumber <- {}, NoBase <- {}, NoPreview <- {}, Matchups <- {}, SlotsOf <- {}, Grids <- {},
  Families <- {}, Roles <- {}, Opponents <- {}, Voters <- {}, MaxSerial <- {}, divisions <- 0,
  scheduled <- 0, venues <- 0, flow <- 0, shown <- 0, batch <- 0, team <- 0, player <- 0,
  leader <- 0, led <- 0, drawn <- 0, draft <- 0, request <- 0, staff <- 0, task <- 0

(* The run and the theorems have the same corrections.                      *)
LEMMA CorrectionsSame ==
  /\ Repairs!Init <=> Mending!Repairs!Init
  /\ Repairs!Next => Mending!Repairs!Next
  /\ Repairs!vars = Mending!Repairs!vars
  /\ Repairs!TypeOK <=> Mending!Repairs!TypeOK
  /\ Repairs!RecordsAgree <=> Mending!Repairs!RecordsAgree
  /\ \A g, h : /\ Repairs!Meet(g, h) <=> Mending!Repairs!Meet(g, h)
               /\ Repairs!Meet(g, h)' <=> Mending!Repairs!Meet(g, h)'
               /\ Repairs!MeetUnreserved(g, h) <=> Mending!Repairs!MeetUnreserved(g, h)
  /\ Repairs!Disputes(1) <=> Mending!Repairs!Disputes(1)
  <1>1. Repairs!Init <=> Mending!Repairs!Init
    BY DEF Repairs!Result, Repairs!NoDraft, Repairs!Init, Mending!Repairs!Result,
           Mending!Repairs!NoDraft, Mending!Repairs!Init
  <1>2. Repairs!Next => Mending!Repairs!Next
    <2>1. ASSUME NEW c
          PROVE  Repairs!CorrectionCommand(c) => Mending!Repairs!CorrectionCommand(c)
      <3>1. Repairs!Correct(c) => Mending!Repairs!Correct(c)
        <4>1. ASSUME NEW f, NEW d
              PROVE  Repairs!CreateCorrection(c, f, d) <=> Mending!Repairs!CreateCorrection(c, f, d)
          BY DEF Repairs!Cardinality, Repairs!Sides, Repairs!Played, Repairs!Result,
                 Repairs!Winner, Repairs!TeamsOf, Repairs!GameOf, Repairs!SideOf,
                 Repairs!Occupying, Repairs!KeptFor, Repairs!At, Repairs!CourtFree,
                 Repairs!TeamsFree, Repairs!WithinCapacity, Repairs!Fits, Repairs!Then,
                 Repairs!ResultValid, Repairs!NoRoundDuplicates, Repairs!Impacts,
                 Repairs!Resolved, Repairs!ResultDiffers, Repairs!Republished,
                 Repairs!Correctable, Repairs!Changes, Repairs!CanCreate,
                 Repairs!CreateCorrection, Mending!Repairs!Cardinality, Mending!Repairs!Sides,
                 Mending!Repairs!Played, Mending!Repairs!Result, Mending!Repairs!Winner,
                 Mending!Repairs!TeamsOf, Mending!Repairs!GameOf, Mending!Repairs!SideOf,
                 Mending!Repairs!Occupying, Mending!Repairs!KeptFor, Mending!Repairs!At,
                 Mending!Repairs!CourtFree, Mending!Repairs!TeamsFree,
                 Mending!Repairs!WithinCapacity, Mending!Repairs!Fits, Mending!Repairs!Then,
                 Mending!Repairs!ResultValid, Mending!Repairs!NoRoundDuplicates,
                 Mending!Repairs!Impacts, Mending!Repairs!Resolved,
                 Mending!Repairs!ResultDiffers, Mending!Repairs!Republished,
                 Mending!Repairs!Correctable, Mending!Repairs!Changes, Mending!Repairs!CanCreate,
                 Mending!Repairs!CreateCorrection
        <4>2. ASSUME NEW f
              PROVE  Repairs!Impacts(f) = Mending!Repairs!Impacts(f)
          BY DEF Repairs!Played, Repairs!Winner, Repairs!Impacts,
                 Mending!Repairs!Played, Mending!Repairs!Winner, Mending!Repairs!Impacts
        <4>3. ASSUME NEW g
              PROVE  Repairs!Variants(g) = Mending!Repairs!Variants(g)
          BY DEF Repairs!Sides, Repairs!Played, Repairs!ResultValid, Repairs!RowOf,
                 Repairs!ResultsFor, Repairs!Named, Repairs!PlacesFor, Repairs!TeamsFor,
                 Repairs!Variants, Mending!Repairs!Sides, Mending!Repairs!Played,
                 Mending!Repairs!ResultValid, Mending!Repairs!RowOf, Mending!Repairs!ResultsFor,
                 Mending!Repairs!Named, Mending!Repairs!PlacesFor, Mending!Repairs!TeamsFor,
                 Mending!Repairs!Variants
        <4>4. ASSUME NEW g
              PROVE  Repairs!ForcedMoves(g) = Mending!Repairs!ForcedMoves(g)
          BY DEF Repairs!RowOf, Repairs!Named, Repairs!PlacesFor, Repairs!ForcedMoves,
                 Mending!Repairs!RowOf, Mending!Repairs!Named, Mending!Repairs!PlacesFor,
                 Mending!Repairs!ForcedMoves
        <4>5. ASSUME NEW s, NEW t
              PROVE  Repairs!Settled(s, t) = Mending!Repairs!Settled(s, t)
          BY DEF Repairs!Sides, Repairs!Played, Repairs!GameOf, Repairs!SideOf,
                 Repairs!RowOf, Repairs!Settled, Mending!Repairs!Sides,
                 Mending!Repairs!Played, Mending!Repairs!GameOf, Mending!Repairs!SideOf,
                 Mending!Repairs!RowOf, Mending!Repairs!Settled
        <4>6. ASSUME NEW g
              PROVE  Repairs!RowOf(g) = Mending!Repairs!RowOf(g)
          BY DEF Repairs!RowOf, Mending!Repairs!RowOf
        <4>7. ASSUME NEW s
              PROVE  Repairs!GameOf(s) = Mending!Repairs!GameOf(s)
          BY DEF Repairs!Sides, Repairs!GameOf, Mending!Repairs!Sides,
                 Mending!Repairs!GameOf
        <4> DEFINE only(g, row) == [h \in {g} |-> row]
                   both(g, row, s, target) ==
                     [h \in {g, Repairs!GameOf(s)} |-> IF h = g THEN row ELSE target]
                   asked(s, action, t) == [x \in {s} |-> [action |-> action, team |-> t]]
                   targets(s, action, t) ==
                     IF action = "KEEP_OVERRIDE" THEN {Repairs!RowOf(Repairs!GameOf(s))}
                     ELSE Repairs!Settled(s, t)
                   alone(g, row) == Repairs!Impacts(only(g, row)) = {}
                                    /\ Repairs!CreateCorrection(c, only(g, row), <<>>)
        <4>8. SUFFICES ASSUME Repairs!Correct(c) PROVE Mending!Repairs!Correct(c)
          OBVIOUS
        <4> DEFINE one(g, row) ==
                     \/ alone(g, row)
                     \/ \E s \in Repairs!Impacts(only(g, row)), action \in Repairs!Actions,
                          t \in {1, 2, 3} \cup {0} :
                            \E target \in targets(s, action, t) :
                              Repairs!CreateCorrection(c, both(g, row, s, target), asked(s, action, t))
        <4>9a. PICK g \in {1, 2, 3} :
                 \E row \in Repairs!Variants(g) \cup Repairs!ForcedMoves(g) : one(g, row)
          BY <4>8 DEF Repairs!Correct
        <4>9. PICK row \in Repairs!Variants(g) \cup Repairs!ForcedMoves(g) : one(g, row)
          BY <4>9a
        <4>10. row \in Mending!Repairs!Variants(g) \cup Mending!Repairs!ForcedMoves(g)
          BY <4>3, <4>4, <4>9
        <4>11. CASE alone(g, row)
          <5>1. Mending!Repairs!Impacts(only(g, row)) = {}
                /\ Mending!Repairs!CreateCorrection(c, only(g, row), <<>>)
            BY <4>1, <4>2, <4>11
          <5>q. QED BY <4>10, <5>1 DEF Mending!Repairs!Correct
        <4>12. ASSUME NEW s \in Repairs!Impacts(only(g, row)), NEW action \in Repairs!Actions,
                      NEW t \in {1, 2, 3} \cup {0}, NEW target \in targets(s, action, t),
                      Repairs!CreateCorrection(c, both(g, row, s, target), asked(s, action, t))
               PROVE  Mending!Repairs!Correct(c)
          <5>1. s \in Mending!Repairs!Impacts(only(g, row)) /\ action \in Mending!Repairs!Actions
            BY <4>2, <4>12 DEF Repairs!Actions, Mending!Repairs!Actions
          <5>2. target \in IF action = "KEEP_OVERRIDE"
                          THEN {Mending!Repairs!RowOf(Mending!Repairs!GameOf(s))}
                          ELSE Mending!Repairs!Settled(s, t)
            BY <4>5, <4>6, <4>7, <4>12
          <5>3. Mending!Repairs!CreateCorrection(c,
                  [h \in {g, Mending!Repairs!GameOf(s)} |-> IF h = g THEN row ELSE target],
                  asked(s, action, t))
            BY <4>1, <4>7, <4>12
          <5> DEFINE then(r, b, u, x) == Mending!Repairs!CreateCorrection(c,
                       [h \in {g, Mending!Repairs!GameOf(r)} |-> IF h = g THEN row ELSE x],
                       asked(r, b, u))
                     choices(r, b, u) == IF b = "KEEP_OVERRIDE"
                       THEN {Mending!Repairs!RowOf(Mending!Repairs!GameOf(r))}
                       ELSE Mending!Repairs!Settled(r, u)
          <5>4. \E x \in choices(s, action, t) : then(s, action, t, x)
            BY <5>2, <5>3
          <5> HIDE DEF then, choices
          <5>5. \E r \in Mending!Repairs!Impacts(only(g, row)), b \in Mending!Repairs!Actions,
                   u \in {1, 2, 3} \cup {0} : \E x \in choices(r, b, u) : then(r, b, u, x)
            BY <4>12, <5>1, <5>4
          <5> USE DEF then, choices
          <5>q. QED BY <4>10, <5>5 DEF Mending!Repairs!Correct
        <4>q. QED BY <4>9, <4>11, <4>12
      <3>2. Repairs!ApplyCorrection(c) <=> Mending!Repairs!ApplyCorrection(c)
        BY DEF Repairs!Sides, Repairs!Result, Repairs!Unassigned, Repairs!Override,
               Repairs!Confirmed, Repairs!Reserved, Repairs!Reservable, Repairs!ResultDiffers,
               Repairs!AsExpected, Repairs!Saved, Repairs!Synced, Repairs!Downstream,
               Repairs!Applicable, Repairs!CorrectedRows, Repairs!Applies,
               Repairs!ApplyCorrection, Mending!Repairs!Sides, Mending!Repairs!Result,
               Mending!Repairs!Unassigned, Mending!Repairs!Override, Mending!Repairs!Confirmed,
               Mending!Repairs!Reserved, Mending!Repairs!Reservable,
               Mending!Repairs!ResultDiffers, Mending!Repairs!AsExpected, Mending!Repairs!Saved,
               Mending!Repairs!Synced, Mending!Repairs!Downstream, Mending!Repairs!Applicable,
               Mending!Repairs!CorrectedRows, Mending!Repairs!Applies,
               Mending!Repairs!ApplyCorrection
      <3>3. Repairs!CancelCorrection(c) <=> Mending!Repairs!CancelCorrection(c)
        BY DEF Repairs!CancelCorrection, Mending!Repairs!CancelCorrection
      <3>q. QED
        BY <3>1, <3>2, <3>3
        DEF Repairs!CorrectionCommand, Mending!Repairs!CorrectionCommand
    <2>2. ASSUME NEW g, NEW s
          PROVE  Repairs!Publish(g, s) <=> Mending!Repairs!Publish(g, s)
      BY DEF Repairs!Cardinality, Repairs!Sides, Repairs!Result, Repairs!TeamsOf,
             Repairs!Within, Repairs!Publishable, Repairs!Published,
             Repairs!WithStats, Repairs!Publish, Repairs!MapThenSumSet,
             Repairs!MapThenFoldSet, Mending!Repairs!Cardinality, Mending!Repairs!Sides,
             Mending!Repairs!Result, Mending!Repairs!TeamsOf, Mending!Repairs!Within,
             Mending!Repairs!Publishable, Mending!Repairs!Published, Mending!Repairs!WithStats,
             Mending!Repairs!Publish, Mending!Repairs!MapThenSumSet, Mending!Repairs!MapThenFoldSet
    <2>3. ASSUME NEW g, NEW s
          PROVE  Repairs!PublishCorrected(g, s) <=> Mending!Repairs!PublishCorrected(g, s)
      BY DEF Repairs!Cardinality, Repairs!Sides, Repairs!Result, Repairs!TeamsOf,
             Repairs!Unassigned, Repairs!Override, Repairs!Confirmed, Repairs!Reserved,
             Repairs!Reservable, Repairs!ResultDiffers, Repairs!AsExpected, Repairs!Saved,
             Repairs!Synced, Repairs!Downstream, Repairs!Applicable, Repairs!CorrectedRows,
             Repairs!Applies, Repairs!Publishable, Repairs!Published, Repairs!WithStats,
             Repairs!PublishCorrected, Mending!Repairs!Cardinality, Mending!Repairs!Sides,
             Mending!Repairs!Result, Mending!Repairs!TeamsOf, Mending!Repairs!Unassigned,
             Mending!Repairs!Override, Mending!Repairs!Confirmed, Mending!Repairs!Reserved,
             Mending!Repairs!Reservable, Mending!Repairs!ResultDiffers,
             Mending!Repairs!AsExpected, Mending!Repairs!Saved, Mending!Repairs!Synced,
             Mending!Repairs!Downstream, Mending!Repairs!Applicable,
             Mending!Repairs!CorrectedRows, Mending!Repairs!Applies, Mending!Repairs!Publishable,
             Mending!Repairs!Published, Mending!Repairs!WithStats,
             Mending!Repairs!PublishCorrected
    <2>4. ASSUME NEW g, NEW p
          PROVE  Repairs!Submit(g, p) <=> Mending!Repairs!Submit(g, p)
      BY DEF Repairs!Cardinality, Repairs!MapThenSumSet, Repairs!MapThenFoldSet, Repairs!Sides,
             Repairs!TeamsOf, Repairs!Within, Repairs!Occupying, Repairs!KeptFor, Repairs!At,
             Repairs!CourtFree, Repairs!TeamsFree, Repairs!WithinCapacity, Repairs!Fits,
             Repairs!Moved, Repairs!Submit, Mending!Repairs!Cardinality,
             Mending!Repairs!MapThenSumSet, Mending!Repairs!MapThenFoldSet,
             Mending!Repairs!Sides, Mending!Repairs!TeamsOf, Mending!Repairs!Within,
             Mending!Repairs!Occupying, Mending!Repairs!KeptFor, Mending!Repairs!At,
             Mending!Repairs!CourtFree, Mending!Repairs!TeamsFree,
             Mending!Repairs!WithinCapacity, Mending!Repairs!Fits, Mending!Repairs!Moved,
             Mending!Repairs!Submit
    <2>5. ASSUME NEW g
          PROVE  Repairs!Approve(g) <=> Mending!Repairs!Approve(g)
      BY DEF Repairs!Approve, Mending!Repairs!Approve
    <2>6. ASSUME NEW g
          PROVE  Repairs!EndRequest(g) <=> Mending!Repairs!EndRequest(g)
      BY DEF Repairs!EndRequest, Mending!Repairs!EndRequest
    <2>7. ASSUME NEW g, NEW r
          PROVE  Repairs!UpdateGame(g, r) <=> Mending!Repairs!UpdateGame(g, r)
      BY DEF Repairs!Cardinality, Repairs!MapThenSumSet, Repairs!MapThenFoldSet, Repairs!Sides,
             Repairs!Played, Repairs!Result, Repairs!TeamsOf, Repairs!Within, Repairs!Occupying,
             Repairs!KeptFor, Repairs!At, Repairs!CourtFree, Repairs!TeamsFree,
             Repairs!WithinCapacity, Repairs!Fits, Repairs!Reserved, Repairs!Reservable,
             Repairs!Then, Repairs!ResultValid, Repairs!ResultDiffers, Repairs!Saved,
             Repairs!UpdateGame, Mending!Repairs!Cardinality, Mending!Repairs!MapThenSumSet,
             Mending!Repairs!MapThenFoldSet, Mending!Repairs!Sides, Mending!Repairs!Played,
             Mending!Repairs!Result, Mending!Repairs!TeamsOf, Mending!Repairs!Within,
             Mending!Repairs!Occupying, Mending!Repairs!KeptFor, Mending!Repairs!At,
             Mending!Repairs!CourtFree, Mending!Repairs!TeamsFree,
             Mending!Repairs!WithinCapacity, Mending!Repairs!Fits, Mending!Repairs!Reserved,
             Mending!Repairs!Reservable, Mending!Repairs!Then, Mending!Repairs!ResultValid,
             Mending!Repairs!ResultDiffers, Mending!Repairs!Saved, Mending!Repairs!UpdateGame
    <2>8. ASSUME NEW g
          PROVE  Repairs!Variants(g) = Mending!Repairs!Variants(g)
      BY DEF Repairs!Sides, Repairs!Played, Repairs!ResultValid, Repairs!RowOf,
             Repairs!ResultsFor, Repairs!Named, Repairs!PlacesFor, Repairs!TeamsFor,
             Repairs!Variants, Mending!Repairs!Sides, Mending!Repairs!Played,
             Mending!Repairs!ResultValid, Mending!Repairs!RowOf, Mending!Repairs!ResultsFor,
             Mending!Repairs!Named, Mending!Repairs!PlacesFor, Mending!Repairs!TeamsFor,
             Mending!Repairs!Variants
    <2>9. Repairs!DrawCommand <=> Mending!Repairs!DrawCommand
      BY DEF Repairs!Sides, Repairs!Played, Repairs!Winner, Repairs!GameOf,
             Repairs!SideOf, Repairs!Unassigned, Repairs!Override, Repairs!Free,
             Repairs!Confirmed, Repairs!Within, Repairs!Occupying, Repairs!DrawSafe,
             Repairs!Redrawn, Repairs!ChangedSlots, Repairs!Affected,
             Repairs!DrawGroups, Repairs!Previous, Repairs!Beaten,
             Repairs!DrawnFrom, Repairs!DrawnElsewhere, Repairs!MayDraw,
             Repairs!DrawGame, Repairs!DrawCommand, Repairs!MapThenSumSet,
             Repairs!MapThenFoldSet, Mending!Repairs!Sides, Mending!Repairs!Played,
             Mending!Repairs!Winner, Mending!Repairs!GameOf, Mending!Repairs!SideOf,
             Mending!Repairs!Unassigned, Mending!Repairs!Override, Mending!Repairs!Free,
             Mending!Repairs!Confirmed, Mending!Repairs!Within, Mending!Repairs!Occupying,
             Mending!Repairs!DrawSafe, Mending!Repairs!Redrawn, Mending!Repairs!ChangedSlots,
             Mending!Repairs!Affected, Mending!Repairs!DrawGroups, Mending!Repairs!Previous,
             Mending!Repairs!Beaten, Mending!Repairs!DrawnFrom, Mending!Repairs!DrawnElsewhere,
             Mending!Repairs!MayDraw, Mending!Repairs!DrawGame, Mending!Repairs!DrawCommand,
             Mending!Repairs!MapThenSumSet, Mending!Repairs!MapThenFoldSet
    <2>10. Repairs!Archive <=> Mending!Repairs!Archive
      BY DEF Repairs!Within, Repairs!Archive, Repairs!MapThenSumSet,
             Repairs!MapThenFoldSet, Mending!Repairs!Within, Mending!Repairs!Archive,
             Mending!Repairs!MapThenSumSet, Mending!Repairs!MapThenFoldSet
    <2>q. QED
      BY <2>1, <2>2, <2>3, <2>4, <2>5, <2>6, <2>7, <2>8, <2>9, <2>10
      DEF Repairs!Sides, Repairs!Next, Mending!Repairs!Sides, Mending!Repairs!Next
  <1>3. Repairs!vars = Mending!Repairs!vars
    BY DEF Repairs!vars, Mending!Repairs!vars
  <1>4. Repairs!TypeOK <=> Mending!Repairs!TypeOK
    BY DEF Repairs!Sides, Repairs!Played, Repairs!Statuses, Repairs!Participants,
           Repairs!GameRows, Repairs!TypeOK, Mending!Repairs!Sides, Mending!Repairs!Played,
           Mending!Repairs!Statuses, Mending!Repairs!Participants, Mending!Repairs!GameRows,
           Mending!Repairs!TypeOK
  <1>5. Repairs!RecordsAgree <=> Mending!Repairs!RecordsAgree
    BY DEF Repairs!Sides, Repairs!Played, Repairs!Result, Repairs!Winner,
           Repairs!GameOf, Repairs!SideOf, Repairs!RecordsAgree, Mending!Repairs!Sides,
           Mending!Repairs!Played, Mending!Repairs!Result, Mending!Repairs!Winner,
           Mending!Repairs!GameOf, Mending!Repairs!SideOf, Mending!Repairs!RecordsAgree
  <1>6. ASSUME NEW g, NEW h
        PROVE  /\ Repairs!Meet(g, h) <=> Mending!Repairs!Meet(g, h)
               /\ Repairs!Meet(g, h)' <=> Mending!Repairs!Meet(g, h)'
               /\ Repairs!MeetUnreserved(g, h) <=> Mending!Repairs!MeetUnreserved(g, h)
    BY DEF Repairs!Occupying, Repairs!Meet, Repairs!AppliedTo, Repairs!ApprovedTo,
           Repairs!MeetUnreserved, Mending!Repairs!Occupying, Mending!Repairs!Meet,
           Mending!Repairs!AppliedTo, Mending!Repairs!ApprovedTo, Mending!Repairs!MeetUnreserved
  <1>7. Repairs!Disputes(1) <=> Mending!Repairs!Disputes(1)
    BY DEF Repairs!Played, Repairs!Winner, Repairs!Disputed, Repairs!Applied,
           Repairs!Disputes, Mending!Repairs!Played, Mending!Repairs!Winner,
           Mending!Repairs!Disputed, Mending!Repairs!Applied, Mending!Repairs!Disputes
  <1>q. QED BY <1>1, <1>2, <1>3, <1>4, <1>5, <1>6, <1>7

(* A behaviour of the run is one of corrections or has none.                *)
LEMMA CorrectionsRun == ServicesSpec => (Mending!Repairs!Spec /\ []On("corrections")) \/ []~On("corrections")
  <1>1. ServicesInit /\ On("corrections") => Mending!Repairs!Init
    BY CorrectionsSame DEF ServicesInit, On
  <1>2. On("corrections") /\ [ServicesNext]_all
            => [Mending!Repairs!Next]_Mending!Repairs!vars /\ On("corrections")'
    BY CorrectionsSame DEF ServicesNext, all, shared, On, Still5, Mending!Repairs!vars
  <1>3. ~On("corrections") /\ [ServicesNext]_all => ~On("corrections")'
    BY FocusStays DEF On
  <1>q. QED BY <1>1, <1>2, <1>3, PTL DEF ServicesSpec, Mending!Repairs!Spec

(* The values of the run meet the assumptions about corrections.            *)
LEMMA CorrectionsSetup == Mending!CompetitionAssumptions
  <1> DEFINE slots == {11, 12, 13, 31, 32, 41, 42}
             places == <<[home |-> 11, away |-> 12], [home |-> 31, away |-> 32],
                         [home |-> 41, away |-> 42]>>
             rows == CorrectionStart.game
  <1>1. IsFiniteSet({1, 2, 3})
    BY SmallSets
  <1>2. <<0, 1, 2>> \in [{1, 2, 3} -> Nat]
    OBVIOUS
  <1>3. \A g \in {1, 2, 3}, side \in {"home", "away"} : places[g][side] \in slots
    OBVIOUS
  <1>4. \A s \in slots : s \in {11, 12, 13} \/ Mending!Drawn(s)
    BY DEF Mending!Drawn, Mending!Repairs!Sides
  <1>5. \A g, h \in {1, 2, 3}, a, b \in {"home", "away"} :
          places[g][a] = places[h][b] /\ places[g][a] \notin {11, 12, 13} => g = h /\ a = b
    OBVIOUS
  <1>6. \A g \in {1, 2, 3} : /\ places[g]["home"] # places[g]["away"]
                             /\ places[g]["home"] \in {11, 12, 13} <=> places[g]["away"] \in {11, 12, 13}
    OBVIOUS
  <1>7. CorrectionStart.version \in Nat
    BY DEF CorrectionStart
  <1>8. CorrectionStart.game \in [{1, 2, 3} -> Mending!MatchRow]
    BY DEF CorrectionStart, GameRow, Mending!MatchRow, Mending!Pair, Mending!WonBy,
       Mending!Repairs!Sides, Mending!Repairs!Statuses, Mending!Repairs!Played
  <1>9. CorrectionStart.assignment \in [slots -> Mending!SlotRow]
    BY DEF CorrectionStart, Slot, Mending!SlotRow, Mending!Modes
  <1>10. CorrectionStart.sheet \in [{1, 2, 3} -> Mending!PaperRow]
    <2>1. {} # {1, 2} /\ Sheet({}) = [published |-> FALSE, pending |-> 0, stats |-> {}]
          /\ Sheet({1, 2}) = [published |-> TRUE, pending |-> 0, stats |-> {1, 2}]
      BY DEF Sheet
    <2>2. Sheet({}) \in Mending!PaperRow /\ Sheet({1, 2}) \in Mending!PaperRow
      <3>1. {} \in SUBSET {1, 2, 3} /\ {1, 2} \in SUBSET {1, 2, 3} /\ 0 \in {1} \cup {0}
        OBVIOUS
      <3>2. \A b \in BOOLEAN, s \in SUBSET {1, 2, 3} :
              [published |-> b, pending |-> 0, stats |-> s] \in Mending!PaperRow
        BY <3>1 DEF Mending!PaperRow
      <3>q. QED BY <2>1, <3>1, <3>2
    <2>q. QED BY <2>2 DEF CorrectionStart
  <1>11. \A g \in {1, 2, 3} : Mending!Sound(rows[g]) /\ CorrectionStart.sheet[g].pending = 0
    BY DEF CorrectionStart, GameRow, Sheet, Mending!Sound, Mending!Repairs!Played
  <1>12. Mending!TrueTo(CorrectionStart.assignment, rows)
    <2>1. /\ \A s \in {31, 32} : Mending!Repairs!GameOf(s) = 2
          /\ \A s \in {41, 42} : Mending!Repairs!GameOf(s) = 3
      BY DEF Mending!Repairs!GameOf, Mending!Repairs!Sides
    <2>2. /\ Mending!Repairs!SideOf(31) = "home" /\ Mending!Repairs!SideOf(32) = "away"
          /\ Mending!Repairs!SideOf(41) = "home" /\ Mending!Repairs!SideOf(42) = "away"
      BY <2>1 DEF Mending!Repairs!SideOf, Mending!Repairs!Sides
    <2>q. QED BY <2>1, <2>2 DEF CorrectionStart, GameRow, Slot, Mending!TrueTo
  <1>13. Mending!WonAsSaid(CorrectionStart.assignment, rows)
    BY DEF CorrectionStart, Slot, Mending!WonAsSaid
  <1>14. Mending!DrawnFromGames(CorrectionStart.assignment)
    BY DEF CorrectionStart, Slot, Mending!DrawnFromGames
  <1>15. \A S : Mending!IsFiniteSet(S) <=> IsFiniteSet(S)
    BY DEF Mending!IsFiniteSet, IsFiniteSet
  <1>16. {[status |-> "VOID", won |-> "none"], [status |-> "COMPLETED", won |-> "home"],
          [status |-> "COMPLETED", won |-> "away"]}
           \subseteq [status : Mending!Repairs!Statuses, won : Mending!WonBy]
    BY DEF Mending!Repairs!Statuses, Mending!Repairs!Played, Mending!WonBy, Mending!Repairs!Sides
  <1>17. {[home |-> 3, away |-> 1], [home |-> 1, away |-> 2]} \subseteq Mending!Pair
    BY DEF Mending!Pair, Mending!Repairs!Sides
  <1>18. Mending!Repairs!Sides = {"home", "away"}
    BY DEF Mending!Repairs!Sides
  <1> HIDE DEF slots, places, rows
  <1>19. \A start \in {CorrectionStart} :
           /\ start.version \in Nat /\ start.game \in [{1, 2, 3} -> Mending!MatchRow]
           /\ start.assignment \in [slots -> Mending!SlotRow]
           /\ start.sheet \in [{1, 2, 3} -> Mending!PaperRow]
           /\ \A g \in {1, 2, 3} : Mending!Sound(start.game[g]) /\ start.sheet[g].pending = 0
           /\ Mending!TrueTo(start.assignment, start.game)
           /\ Mending!WonAsSaid(start.assignment, start.game)
           /\ Mending!DrawnFromGames(start.assignment)
    BY <1>7, <1>8, <1>9, <1>10, <1>11, <1>12, <1>13, <1>14 DEF rows
  <1> USE DEF slots, places
  <1>q. QED
    BY <1>1, <1>2, <1>3, <1>4, <1>5, <1>6, <1>15, <1>16, <1>17, <1>18, <1>19
    DEF Mending!CompetitionAssumptions

(* What the theorems say of corrections holds in the run.                   *)
LEMMA CorrectionsHold ==
  ServicesSpec => /\ [](On("corrections") => Repairs!TypeOK /\ Repairs!RecordsAgree)
                  /\ [][On("corrections") => ~Repairs!Disputes(1)]_shared
                  /\ MeetOnlyUnreserved
  <1>1. Mending!Repairs!Spec => /\ [](Mending!Repairs!TypeOK /\ Mending!Repairs!RecordsAgree)
                                /\ Mending!Repairs!CorrectionsSettleWinners
                                /\ Mending!Repairs!MeetOnlyUnreserved
    BY CorrectionsSetup, Mending!CorrectionsStayTrue
  <1>2. Mending!Repairs!TypeOK /\ Mending!Repairs!RecordsAgree
          => Repairs!TypeOK /\ Repairs!RecordsAgree
    BY CorrectionsSame
  <1> DEFINE Settles == \A c \in {1} : ~Mending!Repairs!Disputes(c)
             Meets == \A g, h \in {1, 2, 3} :
               Mending!Repairs!Meet(g, h)' /\ ~Mending!Repairs!Meet(g, h)
                 => Mending!Repairs!MeetUnreserved(g, h)
             RunMeets == focus = "corrections" => \A g, h \in {1, 2, 3} :
               Repairs!Meet(g, h)' /\ ~Repairs!Meet(g, h) => Repairs!MeetUnreserved(g, h)
  <1>3. [ServicesNext]_all /\ [Settles]_Mending!Repairs!vars
          => [On("corrections") => ~Repairs!Disputes(1)]_shared
    BY CorrectionsSame DEF ServicesNext, all, shared, On, Still5, Mending!Repairs!vars
  <1>4. [ServicesNext]_all /\ [Meets]_Mending!Repairs!vars => [RunMeets]_shared
    BY CorrectionsSame DEF ServicesNext, all, shared, Still5, Mending!Repairs!vars
  <1>5. [ServicesNext]_all /\ ~On("corrections")
          => [On("corrections") => ~Repairs!Disputes(1)]_shared /\ [RunMeets]_shared
    BY DEF On
  <1>6. Mending!Repairs!CorrectionsSettleWinners => [][Settles]_Mending!Repairs!vars
    BY PTL DEF Mending!Repairs!CorrectionsSettleWinners
  <1>7. Mending!Repairs!MeetOnlyUnreserved => [][Meets]_Mending!Repairs!vars
    BY PTL DEF Mending!Repairs!MeetOnlyUnreserved
  <1>8. [][RunMeets]_shared => MeetOnlyUnreserved
    BY PTL DEF MeetOnlyUnreserved
  <1> HIDE DEF Settles, Meets, RunMeets
  <1>q. QED
    BY <1>1, <1>2, <1>3, <1>4, <1>5, <1>6, <1>7, <1>8, CorrectionsRun, PTL DEF ServicesSpec

(* Revisions, pending scoresheets, bracket slots and confirmed winners      *)
(* agree with the games after every correction                              *)
(* (services/competition_corrections.py).                                   *)
THEOREM RecordsStayInAgreement == ServicesSpec => []RecordsAgree
  <1>1. (On("corrections") => Repairs!TypeOK /\ Repairs!RecordsAgree) => RecordsAgree
    BY DEF RecordsAgree, On
  <1>q. QED BY <1>1, CorrectionsHold, PTL

(* Two games that nobody forced come to share a court only by a correction  *)
(* applied or a request approved, which do not look again, and only when    *)
(* one of the two is at a place that is not reserved: where both are, the   *)
(* constraint keeps them apart whatever was corrected, edited or asked for  *)
(* since the preview (_update_reservation, _approve_request).               *)
THEOREM ReservedCourtsStayApart == ServicesSpec => MeetOnlyUnreserved
  BY CorrectionsHold, PTL

(* No applied correction leaves behind a confirmed winner who is not the    *)
(* winner any more (_downstream_impacts, apply_correction).                 *)
THEOREM WinnersAreSettled == ServicesSpec => CorrectionsSettleWinners
  <1>1. [On("corrections") => ~Repairs!Disputes(1)]_shared
          => [focus = "corrections" => ~Repairs!Disputes(1)]_shared
    BY DEF On
  <1>q. QED BY <1>1, CorrectionsHold, PTL DEF CorrectionsSettleWinners

-----------------------------------------------------------------------------
(* The run and the theorems have the same superadmins.                      *)
LEMMA SuperadminsSame ==
  /\ Superadmins!Init <=> Mending!Init
  /\ Superadmins!Next => Mending!Next
  /\ Superadmins!vars = Mending!vars
  /\ Superadmins!TypeOK <=> Mending!TypeOK
  /\ Superadmins!AccountsAreGoverned <=> Mending!AccountsAreGoverned
  <1>1. Superadmins!Init <=> Mending!Init
    BY DEF Superadmins!Out, Superadmins!NoCode, Superadmins!NoCommand, Superadmins!Init,
           Mending!Out, Mending!NoCode, Mending!NoCommand, Mending!Init
  <1>2. Superadmins!Next => Mending!Next
    <2>1. ASSUME NEW a
          PROVE  Superadmins!Register(a) <=> Mending!Register(a)
      BY DEF Superadmins!Saved, Superadmins!Room, Superadmins!Register, Mending!Saved, Mending!Room,
             Mending!Register
    <2>2. ASSUME NEW a
          PROVE  Superadmins!ConfirmCode(a) <=> Mending!ConfirmCode(a)
      BY DEF Superadmins!Admin, Superadmins!ConfirmCode, Mending!Admin, Mending!ConfirmCode
    <2>3. ASSUME NEW c
          PROVE  Superadmins!AccountCommand(c) <=> Mending!AccountCommand(c)
      BY DEF Superadmins!Cardinality, Superadmins!NoCommand, Superadmins!Superadmin,
             Superadmins!Superadmins, Superadmins!Good, Superadmins!Saved, Superadmins!WithPassword,
             Superadmins!Room, Superadmins!SessionsOf, Superadmins!Authenticate,
             Superadmins!ActorStands, Superadmins!LastSuperadmin, Superadmins!Promote,
             Superadmins!Demote, Superadmins!SetActive, Superadmins!ResetPassword,
             Superadmins!Refused, Superadmins!RunCommand, Superadmins!AccountCommand,
             Mending!Cardinality, Mending!NoCommand, Mending!Superadmin, Mending!Superadmins,
             Mending!Good, Mending!Saved, Mending!WithPassword, Mending!Room, Mending!SessionsOf,
             Mending!Authenticate, Mending!ActorStands, Mending!LastSuperadmin, Mending!Promote,
             Mending!Demote, Mending!SetActive, Mending!ResetPassword, Mending!Refused,
             Mending!RunCommand, Mending!AccountCommand
    <2>4. ASSUME NEW b, NEW a
          PROVE  Superadmins!LoginByPassword(b, a) <=> Mending!LoginByPassword(b, a)
      BY DEF Superadmins!Admin, Superadmins!Entering, Superadmins!LoginByPassword, Mending!Admin,
             Mending!Entering, Mending!LoginByPassword
    <2>5. ASSUME NEW b
          PROVE  Superadmins!ShowCode(b) <=> Mending!ShowCode(b)
      BY DEF Superadmins!NoCode, Superadmins!ShowCode, Mending!NoCode, Mending!ShowCode
    <2>6. ASSUME NEW b
          PROVE  Superadmins!ConsumeCode(b) <=> Mending!ConsumeCode(b)
      BY DEF Superadmins!NoCode, Superadmins!Admin, Superadmins!Entering, Superadmins!ConsumeCode,
             Mending!NoCode, Mending!Admin, Mending!Entering, Mending!ConsumeCode
    <2>7. ASSUME NEW b
          PROVE  Superadmins!OpenSession(b) <=> Mending!OpenSession(b)
      BY DEF Superadmins!OpenSession, Mending!OpenSession
    <2>8. ASSUME NEW b
          PROVE  Superadmins!Logout(b) <=> Mending!Logout(b)
      BY DEF Superadmins!Out, Superadmins!Logout, Mending!Out, Mending!Logout
    <2>9. ASSUME NEW b
          PROVE  Superadmins!StartChange(b) <=> Mending!StartChange(b)
      BY DEF Superadmins!Admin, Superadmins!Good, Superadmins!StartChange, Mending!Admin,
             Mending!Good, Mending!StartChange
    <2>10. ASSUME NEW b
          PROVE  Superadmins!ChangePassword(b) <=> Mending!ChangePassword(b)
      BY DEF Superadmins!Saved, Superadmins!WithPassword, Superadmins!Room, Superadmins!SessionsOf,
             Superadmins!StillCurrent, Superadmins!ChangePassword, Mending!Saved,
             Mending!WithPassword, Mending!Room, Mending!SessionsOf, Mending!StillCurrent,
             Mending!ChangePassword
    <2>q. QED
      BY <2>1, <2>2, <2>3, <2>4, <2>5, <2>6, <2>7, <2>8, <2>9, <2>10
      DEF Superadmins!NoCode, Superadmins!CodeExpires, Superadmins!Next, Mending!NoCode,
           Mending!CodeExpires, Mending!Next
  <1>3. Superadmins!vars = Mending!vars
    BY DEF Superadmins!vars, Mending!vars
  <1>4. Superadmins!TypeOK <=> Mending!TypeOK
    BY DEF Superadmins!TypeOK, Mending!TypeOK
  <1>5. Superadmins!AccountsAreGoverned <=> Mending!AccountsAreGoverned
    BY DEF Superadmins!Superadmin, Superadmins!Superadmins, Superadmins!Good,
           Superadmins!SomeoneGoverns, Superadmins!RevokedForGood, Superadmins!AccountsAreGoverned,
           Mending!Superadmin, Mending!Superadmins, Mending!Good, Mending!SomeoneGoverns,
           Mending!RevokedForGood, Mending!AccountsAreGoverned
  <1>q. QED BY <1>1, <1>2, <1>3, <1>4, <1>5

(* A behaviour of the run is one of the superadmins or has none.            *)
LEMMA SuperadminsRun == ServicesSpec => (Mending!Spec /\ []On("superadmins")) \/ []~On("superadmins")
  <1>1. ServicesInit /\ On("superadmins") => Mending!Init
    BY SuperadminsSame DEF ServicesInit, On
  <1>2. On("superadmins") /\ [ServicesNext]_all => [Mending!Next]_Mending!vars /\ On("superadmins")'
    BY SuperadminsSame DEF ServicesNext, all, shared, On, Still5, Mending!vars
  <1>3. ~On("superadmins") /\ [ServicesNext]_all => ~On("superadmins")'
    BY FocusStays DEF On
  <1>q. QED BY <1>1, <1>2, <1>3, PTL DEF ServicesSpec, Mending!Spec

(* The values of the run meet the assumptions about the superadmins.        *)
LEMMA SuperadminsSetup == Mending!Setup
  <1>1. \A S : Mending!IsFiniteSet(S) <=> IsFiniteSet(S)
    BY DEF Mending!IsFiniteSet, IsFiniteSet
  <1>2. IsFiniteSet({"a", "f"})
    BY SmallSets
  <1>q. QED BY <1>1, <1>2 DEF Mending!Setup

(* What the theorems say of the superadmins holds in the run.               *)
LEMMA SuperadminsHold ==
  ServicesSpec => [](On("superadmins") => Superadmins!TypeOK /\ Superadmins!AccountsAreGoverned)
  <1>1. Mending!Spec => [](Mending!TypeOK /\ Mending!AccountsAreGoverned)
    BY SuperadminsSetup, Mending!GovernedCorrect
  <1>2. Mending!TypeOK /\ Mending!AccountsAreGoverned => Superadmins!TypeOK /\ Superadmins!AccountsAreGoverned
    BY SuperadminsSame
  <1>q. QED BY <1>1, <1>2, SuperadminsRun, PTL

-----------------------------------------------------------------------------
Planning == INSTANCE AdministrationProofs WITH
  Matchups <- {"x", "y", "z"}, Places <- {1, 2, 3}, Batches <- {"i", "j"},
  SlotsOf <- [x |-> {1, 2}, y |-> {1, 3}, z |-> {3, 4}],
  TimeOf <- <<1, 1, 2>>, Capacity <- <<2, 1>>,
  Grids <- {[p \in {1} |-> "x"], [p \in {2, 3} |-> IF p = 2 THEN "z" ELSE "y"]},
  Families <- {{"x"}, {"x", "y", "z"}}, NoGame <- Nothing, MaxVersion <- 4,
  season <- s1, draft <- s2, batch <- s3, game <- s4, drawn <- s5,
  Seasons <- {1, 2}, Divisions <- {"m", "w"}, Venues <- {"v1", "v2"}, Flows <- {"r1"},
  Configurations <- {"small", "large"}, DivisionsOf <- [small |-> {"m"}, large |-> {"m", "w"}],
  VenuesOf <- [small |-> {"v1"}, large |-> {"v2"}], Default <- "small", NoSeason <- 0,
  NoVenue <- "none", NoToken <- Nothing, divisions <- s2, scheduled <- s3, venues <- s4, flow <- s5,
  shown <- s6,
  Accounts <- {"a", "f"}, Roles <- {"SUPERADMIN"}, Opponents <- {"O"}, Voters <- {"V", "W"},
  Nobody <- "none", MaxSerial <- 0, request <- s1, leader <- s2, staff <- s3, sheet <- s4,
  task <- s5,
  Browsers <- {}, Commands <- {}, Founders <- {}, Teams <- {}, Players <- {}, Names <- {},
  Numbers <- {}, Entries <- {}, Files <- {}, NoNumber <- {}, NoTeam <- {}, NoBase <- {},
  NoPreview <- {}, Games <- {}, Slots <- {}, Corrections <- {}, SlotOf <- {}, GroupSlots <- {},
  Phase <- {}, Halls <- {}, NoPlace <- {}, NoCorrection <- {}, Outcomes <- {}, Draws <- {},
  Start <- {}, MaxWork <- {}, account <- 0, browser <- 0, challenge <- 0, command <- 0,
  revoked <- 0, team <- 0, player <- 0, led <- 0, allocated <- 0, forced <- 0, assignment <- 0,
  revision <- 0, history <- 0, correction <- 0

(* The run and the theorems have the same imports.                          *)
LEMMA ImportsSame ==
  /\ Imports!Init <=> Planning!Imports!Init
  /\ Imports!Next => Planning!Imports!Next
  /\ Imports!vars = Planning!Imports!vars
  /\ Imports!TypeOK <=> Planning!Imports!TypeOK
  /\ Imports!ImportsAreWhole <=> Planning!Imports!ImportsAreWhole
  /\ Imports!UsedUpAsGames <=> Planning!Imports!UsedUpAsGames
  <1>1. Imports!Init <=> Planning!Imports!Init
    BY DEF Imports!NoCells, Imports!Blank, Imports!Init, Planning!Imports!NoCells,
           Planning!Imports!Blank, Planning!Imports!Init
  <1>2. Imports!Next => Planning!Imports!Next
    <2>1. Imports!DraftCommand <=> Planning!Imports!DraftCommand
      BY DEF Imports!Cardinality, Imports!NoCells, Imports!Cells, Imports!Exists, Imports!Live,
             Imports!GamesAt, Imports!MatchupsNew, Imports!Complete, Imports!PlacesFree,
             Imports!WithinCapacity, Imports!SlotsFree, Imports!Clean, Imports!FromDraft,
             Imports!ReplaceDraft, Imports!Validated, Imports!ValidateDraft, Imports!DraftCommand,
             Imports!Range, Imports!IsInjective, Planning!Imports!Cardinality,
             Planning!Imports!NoCells, Planning!Imports!Cells, Planning!Imports!Exists,
             Planning!Imports!Live, Planning!Imports!GamesAt, Planning!Imports!MatchupsNew,
             Planning!Imports!Complete, Planning!Imports!PlacesFree,
             Planning!Imports!WithinCapacity, Planning!Imports!SlotsFree, Planning!Imports!Clean,
             Planning!Imports!FromDraft, Planning!Imports!ReplaceDraft, Planning!Imports!Validated,
             Planning!Imports!ValidateDraft, Planning!Imports!DraftCommand, Planning!Imports!Range,
             Planning!Imports!IsInjective
    <2>2. Imports!ImportCommand <=> Planning!Imports!ImportCommand
      BY DEF Imports!Cardinality, Imports!NoCells, Imports!Bumped, Imports!Exists, Imports!Live,
             Imports!GamesAt, Imports!MatchupsNew, Imports!Complete, Imports!PlacesFree,
             Imports!WithinCapacity, Imports!SlotsFree, Imports!Clean, Imports!FromDraft,
             Imports!Validated, Imports!UploadSchedule, Imports!UpToDate, Imports!Confirmable,
             Imports!Enter, Imports!ConfirmSchedule, Imports!Confirmed, Imports!Imported,
             Imports!ResetBlocked, Imports!ResetImports, Imports!ImportCommand, Imports!Range,
             Imports!Inverse, Imports!AntiFunction, Imports!IsInjective,
             Planning!Imports!Cardinality, Planning!Imports!NoCells, Planning!Imports!Bumped,
             Planning!Imports!Exists, Planning!Imports!Live, Planning!Imports!GamesAt,
             Planning!Imports!MatchupsNew, Planning!Imports!Complete, Planning!Imports!PlacesFree,
             Planning!Imports!WithinCapacity, Planning!Imports!SlotsFree, Planning!Imports!Clean,
             Planning!Imports!FromDraft, Planning!Imports!Validated,
             Planning!Imports!UploadSchedule, Planning!Imports!UpToDate,
             Planning!Imports!Confirmable, Planning!Imports!Enter, Planning!Imports!ConfirmSchedule,
             Planning!Imports!Confirmed, Planning!Imports!Imported, Planning!Imports!ResetBlocked,
             Planning!Imports!ResetImports, Planning!Imports!ImportCommand, Planning!Imports!Range,
             Planning!Imports!Inverse, Planning!Imports!AntiFunction, Planning!Imports!IsInjective
    <2>3. ASSUME NEW m, NEW p, NEW l
          PROVE  Imports!EditGame(m, p, l) <=> Planning!Imports!EditGame(m, p, l)
      BY DEF Imports!Cardinality, Imports!NoCells, Imports!Exists, Imports!Live, Imports!GamesAt,
             Imports!EditGame, Planning!Imports!Cardinality, Planning!Imports!NoCells,
             Planning!Imports!Exists, Planning!Imports!Live, Planning!Imports!GamesAt,
             Planning!Imports!EditGame
    <2>4. Imports!DrawTeams <=> Planning!Imports!DrawTeams
      BY DEF Imports!Bumped, Imports!Exists, Imports!DrawTeams, Planning!Imports!Bumped,
             Planning!Imports!Exists, Planning!Imports!DrawTeams
    <2>5. Imports!Publish <=> Planning!Imports!Publish
      BY DEF Imports!Bumped, Imports!Exists, Imports!Live, Imports!Publish, Planning!Imports!Bumped,
             Planning!Imports!Exists, Planning!Imports!Live, Planning!Imports!Publish
    <2>6. ASSUME NEW f
          PROVE  Imports!Configure(f) <=> Planning!Imports!Configure(f)
      BY DEF Imports!Bumped, Imports!Configure, Planning!Imports!Bumped, Planning!Imports!Configure
    <2>q. QED
      BY <2>1, <2>2, <2>3, <2>4, <2>5, <2>6
      DEF Imports!Next, Planning!Imports!Next
  <1>3. Imports!vars = Planning!Imports!vars
    BY DEF Imports!vars, Planning!Imports!vars
  <1>4. Imports!TypeOK <=> Planning!Imports!TypeOK
    BY DEF Imports!NoCells, Imports!Cells, Imports!TypeOK, Planning!Imports!NoCells,
           Planning!Imports!Cells, Planning!Imports!TypeOK
  <1>5. Imports!ImportsAreWhole <=> Planning!Imports!ImportsAreWhole
    <2>1. Imports!Confirmed = Planning!Imports!Confirmed
      BY DEF Imports!Confirmed, Planning!Imports!Confirmed
    <2>2. ASSUME NEW g
          PROVE  Imports!Exists(g) = Planning!Imports!Exists(g)
      BY DEF Imports!Exists, Planning!Imports!Exists
    <2>3. ASSUME NEW g
          PROVE  Imports!Live(g) = Planning!Imports!Live(g)
      BY DEF Imports!Exists, Imports!Live, Planning!Imports!Exists, Planning!Imports!Live
    <2>4. ASSUME NEW c, NEW g, NEW t
          PROVE  Imports!GamesAt(c, g, t) = Planning!Imports!GamesAt(c, g, t)
      BY DEF Imports!Cardinality, Imports!Exists, Imports!Live, Imports!GamesAt,
             Planning!Imports!Cardinality, Planning!Imports!Exists, Planning!Imports!Live,
             Planning!Imports!GamesAt
    <2>q. QED
      BY <2>1, <2>2, <2>3, <2>4
      DEF Imports!NoCells, Imports!ImportsAreWhole, Imports!Range, Planning!Imports!NoCells,
           Planning!Imports!ImportsAreWhole, Planning!Imports!Range
  <1>6. Imports!UsedUpAsGames <=> Planning!Imports!UsedUpAsGames
    BY DEF Imports!NoCells, Imports!Entered, Imports!DraftUsedUp, Imports!UsedUpAsGames,
           Planning!Imports!NoCells, Planning!Imports!Entered, Planning!Imports!DraftUsedUp,
           Planning!Imports!UsedUpAsGames
  <1>q. QED BY <1>1, <1>2, <1>3, <1>4, <1>5, <1>6

(* A behaviour of the run is one of the imports or has none.                *)
LEMMA ImportsRun == ServicesSpec => (Planning!Imports!Spec /\ []On("imports")) \/ []~On("imports")
  <1>1. ServicesInit /\ On("imports") => Planning!Imports!Init
    BY ImportsSame DEF ServicesInit, On
  <1>2. On("imports") /\ [ServicesNext]_all => [Planning!Imports!Next]_Planning!Imports!vars /\ On("imports")'
    BY ImportsSame DEF ServicesNext, all, shared, On, Still5, Planning!Imports!vars
  <1>3. ~On("imports") /\ [ServicesNext]_all => ~On("imports")'
    BY FocusStays DEF On
  <1>q. QED BY <1>1, <1>2, <1>3, PTL DEF ServicesSpec, Planning!Imports!Spec

(* The values of the run meet the assumptions about the imports.            *)
LEMMA ImportsSetup == Planning!ImportAssumptions
  <1>1. \A S : Planning!IsFiniteSet(S) <=> IsFiniteSet(S)
    BY DEF Planning!IsFiniteSet, IsFiniteSet
  <1>2. \A c \in {[p \in {1} |-> "x"], [p \in {2, 3} |-> IF p = 2 THEN "z" ELSE "y"]} :
          DOMAIN c \subseteq {1, 2, 3} /\ c \in [DOMAIN c -> {"x", "y", "z"}]
    OBVIOUS
  <1>3. \A p \in {1, 2, 3} : <<2, 1>>[<<1, 1, 2>>[p]] \in Nat
    OBVIOUS
  <1>4. IsFiniteSet({1, 2, 3}) /\ IsFiniteSet({"x", "y", "z"})
    BY SmallSets
  <1>q. QED BY <1>1, <1>2, <1>3, <1>4, NothingAssumption DEF Planning!ImportAssumptions

(* What the theorems say of the imports holds in the run.                   *)
LEMMA ImportsHold ==
  ServicesSpec => /\ [](On("imports") => Imports!TypeOK /\ Imports!ImportsAreWhole)
                  /\ [][On("imports") => Imports!UsedUpAsGames]_shared
  <1>1. Planning!Imports!Spec
            => /\ [](Planning!Imports!TypeOK /\ Planning!Imports!ImportsAreWhole)
               /\ [][Planning!Imports!UsedUpAsGames]_Planning!Imports!vars
    BY ImportsSetup, Planning!ImportsStayWhole
  <1>2. Planning!Imports!TypeOK /\ Planning!Imports!ImportsAreWhole => Imports!TypeOK /\ Imports!ImportsAreWhole
    BY ImportsSame
  <1>3. [ServicesNext]_all /\ [Planning!Imports!UsedUpAsGames]_Planning!Imports!vars
            => [On("imports") => Imports!UsedUpAsGames]_shared
    BY ImportsSame DEF ServicesNext, all, shared, On, Still5, Planning!Imports!vars
  <1>4. [ServicesNext]_all /\ ~On("imports") => [On("imports") => Imports!UsedUpAsGames]_shared
    OBVIOUS
  <1>q. QED BY <1>1, <1>2, <1>3, <1>4, ImportsRun, PTL DEF ServicesSpec

(* Every game is of a confirmed import and every confirmed import has its   *)
(* games, and what empties the draft made games of all it held              *)
(* (services/schedule_imports_v3.py, services/schedule_drafts.py).          *)
THEOREM ImportsAreKeptWhole == ServicesSpec => ImportsAreWhole
  <1>1. (On("imports") => Imports!TypeOK /\ Imports!ImportsAreWhole)
          => (focus = "imports" => Imports!ImportsAreWhole)
    BY DEF On
  <1>2. [On("imports") => Imports!UsedUpAsGames]_shared
          => [focus = "imports" => Imports!UsedUpAsGames]_shared
    BY DEF On
  <1>q. QED BY <1>1, <1>2, ImportsHold, PTL DEF ImportsAreWhole

-----------------------------------------------------------------------------
(* The run and the theorems have the same seasons.                          *)
LEMMA SeasonsSame ==
  /\ Lifecycle!Init <=> Planning!Lifecycle!Init
  /\ Lifecycle!Next => Planning!Lifecycle!Next
  /\ Lifecycle!vars = Planning!Lifecycle!vars
  /\ Lifecycle!TypeOK <=> Planning!Lifecycle!TypeOK
  /\ Lifecycle!InUseIsKept <=> Planning!Lifecycle!InUseIsKept
  <1>1. Lifecycle!Init <=> Planning!Lifecycle!Init
    BY DEF Lifecycle!NoFlow, Lifecycle!Init, Planning!Lifecycle!NoFlow, Planning!Lifecycle!Init
  <1>2. Lifecycle!Next => Planning!Lifecycle!Next
    BY DEF Lifecycle!Created, Lifecycle!NoFlow, Lifecycle!CopiedDivisions, Lifecycle!CopiedVenues,
           Lifecycle!CreateSeason, Lifecycle!Schedule, Lifecycle!ActiveFlows, Lifecycle!OtherPublic,
           Lifecycle!Blocked, Lifecycle!Transition, Lifecycle!Token, Lifecycle!PreviewLifecycle,
           Lifecycle!ApplyLifecycle, Lifecycle!Configurable, Lifecycle!PreviewConfiguration,
           Lifecycle!Affected, Lifecycle!Deletable, Lifecycle!UpdateConfiguration, Lifecycle!CheckFlow,
           Lifecycle!CommitFlow, Lifecycle!EndFlow, Lifecycle!LifecycleCommand,
           Lifecycle!ConfigurationCommand, Lifecycle!Next, Planning!Lifecycle!Created,
           Planning!Lifecycle!NoFlow, Planning!Lifecycle!CopiedDivisions,
           Planning!Lifecycle!CopiedVenues, Planning!Lifecycle!CreateSeason,
           Planning!Lifecycle!Schedule, Planning!Lifecycle!ActiveFlows,
           Planning!Lifecycle!OtherPublic, Planning!Lifecycle!Blocked,
           Planning!Lifecycle!Transition, Planning!Lifecycle!Token,
           Planning!Lifecycle!PreviewLifecycle, Planning!Lifecycle!ApplyLifecycle,
           Planning!Lifecycle!Configurable, Planning!Lifecycle!PreviewConfiguration,
           Planning!Lifecycle!Affected, Planning!Lifecycle!Deletable,
           Planning!Lifecycle!UpdateConfiguration, Planning!Lifecycle!CheckFlow,
           Planning!Lifecycle!CommitFlow, Planning!Lifecycle!EndFlow,
           Planning!Lifecycle!LifecycleCommand, Planning!Lifecycle!ConfigurationCommand,
           Planning!Lifecycle!Next
  <1>3. Lifecycle!vars = Planning!Lifecycle!vars
    BY DEF Lifecycle!vars, Planning!Lifecycle!vars
  <1>4. Lifecycle!TypeOK <=> Planning!Lifecycle!TypeOK
    BY DEF Lifecycle!Statuses, Lifecycle!TypeOK, Planning!Lifecycle!Statuses, Planning!Lifecycle!TypeOK
  <1>5. Lifecycle!InUseIsKept <=> Planning!Lifecycle!InUseIsKept
    BY DEF Lifecycle!InUseIsKept, Planning!Lifecycle!InUseIsKept
  <1>q. QED BY <1>1, <1>2, <1>3, <1>4, <1>5

(* A behaviour of the run is one of the season or has none.                 *)
LEMMA SeasonsRun == ServicesSpec => (Planning!Lifecycle!Spec /\ []On("seasons")) \/ []~On("seasons")
  <1>1. ServicesInit /\ On("seasons") => Planning!Lifecycle!Init
    BY SeasonsSame DEF ServicesInit, On
  <1>2. On("seasons") /\ [ServicesNext]_all
            => [Planning!Lifecycle!Next]_Planning!Lifecycle!vars /\ On("seasons")'
    BY SeasonsSame DEF ServicesNext, all, shared, On, Still5, Planning!Lifecycle!vars
  <1>3. ~On("seasons") /\ [ServicesNext]_all => ~On("seasons")'
    BY FocusStays DEF On
  <1>q. QED BY <1>1, <1>2, <1>3, PTL DEF ServicesSpec, Planning!Lifecycle!Spec

(* The values of the run meet the assumptions about the season.             *)
LEMMA SeasonsSetup == Planning!SeasonAssumptions
  BY DEF Planning!SeasonAssumptions

(* What the theorems say of the season holds in the run.                    *)
LEMMA SeasonsHold ==
  ServicesSpec => [](On("seasons") => Lifecycle!TypeOK /\ Lifecycle!InUseIsKept)
  <1>1. Planning!Lifecycle!Spec => [](Planning!Lifecycle!TypeOK /\ Planning!Lifecycle!InUseIsKept)
    BY SeasonsSetup, Planning!SeasonsKeepWhatIsInUse
  <1>2. Planning!Lifecycle!TypeOK /\ Planning!Lifecycle!InUseIsKept => Lifecycle!TypeOK /\ Lifecycle!InUseIsKept
    BY SeasonsSame
  <1>q. QED BY <1>1, <1>2, SeasonsRun, PTL

(* One season is public, games keep their divisions and requests their      *)
(* courts, though configurations are previewed before they are applied      *)
(* (services/season_management.py).                                         *)
THEOREM UsedSeasonsStay == ServicesSpec => []InUseIsKept
  <1>1. (On("seasons") => Lifecycle!TypeOK /\ Lifecycle!InUseIsKept) => InUseIsKept
    BY DEF InUseIsKept, On
  <1>q. QED BY <1>1, SeasonsHold, PTL

-----------------------------------------------------------------------------
(* The run and the theorems have the same tasks.                            *)
LEMMA TasksSame ==
  /\ Tasks!Init <=> Planning!Tasks!Init
  /\ Tasks!Next => Planning!Tasks!Next
  /\ Tasks!vars = Planning!Tasks!vars
  /\ Tasks!TypeOK <=> Planning!Tasks!TypeOK
  /\ Tasks!TasksAreCurrent <=> Planning!Tasks!TasksAreCurrent
  /\ Tasks!WaitReachesSomebody <=> Planning!Tasks!WaitReachesSomebody
  <1>1. Tasks!Init <=> Planning!Tasks!Init
    BY DEF Tasks!Teams, Tasks!AsksStaff, Tasks!RequestKeys, Tasks!SheetKeys, Tasks!Keys, Tasks!Init,
           Planning!Tasks!Teams, Planning!Tasks!AsksStaff, Planning!Tasks!RequestKeys,
           Planning!Tasks!SheetKeys, Planning!Tasks!Keys, Planning!Tasks!Init
  <1>2. Tasks!Next => Planning!Tasks!Next
    BY DEF Tasks!Teams, Tasks!AsksTeams, Tasks!AsksStaff, Tasks!RequestKeys, Tasks!SheetKeys,
           Tasks!Keys, Tasks!Superadmins, Tasks!Reviewers, Tasks!AskOf, Tasks!Wanted, Tasks!Kept,
           Tasks!Synced, Tasks!SyncRequest, Tasks!MoveTo, Tasks!Submit, Tasks!OpponentAgrees,
           Tasks!CallVote, Tasks!Vote, Tasks!EndRequest, Tasks!Review, Tasks!Failure,
           Tasks!SyncSheet, Tasks!ClosedTasks, Tasks!Sheet, Tasks!Upload, Tasks!RecognitionEnds,
           Tasks!RetryRecognition, Tasks!Publish, Tasks!Withdraw, Tasks!ChangeGame, Tasks!Appoint,
           Tasks!StaffChanges, Tasks!Reconcile, Tasks!Next, Planning!Tasks!Teams,
           Planning!Tasks!AsksTeams, Planning!Tasks!AsksStaff, Planning!Tasks!RequestKeys,
           Planning!Tasks!SheetKeys, Planning!Tasks!Keys, Planning!Tasks!Superadmins,
           Planning!Tasks!Reviewers, Planning!Tasks!AskOf, Planning!Tasks!Wanted,
           Planning!Tasks!Kept, Planning!Tasks!Synced, Planning!Tasks!SyncRequest,
           Planning!Tasks!MoveTo, Planning!Tasks!Submit, Planning!Tasks!OpponentAgrees,
           Planning!Tasks!CallVote, Planning!Tasks!Vote, Planning!Tasks!EndRequest,
           Planning!Tasks!Review, Planning!Tasks!Failure, Planning!Tasks!SyncSheet,
           Planning!Tasks!ClosedTasks, Planning!Tasks!Sheet, Planning!Tasks!Upload,
           Planning!Tasks!RecognitionEnds, Planning!Tasks!RetryRecognition, Planning!Tasks!Publish,
           Planning!Tasks!Withdraw, Planning!Tasks!ChangeGame, Planning!Tasks!Appoint,
           Planning!Tasks!StaffChanges, Planning!Tasks!Reconcile, Planning!Tasks!Next
  <1>3. Tasks!vars = Planning!Tasks!vars
    BY DEF Tasks!vars, Planning!Tasks!vars
  <1>4. Tasks!TypeOK <=> Planning!Tasks!TypeOK
    BY DEF Tasks!Teams, Tasks!AsksTeams, Tasks!AsksStaff, Tasks!RequestKeys, Tasks!SheetKeys,
           Tasks!Keys, Tasks!TypeOK, Planning!Tasks!Teams, Planning!Tasks!AsksTeams,
           Planning!Tasks!AsksStaff, Planning!Tasks!RequestKeys, Planning!Tasks!SheetKeys,
           Planning!Tasks!Keys, Planning!Tasks!TypeOK
  <1>5. Tasks!TasksAreCurrent <=> Planning!Tasks!TasksAreCurrent
    BY DEF Tasks!Teams, Tasks!AsksStaff, Tasks!RequestKeys, Tasks!SheetKeys, Tasks!Keys, Tasks!Open,
           Tasks!TasksAreCurrent, Planning!Tasks!Teams, Planning!Tasks!AsksStaff,
           Planning!Tasks!RequestKeys, Planning!Tasks!SheetKeys, Planning!Tasks!Keys,
           Planning!Tasks!Open, Planning!Tasks!TasksAreCurrent
  <1>6. Tasks!WaitReachesSomebody <=> Planning!Tasks!WaitReachesSomebody
    BY DEF Tasks!Teams, Tasks!AsksStaff, Tasks!RequestKeys, Tasks!Superadmins, Tasks!Told,
           Tasks!WaitReachesSomebody, Planning!Tasks!Teams, Planning!Tasks!AsksStaff,
           Planning!Tasks!RequestKeys, Planning!Tasks!Superadmins, Planning!Tasks!Told,
           Planning!Tasks!WaitReachesSomebody
  <1>q. QED BY <1>1, <1>2, <1>3, <1>4, <1>5, <1>6

(* A behaviour of the run is one of the inbox or has none.                  *)
LEMMA TasksRun == ServicesSpec => (Planning!Tasks!Spec /\ []On("tasks")) \/ []~On("tasks")
  <1>1. ServicesInit /\ On("tasks") => Planning!Tasks!Init
    BY TasksSame DEF ServicesInit, On
  <1>2. On("tasks") /\ [ServicesNext]_all => [Planning!Tasks!Next]_Planning!Tasks!vars /\ On("tasks")'
    BY TasksSame DEF ServicesNext, all, shared, On, Still5, Planning!Tasks!vars
  <1>3. ~On("tasks") /\ [ServicesNext]_all => ~On("tasks")'
    BY FocusStays DEF On
  <1>q. QED BY <1>1, <1>2, <1>3, PTL DEF ServicesSpec, Planning!Tasks!Spec

(* The values of the run meet the assumptions about the inbox.              *)
LEMMA TasksSetup == Planning!InboxAssumptions
  BY DEF Planning!InboxAssumptions

(* What the theorems say of the inbox holds in the run.                     *)
LEMMA TasksHold ==
  ServicesSpec => /\ [](On("tasks") => Tasks!TypeOK /\ Tasks!TasksAreCurrent)
                  /\ [][On("tasks") => Tasks!WaitReachesSomebody]_shared
  <1>1. Planning!Tasks!Spec
            => /\ [](Planning!Tasks!TypeOK /\ Planning!Tasks!TasksAreCurrent)
               /\ [][Planning!Tasks!WaitReachesSomebody]_Planning!Tasks!vars
    BY TasksSetup, Planning!TasksFollow
  <1>2. Planning!Tasks!TypeOK /\ Planning!Tasks!TasksAreCurrent => Tasks!TypeOK /\ Tasks!TasksAreCurrent
    BY TasksSame
  <1>3. [ServicesNext]_all /\ [Planning!Tasks!WaitReachesSomebody]_Planning!Tasks!vars
            => [On("tasks") => Tasks!WaitReachesSomebody]_shared
    BY TasksSame DEF ServicesNext, all, shared, On, Still5, Planning!Tasks!vars
  <1>4. [ServicesNext]_all /\ ~On("tasks") => [On("tasks") => Tasks!WaitReachesSomebody]_shared
    OBVIOUS
  <1>q. QED BY <1>1, <1>2, <1>3, <1>4, TasksRun, PTL DEF ServicesSpec

-----------------------------------------------------------------------------
Pictures == INSTANCE PhotographProofs WITH
  Keys <- Uploads, Old <- {"sheet"}, NoAsset <- "none",
  Kind <- [k \in Uploads \cup {"sheet"} |->
             IF k \in {"photo", "rival"} THEN "GROUP_PHOTO" ELSE "SCORESHEET"],
  Image <- [k \in Uploads \cup {"sheet"} |-> k],
  Target <- [k \in Uploads |-> IF k = "sheet2" THEN "sheet" ELSE "none"],
  Web <- {"sheet2"}, MaxSeason <- 3,
  Budgets <- {[k \in Uploads |-> IF k = "sheet2" THEN 0 ELSE 1],
              [k \in Uploads |-> IF k = "photo" THEN 2 ELSE 0],
              [k \in Uploads |-> IF k = "sheet2" THEN 2 ELSE 0]},
  season <- s1, published <- s2, staging <- s3, expects <- s4, asset <- s5,
  file <- s6, call <- s7, answered <- s8, tries <- s9, sweep <- s10, met <- s11,
  Photos <- {31}, Packages <- {1, 2}, Purges <- {11}, Workers <- {21}, Nobody <- 0, MaxVersion <- 3,
  photo <- s2, purgeOf <- s3, onDisk <- s4, pack <- s5, artifact <- s6, purge <- s7, worker <- s8,
  Uploads <- {}, Orders <- {}, at <- 0, row <- 0, backup <- 0, dump <- 0, listed <- 0, target <- 0

(* The run and the theorems have the same game media.                       *)
LEMMA MediaSame ==
  /\ Media!Init <=> Pictures!Media!Init
  /\ Media!Next => Pictures!Media!Next
  /\ Media!vars = Pictures!Media!vars
  /\ Media!TypeOK <=> Pictures!Media!TypeOK
  /\ Media!LostOnlyToSweep <=> Pictures!Media!LostOnlyToSweep
  <1>1. Media!Init <=> Pictures!Media!Init
    BY DEF Media!Assets, Media!NoRow, Media!Init, Pictures!Media!Assets, Pictures!Media!NoRow,
           Pictures!Media!Init
  <1>2. Media!Next => Pictures!Media!Next
    BY DEF Media!Assets, Media!Unique, Media!Pending, Media!Made, Media!Mutable,
           Media!SourceAllowed, Media!Served, Media!Permitted, Media!LiveOfKind,
           Media!PendingClash, Media!TargetAsSeen, Media!PlaceFree, Media!Creatable,
           Media!Bumped, Media!Goto, Media!Creates, Media!CreateUpload, Media!CreateReplacement,
           Media!TakesUp, Media!Begin, Media!Resume, Media!FileExists, Media!FileMatches,
           Media!OpenFile, Media!CompareFile, Media!WriteFile, Media!MarkStored,
           Media!Promotable, Media!Promote, Media!PromoteRefused, Media!RequestPromotes,
           Media!Failing, Media!Discard, Media!Failed, Media!Fail, Media!Record, Media!Crash,
           Media!SweepTo, Media!SweepDone, Media!Candidate, Media!SweepFinds, Media!SweepChecks,
           Media!SweepCompares, Media!SweepMarks, Media!SweepPromotes, Media!SweepFails,
           Media!Delete, Media!Restorable, Media!Restore, Media!Purge, Media!Archive,
           Media!Publish, Media!RequestStep, Media!SweepStep, Media!Next, Pictures!Media!Assets,
           Pictures!Media!Unique, Pictures!Media!Pending, Pictures!Media!Made,
           Pictures!Media!Mutable, Pictures!Media!SourceAllowed, Pictures!Media!Served,
           Pictures!Media!Permitted, Pictures!Media!LiveOfKind, Pictures!Media!PendingClash,
           Pictures!Media!TargetAsSeen, Pictures!Media!PlaceFree, Pictures!Media!Creatable,
           Pictures!Media!Bumped, Pictures!Media!Goto, Pictures!Media!Creates,
           Pictures!Media!CreateUpload, Pictures!Media!CreateReplacement, Pictures!Media!TakesUp,
           Pictures!Media!Begin, Pictures!Media!Resume, Pictures!Media!FileExists,
           Pictures!Media!FileMatches, Pictures!Media!OpenFile, Pictures!Media!CompareFile,
           Pictures!Media!WriteFile, Pictures!Media!MarkStored, Pictures!Media!Promotable,
           Pictures!Media!Promote, Pictures!Media!PromoteRefused, Pictures!Media!RequestPromotes,
           Pictures!Media!Failing, Pictures!Media!Discard, Pictures!Media!Failed,
           Pictures!Media!Fail, Pictures!Media!Record, Pictures!Media!Crash,
           Pictures!Media!SweepTo, Pictures!Media!SweepDone, Pictures!Media!Candidate,
           Pictures!Media!SweepFinds, Pictures!Media!SweepChecks, Pictures!Media!SweepCompares,
           Pictures!Media!SweepMarks, Pictures!Media!SweepPromotes, Pictures!Media!SweepFails,
           Pictures!Media!Delete, Pictures!Media!Restorable, Pictures!Media!Restore,
           Pictures!Media!Purge, Pictures!Media!Archive, Pictures!Media!Publish,
           Pictures!Media!RequestStep, Pictures!Media!SweepStep, Pictures!Media!Next
  <1>3. Media!vars = Pictures!Media!vars
    BY DEF Media!vars, Pictures!Media!vars
  <1>4. Media!TypeOK <=> Pictures!Media!TypeOK
    BY DEF Media!Assets, Media!AssetRows, Media!StagingStatus, Media!TypeOK,
           Pictures!Media!Assets, Pictures!Media!AssetRows, Pictures!Media!StagingStatus,
           Pictures!Media!TypeOK
  <1>5. Media!LostOnlyToSweep <=> Pictures!Media!LostOnlyToSweep
    <2>1. ASSUME NEW k
          PROVE  Media!LiveOfKind(k) = Pictures!Media!LiveOfKind(k)
      BY DEF Media!Assets, Media!LiveOfKind, Pictures!Media!Assets, Pictures!Media!LiveOfKind
    <2>2. ASSUME NEW a
          PROVE  /\ Media!Made(a) <=> Pictures!Media!Made(a)
                 /\ Media!Whole(a) <=> Pictures!Media!Whole(a)
      BY DEF Media!Made, Media!Whole, Pictures!Media!Made, Pictures!Media!Whole
    <2>3. Media!OneOfAKind <=> Pictures!Media!OneOfAKind
      BY <2>1
      DEF Media!Cardinality, Media!Unique, Media!OneOfAKind,
          Pictures!Media!Cardinality, Pictures!Media!Unique, Pictures!Media!OneOfAKind
    <2>q. QED
      BY <2>2, <2>3
      DEF Media!Assets, Media!LostOnlyToSweep, Pictures!Media!Assets, Pictures!Media!LostOnlyToSweep
  <1>q. QED BY <1>1, <1>2, <1>3, <1>4, <1>5

(* A behaviour of the run is one of the uploads or has none.                *)
LEMMA MediaRun == ServicesSpec => (Pictures!MediaSteps /\ []On("media")) \/ []~On("media")
  <1>1. ServicesInit /\ On("media") => Pictures!Media!Init
    BY MediaSame DEF ServicesInit, On
  <1>2. On("media") /\ [ServicesNext]_all => [Pictures!Media!Next]_Pictures!Media!vars /\ On("media")'
    BY MediaSame DEF ServicesNext, all, shared, On, Still5, Pictures!Media!vars
  <1>3. ~On("media") /\ [ServicesNext]_all => ~On("media")'
    BY FocusStays DEF On
  <1>q. QED BY <1>1, <1>2, <1>3, PTL DEF ServicesSpec, Pictures!MediaSteps

(* The values of the run meet the assumptions about the uploads.            *)
LEMMA MediaSetup == Pictures!MediaSetup
  BY DEF Pictures!MediaSetup, Pictures!Media!Assets, Pictures!Media!Unique, Uploads

(* What the theorems say of the uploads holds in the run.                   *)
LEMMA MediaHolds == ServicesSpec => [](On("media") => Media!TypeOK /\ Media!LostOnlyToSweep)
  <1>1. Pictures!MediaSteps => [](Pictures!Media!TypeOK /\ Pictures!Media!OneOfAKind)
    BY MediaSetup, Pictures!OnePictureOfAKind
  <1>2. Pictures!MediaSteps => []Pictures!Media!LostOnlyToSweep
    BY MediaSetup, Pictures!PhotographsHaveFiles
  <1>3. Pictures!Media!TypeOK /\ Pictures!Media!LostOnlyToSweep
          => Media!TypeOK /\ Media!LostOnlyToSweep
    BY MediaSame
  <1>q. QED BY <1>1, <1>2, <1>3, MediaRun, PTL

(* A photograph that is online has its whole file, whatever upload crashed  *)
(* and whoever finished it, unless a request and the reconciler worked on   *)
(* its upload at the same time (services/game_media.py).                    *)
THEOREM PhotographsStayWhole == ServicesSpec => []LostOnlyToSweep
  <1>1. (On("media") => Media!TypeOK /\ Media!LostOnlyToSweep) => LostOnlyToSweep
    BY DEF LostOnlyToSweep, On
  <1>q. QED BY <1>1, MediaHolds, PTL

-----------------------------------------------------------------------------
(* The run and the theorems have the same archives.                         *)
LEMMA ArchivesSame ==
  /\ Archives!Init <=> Pictures!Init
  /\ Archives!Next => Pictures!Next
  /\ Archives!vars = Pictures!vars
  /\ Archives!TypeOK <=> Pictures!TypeOK
  /\ Archives!PurgedWasPackaged <=> Pictures!PurgedWasPackaged
  <1>1. Archives!Init <=> Pictures!Init
    BY DEF Archives!NoPack, Archives!NoPurge, Archives!NoJob, Archives!Init, Pictures!NoPack,
           Pictures!NoPurge, Pictures!NoJob, Pictures!Init
  <1>2. Archives!Next => Pictures!Next
    BY DEF Archives!Kinds, Archives!Active, Archives!NoPack, Archives!NoJob, Archives!Online,
           Archives!ActivePacks, Archives!ActivePurges, Archives!First, Archives!Unused,
           Archives!Archive, Archives!Invalidated, Archives!Corrected, Archives!AddPhoto,
           Archives!RestorePhoto, Archives!LoseFile, Archives!ExportBlocked, Archives!RequestExport,
           Archives!Lapsed, Archives!Claimable, Archives!Claim, Archives!Die, Archives!Respawn,
           Archives!BuildFails, Archives!TakeSnapshot, Archives!FinishPackage, Archives!DayPasses,
           Archives!Download, Archives!DiscardedAs, Archives!ConfirmSaved, Archives!DiscardPackage,
           Archives!CleanUp, Archives!Complete, Archives!RequestPurge, Archives!RetryPurge,
           Archives!ListPhotos, Archives!DeletePhoto, Archives!NotePhoto, Archives!FinishPurge,
           Archives!FailPurge, Archives!WorkerStep, Archives!PackageCommand, Archives!PurgeCommand,
           Archives!Next, Pictures!Kinds, Pictures!Active, Pictures!NoPack, Pictures!NoJob,
           Pictures!Online, Pictures!ActivePacks, Pictures!ActivePurges, Pictures!First,
           Pictures!Unused, Pictures!Archive, Pictures!Invalidated, Pictures!Corrected,
           Pictures!AddPhoto, Pictures!RestorePhoto, Pictures!LoseFile, Pictures!ExportBlocked,
           Pictures!RequestExport, Pictures!Lapsed, Pictures!Claimable, Pictures!Claim,
           Pictures!Die, Pictures!Respawn, Pictures!BuildFails, Pictures!TakeSnapshot,
           Pictures!FinishPackage, Pictures!DayPasses, Pictures!Download, Pictures!DiscardedAs,
           Pictures!ConfirmSaved, Pictures!DiscardPackage, Pictures!CleanUp, Pictures!Complete,
           Pictures!RequestPurge, Pictures!RetryPurge, Pictures!ListPhotos, Pictures!DeletePhoto,
           Pictures!NotePhoto, Pictures!FinishPurge, Pictures!FailPurge, Pictures!WorkerStep,
           Pictures!PackageCommand, Pictures!PurgeCommand, Pictures!Next
  <1>3. Archives!vars = Pictures!vars
    BY DEF Archives!vars, Pictures!vars
  <1>4. Archives!TypeOK <=> Pictures!TypeOK
    BY DEF Archives!Kinds, Archives!Active, Archives!TypeOK, Pictures!Kinds, Pictures!Active,
           Pictures!TypeOK
  <1>5. Archives!PurgedWasPackaged <=> Pictures!PurgedWasPackaged
    BY DEF Archives!PurgedWasPackaged, Pictures!PurgedWasPackaged
  <1>q. QED BY <1>1, <1>2, <1>3, <1>4, <1>5

(* A behaviour of the run is one of exports and purges or has none.         *)
LEMMA ArchivesRun == ServicesSpec => (Pictures!Spec /\ []On("archives")) \/ []~On("archives")
  <1>1. ServicesInit /\ On("archives") => Pictures!Init
    BY ArchivesSame DEF ServicesInit, On
  <1>2. On("archives") /\ [ServicesNext]_all => [Pictures!Next]_Pictures!vars /\ On("archives")'
    BY ArchivesSame DEF ServicesNext, all, shared, On, Still5, Pictures!vars
  <1>3. ~On("archives") /\ [ServicesNext]_all => ~On("archives")'
    BY FocusStays DEF On
  <1>q. QED BY <1>1, <1>2, <1>3, PTL DEF ServicesSpec, Pictures!Spec

(* The values of the run meet the assumptions about exports and purges.     *)
LEMMA ArchivesSetup == Pictures!Setup
  BY DEF Pictures!Setup

(* What the theorems say of exports and purges holds in the run.            *)
LEMMA ArchivesHold == ServicesSpec => [](On("archives") => Archives!TypeOK /\ Archives!PurgedWasPackaged)
  <1>1. Pictures!Spec => []Pictures!TypeOK
    BY ArchivesSetup, Pictures!ArchivesTyped
  <1>2. Pictures!Spec => []Pictures!PurgedWasPackaged
    BY ArchivesSetup, Pictures!RemovedWasPackaged
  <1>3. Pictures!TypeOK /\ Pictures!PurgedWasPackaged => Archives!TypeOK /\ Archives!PurgedWasPackaged
    BY ArchivesSame
  <1>q. QED BY <1>1, <1>2, <1>3, ArchivesRun, PTL

(* A purge removes only photographs that its final package holds, after     *)
(* corrections, restored photographs and resumed purges too                 *)
(* (services/archive_exports.py).                                           *)
THEOREM PurgesFollowPackages == ServicesSpec => []PurgedWasPackaged
  <1>1. (On("archives") => Archives!TypeOK /\ Archives!PurgedWasPackaged) => PurgedWasPackaged
    BY DEF PurgedWasPackaged, On
  <1>q. QED BY <1>1, ArchivesHold, PTL

-----------------------------------------------------------------------------
Succeeding == INSTANCE AdministrationProofs WITH
  Accounts <- {"a", "f"}, Founders <- {"f"}, Browsers <- {"b1", "b2"},
  Commands <- {"c1"}, Nobody <- "none", MaxVersion <- 3,
  account <- s1, browser <- s2, challenge <- s3, command <- s4, revoked <- s5,
  Roles <- {"NONE", "SUPERADMIN"}, Opponents <- {"O"}, Voters <- {}, MaxSerial <- 0, request <- s1,
  leader <- s2, staff <- s3, sheet <- s4, task <- s5,
  Seasons <- {}, Divisions <- {}, Venues <- {}, Configurations <- {}, DivisionsOf <- {},
  VenuesOf <- {}, Default <- {}, Flows <- {}, NoSeason <- {}, NoVenue <- {}, NoToken <- {},
  Teams <- {}, Players <- {}, Names <- {}, Batches <- {}, Numbers <- {}, Entries <- {}, Files <- {},
  NoNumber <- {}, NoTeam <- {}, NoBase <- {}, NoPreview <- {}, Matchups <- {}, Places <- {},
  SlotsOf <- {}, TimeOf <- {}, Capacity <- {}, Grids <- {}, Families <- {}, NoGame <- {},
  Games <- {}, Slots <- {}, Corrections <- {}, SlotOf <- {}, GroupSlots <- {}, Phase <- {},
  Halls <- {}, NoPlace <- {}, NoCorrection <- {}, Outcomes <- {}, Draws <- {}, Start <- {},
  MaxWork <- {}, season <- 0, divisions <- 0, scheduled <- 0, venues <- 0, flow <- 0, shown <- 0,
  batch <- 0, team <- 0, player <- 0, led <- 0, drawn <- 0, draft <- 0, game <- 0, allocated <- 0,
  forced <- 0, assignment <- 0, revision <- 0, history <- 0, correction <- 0

(* The run and the theorems have the same sessions.                         *)
LEMMA SessionsSame ==
  /\ Sessions!Init <=> Succeeding!Init
  /\ Sessions!Next => Succeeding!Next
  /\ Sessions!vars = Succeeding!vars
  /\ Sessions!TypeOK <=> Succeeding!TypeOK
  /\ Sessions!AccountsAreGoverned <=> Succeeding!AccountsAreGoverned
  <1>1. Sessions!Init <=> Succeeding!Init
    BY DEF Sessions!Out, Sessions!NoCode, Sessions!NoCommand, Sessions!Init, Succeeding!Out,
           Succeeding!NoCode, Succeeding!NoCommand, Succeeding!Init
  <1>2. Sessions!Next => Succeeding!Next
    <2>1. ASSUME NEW a
          PROVE  Sessions!Register(a) <=> Succeeding!Register(a)
      BY DEF Sessions!Saved, Sessions!Room, Sessions!Register, Succeeding!Saved, Succeeding!Room,
             Succeeding!Register
    <2>2. ASSUME NEW a
          PROVE  Sessions!ConfirmCode(a) <=> Succeeding!ConfirmCode(a)
      BY DEF Sessions!Admin, Sessions!ConfirmCode, Succeeding!Admin, Succeeding!ConfirmCode
    <2>3. ASSUME NEW c
          PROVE  Sessions!AccountCommand(c) <=> Succeeding!AccountCommand(c)
      BY DEF Sessions!Cardinality, Sessions!NoCommand, Sessions!Superadmin, Sessions!Superadmins,
             Sessions!Good, Sessions!Saved, Sessions!WithPassword, Sessions!Room,
             Sessions!SessionsOf, Sessions!Authenticate, Sessions!ActorStands,
             Sessions!LastSuperadmin, Sessions!Promote, Sessions!Demote, Sessions!SetActive,
             Sessions!ResetPassword, Sessions!Refused, Sessions!RunCommand, Sessions!AccountCommand,
             Succeeding!Cardinality, Succeeding!NoCommand, Succeeding!Superadmin,
             Succeeding!Superadmins, Succeeding!Good, Succeeding!Saved, Succeeding!WithPassword,
             Succeeding!Room, Succeeding!SessionsOf, Succeeding!Authenticate,
             Succeeding!ActorStands, Succeeding!LastSuperadmin, Succeeding!Promote,
             Succeeding!Demote, Succeeding!SetActive, Succeeding!ResetPassword, Succeeding!Refused,
             Succeeding!RunCommand, Succeeding!AccountCommand
    <2>4. ASSUME NEW b, NEW a
          PROVE  Sessions!LoginByPassword(b, a) <=> Succeeding!LoginByPassword(b, a)
      BY DEF Sessions!Admin, Sessions!Entering, Sessions!LoginByPassword, Succeeding!Admin,
             Succeeding!Entering, Succeeding!LoginByPassword
    <2>5. ASSUME NEW b
          PROVE  Sessions!ShowCode(b) <=> Succeeding!ShowCode(b)
      BY DEF Sessions!NoCode, Sessions!ShowCode, Succeeding!NoCode, Succeeding!ShowCode
    <2>6. ASSUME NEW b
          PROVE  Sessions!ConsumeCode(b) <=> Succeeding!ConsumeCode(b)
      BY DEF Sessions!NoCode, Sessions!Admin, Sessions!Entering, Sessions!ConsumeCode,
             Succeeding!NoCode, Succeeding!Admin, Succeeding!Entering, Succeeding!ConsumeCode
    <2>7. ASSUME NEW b
          PROVE  Sessions!OpenSession(b) <=> Succeeding!OpenSession(b)
      BY DEF Sessions!OpenSession, Succeeding!OpenSession
    <2>8. ASSUME NEW b
          PROVE  Sessions!Logout(b) <=> Succeeding!Logout(b)
      BY DEF Sessions!Out, Sessions!Logout, Succeeding!Out, Succeeding!Logout
    <2>9. ASSUME NEW b
          PROVE  Sessions!StartChange(b) <=> Succeeding!StartChange(b)
      BY DEF Sessions!Admin, Sessions!Good, Sessions!StartChange, Succeeding!Admin, Succeeding!Good,
             Succeeding!StartChange
    <2>10. ASSUME NEW b
          PROVE  Sessions!ChangePassword(b) <=> Succeeding!ChangePassword(b)
      BY DEF Sessions!Saved, Sessions!WithPassword, Sessions!Room, Sessions!SessionsOf,
             Sessions!StillCurrent, Sessions!ChangePassword, Succeeding!Saved,
             Succeeding!WithPassword, Succeeding!Room, Succeeding!SessionsOf,
             Succeeding!StillCurrent, Succeeding!ChangePassword
    <2>q. QED
      BY <2>1, <2>2, <2>3, <2>4, <2>5, <2>6, <2>7, <2>8, <2>9, <2>10
      DEF Sessions!NoCode, Sessions!CodeExpires, Sessions!Next, Succeeding!NoCode,
           Succeeding!CodeExpires, Succeeding!Next
  <1>3. Sessions!vars = Succeeding!vars
    BY DEF Sessions!vars, Succeeding!vars
  <1>4. Sessions!TypeOK <=> Succeeding!TypeOK
    BY DEF Sessions!TypeOK, Succeeding!TypeOK
  <1>5. Sessions!AccountsAreGoverned <=> Succeeding!AccountsAreGoverned
    BY DEF Sessions!Superadmin, Sessions!Superadmins, Sessions!Good, Sessions!SomeoneGoverns,
           Sessions!RevokedForGood, Sessions!AccountsAreGoverned, Succeeding!Superadmin,
           Succeeding!Superadmins, Succeeding!Good, Succeeding!SomeoneGoverns,
           Succeeding!RevokedForGood, Succeeding!AccountsAreGoverned
  <1>q. QED BY <1>1, <1>2, <1>3, <1>4, <1>5

(* A behaviour of the run is one of the sessions or has none.               *)
LEMMA SessionsRun == ServicesSpec => (Succeeding!Spec /\ []On("sessions")) \/ []~On("sessions")
  <1>1. ServicesInit /\ On("sessions") => Succeeding!Init
    BY SessionsSame DEF ServicesInit, On
  <1>2. On("sessions") /\ [ServicesNext]_all => [Succeeding!Next]_Succeeding!vars /\ On("sessions")'
    BY SessionsSame DEF ServicesNext, all, shared, On, Still5, Succeeding!vars
  <1>3. ~On("sessions") /\ [ServicesNext]_all => ~On("sessions")'
    BY FocusStays DEF On
  <1>q. QED BY <1>1, <1>2, <1>3, PTL DEF ServicesSpec, Succeeding!Spec

(* The values of the run meet the assumptions about the sessions.           *)
LEMMA SessionsSetup == Succeeding!Setup
  <1>1. \A S : Succeeding!IsFiniteSet(S) <=> IsFiniteSet(S)
    BY DEF Succeeding!IsFiniteSet, IsFiniteSet
  <1>2. IsFiniteSet({"a", "f"})
    BY SmallSets
  <1>q. QED BY <1>1, <1>2 DEF Succeeding!Setup

(* What the theorems say of the sessions holds in the run.                  *)
LEMMA SessionsHold ==
  ServicesSpec => [](On("sessions") => Sessions!TypeOK /\ Sessions!AccountsAreGoverned)
  <1>1. Succeeding!Spec => [](Succeeding!TypeOK /\ Succeeding!AccountsAreGoverned)
    BY SessionsSetup, Succeeding!GovernedCorrect
  <1>2. Succeeding!TypeOK /\ Succeeding!AccountsAreGoverned => Sessions!TypeOK /\ Sessions!AccountsAreGoverned
    BY SessionsSame
  <1>q. QED BY <1>1, <1>2, SessionsRun, PTL

(* One superadmin is always left, and a session whose password another set  *)
(* never works again (services/admin_accounts.py, api_auth.py).             *)
THEOREM AccountsStayGoverned == ServicesSpec => []AccountsAreGoverned
  <1>1. (On("superadmins") => Superadmins!TypeOK /\ Superadmins!AccountsAreGoverned)
        /\ (On("sessions") => Sessions!TypeOK /\ Sessions!AccountsAreGoverned) => AccountsAreGoverned
    BY DEF AccountsAreGoverned, On
  <1>q. QED BY <1>1, SuperadminsHold, SessionsHold, PTL

-----------------------------------------------------------------------------
(* The run and the theorems have the same turnover.                         *)
LEMMA TurnoverSame ==
  /\ Turnover!Init <=> Succeeding!Tasks!Init
  /\ Turnover!Next => Succeeding!Tasks!Next
  /\ Turnover!vars = Succeeding!Tasks!vars
  /\ Turnover!TypeOK <=> Succeeding!Tasks!TypeOK
  /\ Turnover!TasksAreCurrent <=> Succeeding!Tasks!TasksAreCurrent
  /\ Turnover!WaitReachesSomebody <=> Succeeding!Tasks!WaitReachesSomebody
  <1>1. Turnover!Init <=> Succeeding!Tasks!Init
    BY DEF Turnover!Teams, Turnover!AsksStaff, Turnover!RequestKeys, Turnover!SheetKeys,
           Turnover!Keys, Turnover!Init, Succeeding!Tasks!Teams, Succeeding!Tasks!AsksStaff,
           Succeeding!Tasks!RequestKeys, Succeeding!Tasks!SheetKeys, Succeeding!Tasks!Keys,
           Succeeding!Tasks!Init
  <1>2. Turnover!Next => Succeeding!Tasks!Next
    BY DEF Turnover!Teams, Turnover!AsksTeams, Turnover!AsksStaff, Turnover!RequestKeys,
           Turnover!SheetKeys, Turnover!Keys, Turnover!Superadmins, Turnover!Reviewers,
           Turnover!AskOf, Turnover!Wanted, Turnover!Kept, Turnover!Synced, Turnover!SyncRequest,
           Turnover!MoveTo, Turnover!Submit, Turnover!OpponentAgrees, Turnover!CallVote,
           Turnover!Vote, Turnover!EndRequest, Turnover!Review, Turnover!Failure,
           Turnover!SyncSheet, Turnover!ClosedTasks, Turnover!Sheet, Turnover!Upload,
           Turnover!RecognitionEnds, Turnover!RetryRecognition, Turnover!Publish, Turnover!Withdraw,
           Turnover!ChangeGame, Turnover!Appoint, Turnover!StaffChanges, Turnover!Reconcile,
           Turnover!Next, Succeeding!Tasks!Teams, Succeeding!Tasks!AsksTeams,
           Succeeding!Tasks!AsksStaff, Succeeding!Tasks!RequestKeys, Succeeding!Tasks!SheetKeys,
           Succeeding!Tasks!Keys, Succeeding!Tasks!Superadmins, Succeeding!Tasks!Reviewers,
           Succeeding!Tasks!AskOf, Succeeding!Tasks!Wanted, Succeeding!Tasks!Kept,
           Succeeding!Tasks!Synced, Succeeding!Tasks!SyncRequest, Succeeding!Tasks!MoveTo,
           Succeeding!Tasks!Submit, Succeeding!Tasks!OpponentAgrees, Succeeding!Tasks!CallVote,
           Succeeding!Tasks!Vote, Succeeding!Tasks!EndRequest, Succeeding!Tasks!Review,
           Succeeding!Tasks!Failure, Succeeding!Tasks!SyncSheet, Succeeding!Tasks!ClosedTasks,
           Succeeding!Tasks!Sheet, Succeeding!Tasks!Upload, Succeeding!Tasks!RecognitionEnds,
           Succeeding!Tasks!RetryRecognition, Succeeding!Tasks!Publish, Succeeding!Tasks!Withdraw,
           Succeeding!Tasks!ChangeGame, Succeeding!Tasks!Appoint, Succeeding!Tasks!StaffChanges,
           Succeeding!Tasks!Reconcile, Succeeding!Tasks!Next
  <1>3. Turnover!vars = Succeeding!Tasks!vars
    BY DEF Turnover!vars, Succeeding!Tasks!vars
  <1>4. Turnover!TypeOK <=> Succeeding!Tasks!TypeOK
    BY DEF Turnover!Teams, Turnover!AsksTeams, Turnover!AsksStaff, Turnover!RequestKeys,
           Turnover!SheetKeys, Turnover!Keys, Turnover!TypeOK, Succeeding!Tasks!Teams,
           Succeeding!Tasks!AsksTeams, Succeeding!Tasks!AsksStaff, Succeeding!Tasks!RequestKeys,
           Succeeding!Tasks!SheetKeys, Succeeding!Tasks!Keys, Succeeding!Tasks!TypeOK
  <1>5. Turnover!TasksAreCurrent <=> Succeeding!Tasks!TasksAreCurrent
    BY DEF Turnover!Teams, Turnover!AsksStaff, Turnover!RequestKeys, Turnover!SheetKeys,
           Turnover!Keys, Turnover!Open, Turnover!TasksAreCurrent, Succeeding!Tasks!Teams,
           Succeeding!Tasks!AsksStaff, Succeeding!Tasks!RequestKeys, Succeeding!Tasks!SheetKeys,
           Succeeding!Tasks!Keys, Succeeding!Tasks!Open, Succeeding!Tasks!TasksAreCurrent
  <1>6. Turnover!WaitReachesSomebody <=> Succeeding!Tasks!WaitReachesSomebody
    BY DEF Turnover!Teams, Turnover!AsksStaff, Turnover!RequestKeys, Turnover!Superadmins,
           Turnover!Told, Turnover!WaitReachesSomebody, Succeeding!Tasks!Teams,
           Succeeding!Tasks!AsksStaff, Succeeding!Tasks!RequestKeys, Succeeding!Tasks!Superadmins,
           Succeeding!Tasks!Told, Succeeding!Tasks!WaitReachesSomebody
  <1>q. QED BY <1>1, <1>2, <1>3, <1>4, <1>5, <1>6

(* A behaviour of the run is one of the inbox while leaders change or has   *)
(* none.                                                                    *)
LEMMA TurnoverRun == ServicesSpec => (Succeeding!Tasks!Spec /\ []On("turnover")) \/ []~On("turnover")
  <1>1. ServicesInit /\ On("turnover") => Succeeding!Tasks!Init
    BY TurnoverSame DEF ServicesInit, On
  <1>2. On("turnover") /\ [ServicesNext]_all => [Succeeding!Tasks!Next]_Succeeding!Tasks!vars /\ On("turnover")'
    BY TurnoverSame DEF ServicesNext, all, shared, On, Still5, Succeeding!Tasks!vars
  <1>3. ~On("turnover") /\ [ServicesNext]_all => ~On("turnover")'
    BY FocusStays DEF On
  <1>q. QED BY <1>1, <1>2, <1>3, PTL DEF ServicesSpec, Succeeding!Tasks!Spec

(* The values of the run meet the assumptions about the inbox while leaders *)
(* change.                                                                  *)
LEMMA TurnoverSetup == Succeeding!InboxAssumptions
  BY DEF Succeeding!InboxAssumptions

(* What the theorems say of the inbox while leaders change holds in the     *)
(* run.                                                                     *)
LEMMA TurnoverHolds ==
  ServicesSpec => /\ [](On("turnover") => Turnover!TypeOK /\ Turnover!TasksAreCurrent)
                  /\ [][On("turnover") => Turnover!WaitReachesSomebody]_shared
  <1>1. Succeeding!Tasks!Spec
            => /\ [](Succeeding!Tasks!TypeOK /\ Succeeding!Tasks!TasksAreCurrent)
               /\ [][Succeeding!Tasks!WaitReachesSomebody]_Succeeding!Tasks!vars
    BY TurnoverSetup, Succeeding!TasksFollow
  <1>2. Succeeding!Tasks!TypeOK /\ Succeeding!Tasks!TasksAreCurrent
            => Turnover!TypeOK /\ Turnover!TasksAreCurrent
    BY TurnoverSame
  <1>3. [ServicesNext]_all /\ [Succeeding!Tasks!WaitReachesSomebody]_Succeeding!Tasks!vars
            => [On("turnover") => Turnover!WaitReachesSomebody]_shared
    BY TurnoverSame DEF ServicesNext, all, shared, On, Still5, Succeeding!Tasks!vars
  <1>4. [ServicesNext]_all /\ ~On("turnover") => [On("turnover") => Turnover!WaitReachesSomebody]_shared
    OBVIOUS
  <1>q. QED BY <1>1, <1>2, <1>3, <1>4, TurnoverRun, PTL DEF ServicesSpec

-----------------------------------------------------------------------------
Saving == INSTANCE PhotographProofs WITH
  Uploads <- {1}, Orders <- {11, 12}, Old <- {},
  at <- s1, row <- s2, file <- s3, backup <- s4, dump <- s5, listed <- s6, target <- s7,
  Photos <- {}, Packages <- {}, Purges <- {}, Workers <- {}, Nobody <- {}, MaxVersion <- {},
  Keys <- {}, Kind <- {}, Image <- {}, Target <- {}, Web <- {}, NoAsset <- {}, Budgets <- {},
  MaxSeason <- {}, season <- 0, photo <- 0, purgeOf <- 0, onDisk <- 0, pack <- 0,
  artifact <- 0, purge <- 0, worker <- 0, published <- 0, staging <- 0, expects <- 0, asset <- 0,
  call <- 0, answered <- 0, tries <- 0, sweep <- 0, met <- 0

(* The run and the theorems have the same backup.                           *)
LEMMA BackupSame ==
  /\ Backup!Init <=> Saving!Backup!Init
  /\ Backup!Next => Saving!Backup!Next
  /\ Backup!vars = Saving!Backup!vars
  /\ Backup!TypeOK <=> Saving!Backup!TypeOK
  /\ Backup!BackupIsWhole <=> Saving!Backup!BackupIsWhole
  <1>1. Backup!Init <=> Saving!Backup!Init
    BY DEF Backup!Sessions, Backup!Pictures, Backup!Empty, Backup!Init, Saving!Backup!Sessions,
           Saving!Backup!Pictures, Saving!Backup!Empty, Saving!Backup!Init
  <1>2. Backup!Next => Saving!Backup!Next
    BY DEF Backup!Sessions, Backup!Pictures, Backup!Sharing, Backup!Excluding, Backup!Wanted,
           Backup!Move, Backup!Enter, Backup!Stage, Backup!StoreFile, Backup!StoreRow, Backup!Die,
           Backup!Reconcile, Backup!AskExclusive, Backup!PlaceOrder, Backup!Deadlocked,
           Backup!OrderAgain, Backup!PurgeFile, Backup!PurgeRow, Backup!Blocked, Backup!Becomes,
           Backup!StartBackup, Backup!RaiseFence, Backup!Snapshot, Backup!ListMedia, Backup!Pack,
           Backup!BackupFails, Backup!NextBackup, Backup!RestoreDatabase, Backup!RestoreMedia,
           Backup!Finalize, Backup!SessionStep, Backup!BackupStep, Backup!Next,
           Saving!Backup!Sessions, Saving!Backup!Pictures, Saving!Backup!Sharing,
           Saving!Backup!Excluding, Saving!Backup!Wanted, Saving!Backup!Move, Saving!Backup!Enter,
           Saving!Backup!Stage, Saving!Backup!StoreFile, Saving!Backup!StoreRow, Saving!Backup!Die,
           Saving!Backup!Reconcile, Saving!Backup!AskExclusive, Saving!Backup!PlaceOrder,
           Saving!Backup!Deadlocked, Saving!Backup!OrderAgain, Saving!Backup!PurgeFile,
           Saving!Backup!PurgeRow, Saving!Backup!Blocked, Saving!Backup!Becomes,
           Saving!Backup!StartBackup, Saving!Backup!RaiseFence, Saving!Backup!Snapshot,
           Saving!Backup!ListMedia, Saving!Backup!Pack, Saving!Backup!BackupFails,
           Saving!Backup!NextBackup, Saving!Backup!RestoreDatabase, Saving!Backup!RestoreMedia,
           Saving!Backup!Finalize, Saving!Backup!SessionStep, Saving!Backup!BackupStep,
           Saving!Backup!Next
  <1>3. Backup!vars = Saving!Backup!vars
    BY DEF Backup!vars, Saving!Backup!vars
  <1>4. Backup!TypeOK <=> Saving!Backup!TypeOK
    BY DEF Backup!Sessions, Backup!Pictures, Backup!Rows, Backup!TypeOK, Saving!Backup!Sessions,
           Saving!Backup!Pictures, Saving!Backup!Rows, Saving!Backup!TypeOK
  <1>5. Backup!BackupIsWhole <=> Saving!Backup!BackupIsWhole
    BY DEF Backup!Pictures, Backup!BackupIsWhole, Saving!Backup!Pictures,
           Saving!Backup!BackupIsWhole
  <1>q. QED BY <1>1, <1>2, <1>3, <1>4, <1>5

(* A behaviour of the run is one of the backup or has none.                 *)
LEMMA BackupRun == ServicesSpec => (Saving!BackupSteps /\ []On("backup")) \/ []~On("backup")
  <1>1. ServicesInit /\ On("backup") => Saving!Backup!Init
    BY BackupSame DEF ServicesInit, On
  <1>2. On("backup") /\ [ServicesNext]_all => [Saving!Backup!Next]_Saving!Backup!vars /\ On("backup")'
    BY BackupSame DEF ServicesNext, all, shared, On, Still5, Saving!Backup!vars
  <1>3. ~On("backup") /\ [ServicesNext]_all => ~On("backup")'
    BY FocusStays DEF On
  <1>q. QED BY <1>1, <1>2, <1>3, PTL DEF ServicesSpec, Saving!BackupSteps

(* What the theorems say of the backup holds in the run.                    *)
LEMMA BackupHolds ==
  ServicesSpec => [](On("backup") => Backup!TypeOK /\ Backup!BackupIsWhole)
  <1>1. Saving!BackupSteps => [](Saving!Backup!TypeOK /\ Saving!Backup!BackupIsWhole)
    BY Saving!RestoredSystemsAreWhole
  <1>2. Saving!Backup!TypeOK /\ Saving!Backup!BackupIsWhole => Backup!TypeOK /\ Backup!BackupIsWhole
    BY BackupSame
  <1>q. QED BY <1>1, <1>2, BackupRun, PTL

(* A backup, restored, has a file for each row and a row for each file,     *)
(* though uploads and purges ran while it was made                          *)
(* (services/archive_exports.py, _build_system_raw, behind the write        *)
(* fence).                                                                  *)
THEOREM BackupsAreWhole == ServicesSpec => []BackupIsWhole
  <1>1. (On("backup") => Backup!TypeOK /\ Backup!BackupIsWhole) => BackupIsWhole
    BY DEF BackupIsWhole, On
  <1>q. QED BY <1>1, BackupHolds, PTL

-----------------------------------------------------------------------------
Tables == INSTANCE StandingsProofs WITH
  Teams <- {1, 2, 3}, Games <- {1, 2, 3}, Home <- <<1, 2, 3>>, Away <- <<2, 3, 1>>,
  Outcomes <- {Score("VOID", 0, 0), Score("COMPLETED", 3, 1), Score("COMPLETED", 2, 1),
               Score("COMPLETED", 1, 3), Score("FORFEIT", 20, 0), Score("FORFEIT", 0, 20)},
  drawn <- s1, result <- s2

(* The run and the theorems have the same standings.                        *)
LEMMA GroupSame ==
  /\ Group!Init <=> Tables!Init
  /\ Group!Next => Tables!Next
  /\ Group!vars = Tables!vars
  /\ Group!TypeOK <=> Tables!TypeOK
  /\ Group!StandingsAreFair <=> Tables!StandingsAreFair
  <1>1. Group!Init <=> Tables!Init
    BY DEF Group!Scheduled, Group!Init, Tables!Scheduled, Tables!Init
  <1>2. Group!Next => Tables!Next
    BY DEF Group!Resolved, Group!Draw, Group!Record, Group!Next, Tables!Resolved, Tables!Draw,
           Tables!Record, Tables!Next
  <1>3. Group!vars = Tables!vars
    BY DEF Group!vars, Tables!vars
  <1>4. Group!TypeOK <=> Tables!TypeOK
    BY DEF Group!Scheduled, Group!TypeOK, Tables!Scheduled, Tables!TypeOK
  <1>5. Group!StandingsAreFair <=> Tables!StandingsAreFair
    <2>1. \A S : Group!Cardinality(S) = Tables!Cardinality(S)
      BY DEF Group!Cardinality, Tables!Cardinality
    <2>2. \A f : Group!SumFunction(f) = Tables!SumFunction(f)
      BY DEF Group!SumFunction, Group!SumFunctionOnSet, Group!FoldFunctionOnSet, Group!MapThenFoldSet,
             Tables!SumFunction, Tables!SumFunctionOnSet, Tables!FoldFunctionOnSet, Tables!MapThenFoldSet
    <2>3. Group!Counted = Tables!Counted
      BY DEF Group!Counted, Group!Resolved, Tables!Counted, Tables!Resolved
    <2>4. \A t, games : Group!Total(t, games) = Tables!Total(t, games)
      BY <2>1, <2>2 DEF Group!Total, Group!HomeWon, Group!CompetitionPoints,
                        Tables!Total, Tables!HomeWon, Tables!CompetitionPoints
    <2>5. Group!Table = Tables!Table
      BY <2>3, <2>4 DEF Group!Table, Tables!Table
    <2>6. \A t, table : Group!Cohort(t, table) = Tables!Cohort(t, table)
      BY DEF Group!Cohort, Tables!Cohort
    <2>7. \A t, table : Group!AmongCohort(t, table) = Tables!AmongCohort(t, table)
      BY <2>3, <2>6 DEF Group!AmongCohort, Tables!AmongCohort
    <2>8. \A of, among : Group!OfficialKey(of, among) = Tables!OfficialKey(of, among)
      BY DEF Group!OfficialKey, Tables!OfficialKey
    <2>9. \A table : Group!OfficialKeys(table) = Tables!OfficialKeys(table)
      BY <2>4, <2>7, <2>8 DEF Group!OfficialKeys, Tables!OfficialKeys
    <2>10. \A key : Group!Ordered(key) = Tables!Ordered(key)
      BY DEF Group!Ordered, Group!Ahead, Group!Greater, Group!Cardinality,
             Tables!Ordered, Tables!Ahead, Tables!Greater, Tables!Cardinality
    <2>11. \A key, order : Group!RankedAs(key, order) = Tables!RankedAs(key, order)
      BY DEF Group!RankedAs, Group!Cardinality, Tables!RankedAs, Tables!Cardinality
    <2>12. \A key : Group!RankGroup(key) = Tables!RankGroup(key)
      BY <2>10, <2>11 DEF Group!RankGroup, Tables!RankGroup
    <2>13. \A t, u : Group!Met(t, u) = Tables!Met(t, u)
      BY <2>3 DEF Group!Met, Tables!Met
    <2>14. \A t, u : Group!Beat(t, u) <=> Tables!Beat(t, u)
      BY <2>13 DEF Group!Beat, Group!HomeWon, Tables!Beat, Tables!HomeWon
    <2>15. \A t, u : Group!Margin(t, u) = Tables!Margin(t, u)
      BY <2>4, <2>13 DEF Group!Margin, Tables!Margin
    <2>16. \A t : Group!Margins(t) = Tables!Margins(t)
      <3>1. ASSUME NEW t
            PROVE  [u \in s1 \ {t} |-> Group!Margin(t, u)] = [u \in s1 \ {t} |-> Tables!Margin(t, u)]
        BY <2>15
      <3>q. QED BY <2>2, <3>1 DEF Group!Margins, Tables!Margins
    <2>17. \A table, rank : Group!Fair(table, rank) <=> Tables!Fair(table, rank)
      BY <2>1, <2>6, <2>13, <2>14, <2>16 DEF Group!Fair, Tables!Fair
    <2>18. \A table : Group!Balanced(table) <=> Tables!Balanced(table)
      BY <2>1, <2>2, <2>3 DEF Group!Balanced, Group!SumOf, Tables!Balanced, Tables!SumOf
    <2>q. QED BY <2>5, <2>9, <2>12, <2>17, <2>18 DEF Group!StandingsAreFair, Tables!StandingsAreFair
  <1>q. QED BY <1>1, <1>2, <1>3, <1>4, <1>5

(* A behaviour of the run is one of the table or has none.                  *)
LEMMA GroupRun == ServicesSpec => (Tables!Spec /\ []On("group")) \/ []~On("group")
  <1>1. ServicesInit /\ On("group") => Tables!Init
    BY GroupSame DEF ServicesInit, On
  <1>2. On("group") /\ [ServicesNext]_all => [Tables!Next]_Tables!vars /\ On("group")'
    BY GroupSame DEF ServicesNext, all, shared, On, Still5, Tables!vars
  <1>3. ~On("group") /\ [ServicesNext]_all => ~On("group")'
    BY FocusStays DEF On
  <1>q. QED BY <1>1, <1>2, <1>3, PTL DEF ServicesSpec, Tables!Spec

(* The values of the run meet the assumptions about the table.              *)
LEMMA GroupSetup == Tables!StandingsAssumptions
  <1>1. \A S : Tables!IsFiniteSet(S) <=> IsFiniteSet(S)
    BY DEF Tables!IsFiniteSet, IsFiniteSet
  <1>2. IsFiniteSet({1, 2, 3})
    BY SmallSets
  <1>3. /\ <<1, 2, 3>> \in [{1, 2, 3} -> {1, 2, 3}] /\ <<2, 3, 1>> \in [{1, 2, 3} -> {1, 2, 3}]
        /\ \A g \in {1, 2, 3} : <<1, 2, 3>>[g] # <<2, 3, 1>>[g]
    OBVIOUS
  <1>4. \A status, home, away : Score(status, home, away).home = home /\ Score(status, home, away).away = away
    BY DEF Score
  <1>q. QED BY <1>1, <1>2, <1>3, <1>4 DEF Tables!StandingsAssumptions

(* What the theorems say of the table holds in the run.                     *)
LEMMA GroupHolds ==
  ServicesSpec => [](On("group") => Group!TypeOK /\ Group!StandingsAreFair)
  <1>1. Tables!Spec => [](Tables!TypeOK /\ Tables!StandingsAreFair)
    BY GroupSetup, Tables!TablesAreFair
  <1>2. Tables!TypeOK /\ Tables!StandingsAreFair => Group!TypeOK /\ Group!StandingsAreFair
    BY GroupSame
  <1>q. QED BY <1>1, <1>2, GroupRun, PTL

(* The table of the run is the one the rules ask for, whatever was decided, *)
(* forfeited, voided and corrected (services/standings.py).                 *)
THEOREM StandingsStayFair == ServicesSpec => []StandingsAreFair
  <1>1. (On("group") => Group!TypeOK /\ Group!StandingsAreFair) => StandingsAreFair
    BY DEF StandingsAreFair, On
  <1>q. QED BY <1>1, GroupHolds, PTL

-----------------------------------------------------------------------------
Lining == INSTANCE AdministrationProofs WITH
  Teams <- {"A", "B"}, Players <- {"p", "q"}, Names <- {"x", "y"}, Accounts <- {},
  Batches <- {"i"}, Numbers <- {1, 2}, Entries <- Rows,
  Files <- {[x |-> {1}, y |-> {}], [x |-> {1, 2}]},
  NoNumber <- 0, NoTeam <- "none", NoBase <- 0, NoPreview <- Nothing, MaxVersion <- 4,
  season <- s1, batch <- s2, team <- s3, player <- s4, leader <- s5, led <- s6,
  drawn <- s7, shown <- s8,
  Browsers <- {}, Commands <- {}, Founders <- {}, Nobody <- {}, Seasons <- {}, Divisions <- {},
  Venues <- {}, Configurations <- {}, DivisionsOf <- {}, VenuesOf <- {}, Default <- {}, Flows <- {},
  NoSeason <- {}, NoVenue <- {}, NoToken <- {}, Matchups <- {}, Places <- {}, SlotsOf <- {},
  TimeOf <- {}, Capacity <- {}, Grids <- {}, Families <- {}, NoGame <- {}, Roles <- {},
  Opponents <- {}, Voters <- {}, MaxSerial <- {}, Games <- {}, Slots <- {}, Corrections <- {},
  SlotOf <- {}, GroupSlots <- {}, Phase <- {}, Halls <- {}, NoPlace <- {}, NoCorrection <- {},
  Outcomes <- {}, Draws <- {}, Start <- {}, MaxWork <- {}, account <- 0, browser <- 0,
  challenge <- 0, command <- 0, revoked <- 0, divisions <- 0, scheduled <- 0, venues <- 0,
  flow <- 0, draft <- 0, game <- 0, request <- 0, staff <- 0, sheet <- 0, task <- 0, allocated <- 0,
  forced <- 0, assignment <- 0, revision <- 0, history <- 0, correction <- 0

(* The run and the theorems have the same rosters.                          *)
LEMMA SquadsSame ==
  /\ Squads!Init <=> Lining!Squads!Init
  /\ Squads!Next => Lining!Squads!Next
  /\ Squads!vars = Lining!Squads!vars
  /\ Squads!TypeOK <=> Lining!Squads!TypeOK
  /\ Squads!ValidRostersAreSaved <=> Lining!Squads!ValidRostersAreSaved
  <1>1. Squads!Init <=> Lining!Squads!Init
    BY DEF Squads!Gone, Squads!Init, Lining!Squads!Gone, Lining!Squads!Init
  <1>2. Squads!Next => Lining!Squads!Next
    BY DEF Squads!rosterVars, Squads!bindingVars, Squads!Live, Squads!Active, Squads!Roster,
           Squads!Free, Squads!Gone, Squads!Bumped, Squads!Open, Squads!UploadRoster,
           Squads!ResolveNames, Squads!Blockers, Squads!Placement, Squads!Rows, Squads!Seating,
           Squads!ConfirmImport, Squads!Distinct, Squads!NameTaken, Squads!CreateTeam,
           Squads!Renumbered, Squads!ReleasedFirst, Squads!Midway, Squads!IndexRefuses,
           Squads!Valid, Squads!Referenced, Squads!SaveTeam, Squads!Leads, Squads!ClaimTeam,
           Squads!Releases, Squads!Transfer, Squads!PreviewTransfer, Squads!Transfers,
           Squads!TransferLeader, Squads!ReleaseLeader, Squads!Lifecycle, Squads!Draw,
           Squads!Payloads, Squads!RosterCommand, Squads!LeaderCommand, Squads!Next, Squads!Range,
           Squads!Inverse, Squads!AntiFunction, Squads!IsInjective, Lining!Squads!rosterVars,
           Lining!Squads!bindingVars, Lining!Squads!Live, Lining!Squads!Active,
           Lining!Squads!Roster, Lining!Squads!Free, Lining!Squads!Gone, Lining!Squads!Bumped,
           Lining!Squads!Open, Lining!Squads!UploadRoster, Lining!Squads!ResolveNames,
           Lining!Squads!Blockers, Lining!Squads!Placement, Lining!Squads!Rows,
           Lining!Squads!Seating, Lining!Squads!ConfirmImport, Lining!Squads!Distinct,
           Lining!Squads!NameTaken, Lining!Squads!CreateTeam, Lining!Squads!Renumbered,
           Lining!Squads!ReleasedFirst, Lining!Squads!Midway, Lining!Squads!IndexRefuses,
           Lining!Squads!Valid, Lining!Squads!Referenced, Lining!Squads!SaveTeam,
           Lining!Squads!Leads, Lining!Squads!ClaimTeam, Lining!Squads!Releases,
           Lining!Squads!Transfer, Lining!Squads!PreviewTransfer, Lining!Squads!Transfers,
           Lining!Squads!TransferLeader, Lining!Squads!ReleaseLeader, Lining!Squads!Lifecycle,
           Lining!Squads!Draw, Lining!Squads!Payloads, Lining!Squads!RosterCommand,
           Lining!Squads!LeaderCommand, Lining!Squads!Next, Lining!Squads!Range,
           Lining!Squads!Inverse, Lining!Squads!AntiFunction, Lining!Squads!IsInjective
  <1>3. Squads!vars = Lining!Squads!vars
    BY DEF Squads!vars, Lining!Squads!vars
  <1>4. Squads!TypeOK <=> Lining!Squads!TypeOK
    BY DEF Squads!TypeOK, Lining!Squads!TypeOK
  <1>5. Squads!ValidRostersAreSaved <=> Lining!Squads!ValidRostersAreSaved
    BY DEF Squads!Live, Squads!Roster, Squads!Free, Squads!Distinct, Squads!Renumbered,
           Squads!ReleasedFirst, Squads!Midway, Squads!IndexRefuses, Squads!Valid, Squads!Payloads,
           Squads!ValidRostersAreSaved, Lining!Squads!Live, Lining!Squads!Roster,
           Lining!Squads!Free, Lining!Squads!Distinct, Lining!Squads!Renumbered,
           Lining!Squads!ReleasedFirst, Lining!Squads!Midway, Lining!Squads!IndexRefuses,
           Lining!Squads!Valid, Lining!Squads!Payloads, Lining!Squads!ValidRostersAreSaved
  <1>q. QED BY <1>1, <1>2, <1>3, <1>4, <1>5

(* A behaviour of the run is one of the rosters or has none.                *)
LEMMA SquadsRun == ServicesSpec => (Lining!Squads!Spec /\ []On("squads")) \/ []~On("squads")
  <1>1. ServicesInit /\ On("squads") => Lining!Squads!Init
    BY SquadsSame DEF ServicesInit, On
  <1>2. On("squads") /\ [ServicesNext]_all => [Lining!Squads!Next]_Lining!Squads!vars /\ On("squads")'
    BY SquadsSame DEF ServicesNext, all, shared, On, Still5, Lining!Squads!vars
  <1>3. ~On("squads") /\ [ServicesNext]_all => ~On("squads")'
    BY FocusStays DEF On
  <1>q. QED BY <1>1, <1>2, <1>3, PTL DEF ServicesSpec, Lining!Squads!Spec

(* The values of the run meet the assumptions about the rosters.            *)
LEMMA SquadsSetup == Lining!RosterAssumptions
  <1> DEFINE two == [x |-> {1}, y |-> {}]
             one == [x |-> {1, 2}]
             Line(n, k) == [name |-> n, number |-> k]
  <1>1. /\ DOMAIN two = {"x", "y"} /\ \A n \in DOMAIN two : two[n] \subseteq {1, 2}
        /\ DOMAIN one = {"x"} /\ \A n \in DOMAIN one : one[n] \subseteq {1, 2}
    OBVIOUS
  <1>2. Lining!Squads!Rows(two) = {Line("x", 1)}
    BY <1>1 DEF Lining!Squads!Rows
  <1>3. Lining!Squads!Rows(one) = {Line("x", 1), Line("x", 2)}
    BY <1>1 DEF Lining!Squads!Rows
  <1>4. \E at \in [DOMAIN two -> {"A", "B"}] : Lining!Squads!IsInjective(at)
    <2> DEFINE at == [n \in {"x", "y"} |-> IF n = "x" THEN "A" ELSE "B"]
    <2>1. at \in [DOMAIN two -> {"A", "B"}] /\ Lining!Squads!IsInjective(at)
      BY <1>1 DEF Lining!Squads!IsInjective
    <2>q. QED BY <2>1
  <1>5. \E at \in [DOMAIN one -> {"A", "B"}] : Lining!Squads!IsInjective(at)
    <2> DEFINE at == [n \in {"x"} |-> "A"]
    <2>1. at \in [DOMAIN one -> {"A", "B"}] /\ Lining!Squads!IsInjective(at)
      BY <1>1 DEF Lining!Squads!IsInjective
    <2>q. QED BY <2>1
  <1>6. \E at \in [{Line("x", 1)} -> {"p", "q"}] : Lining!Squads!IsInjective(at)
    <2> DEFINE at == [n \in {Line("x", 1)} |-> "p"]
    <2>1. at \in [{Line("x", 1)} -> {"p", "q"}] /\ Lining!Squads!IsInjective(at)
      BY DEF Lining!Squads!IsInjective
    <2>q. QED BY <2>1
  <1>7. \E at \in [{Line("x", 1), Line("x", 2)} -> {"p", "q"}] : Lining!Squads!IsInjective(at)
    <2> DEFINE at == [n \in {Line("x", 1), Line("x", 2)} |-> IF n.number = 1 THEN "p" ELSE "q"]
    <2>1. at \in [{Line("x", 1), Line("x", 2)} -> {"p", "q"}] /\ Lining!Squads!IsInjective(at)
      BY DEF Lining!Squads!IsInjective
    <2>q. QED BY <2>1
  <1>8. \A f \in {two, one} :
          /\ DOMAIN f \subseteq {"x", "y"} /\ \A n \in DOMAIN f : f[n] \subseteq {1, 2}
          /\ \E at \in [DOMAIN f -> {"A", "B"}] : Lining!Squads!IsInjective(at)
          /\ \E at \in [Lining!Squads!Rows(f) -> {"p", "q"}] : Lining!Squads!IsInjective(at)
    <2> HIDE DEF two, one, Line
    <2>q. QED BY <1>1, <1>2, <1>3, <1>4, <1>5, <1>6, <1>7
  <1>9. Rows \subseteq [number : {1, 2} \cup {0}, active : BOOLEAN]
    BY DEF Rows
  <1>q. QED BY <1>8, <1>9 DEF Lining!RosterAssumptions

(* What the theorems say of the rosters holds in the run.                   *)
LEMMA SquadsHold == ServicesSpec => [](On("squads") => Squads!TypeOK /\ Squads!ValidRostersAreSaved)
  <1>1. Lining!Squads!Spec => []Lining!Squads!TypeOK
    BY SquadsSetup, Lining!TeamsStay, PTL
  <1>2. Lining!Squads!TypeOK => Squads!TypeOK /\ Squads!ValidRostersAreSaved
    BY Lining!NoOrderIsRefused, SquadsSame
  <1>q. QED BY <1>1, <1>2, SquadsRun, PTL

(* A roster that is right as a whole is saved whatever the order of its     *)
(* rows (save_team_roster).                                                 *)
THEOREM RostersAreSaved == ServicesSpec => []ValidRostersAreSaved
  <1>1. (On("squads") => Squads!TypeOK /\ Squads!ValidRostersAreSaved) => ValidRostersAreSaved
    BY DEF ValidRostersAreSaved, On
  <1>q. QED BY <1>1, SquadsHold, PTL

-----------------------------------------------------------------------------
Leading == INSTANCE AdministrationProofs WITH
  Teams <- {"A", "B"}, Players <- {}, Names <- {"x", "y"}, Accounts <- {"a", "b"},
  Batches <- {"i"}, Numbers <- {1, 2}, Entries <- Rows, Files <- {[x |-> {}, y |-> {}]},
  NoNumber <- 0, NoTeam <- "none", NoBase <- 0, NoPreview <- Nothing, MaxVersion <- 4,
  season <- s1, batch <- s2, team <- s3, player <- s4, leader <- s5, led <- s6,
  drawn <- s7, shown <- s8,
  Browsers <- {}, Commands <- {}, Founders <- {}, Nobody <- {}, Seasons <- {}, Divisions <- {},
  Venues <- {}, Configurations <- {}, DivisionsOf <- {}, VenuesOf <- {}, Default <- {}, Flows <- {},
  NoSeason <- {}, NoVenue <- {}, NoToken <- {}, Matchups <- {}, Places <- {}, SlotsOf <- {},
  TimeOf <- {}, Capacity <- {}, Grids <- {}, Families <- {}, NoGame <- {}, Roles <- {},
  Opponents <- {}, Voters <- {}, MaxSerial <- {}, Games <- {}, Slots <- {}, Corrections <- {},
  SlotOf <- {}, GroupSlots <- {}, Phase <- {}, Halls <- {}, NoPlace <- {}, NoCorrection <- {},
  Outcomes <- {}, Draws <- {}, Start <- {}, MaxWork <- {}, account <- 0, browser <- 0,
  challenge <- 0, command <- 0, revoked <- 0, divisions <- 0, scheduled <- 0, venues <- 0,
  flow <- 0, draft <- 0, game <- 0, request <- 0, staff <- 0, sheet <- 0, task <- 0, allocated <- 0,
  forced <- 0, assignment <- 0, revision <- 0, history <- 0, correction <- 0

(* The run and the theorems have the same leaders.                          *)
LEMMA LeadersSame ==
  /\ Leaders!Init <=> Leading!Squads!Init
  /\ Leaders!Next => Leading!Squads!Next
  /\ Leaders!vars = Leading!Squads!vars
  /\ Leaders!TypeOK <=> Leading!Squads!TypeOK
  /\ Leaders!TeamsInUseStay <=> Leading!Squads!TeamsInUseStay
  /\ Leaders!AsShown <=> Leading!Squads!AsShown
  <1>1. Leaders!Init <=> Leading!Squads!Init
    BY DEF Leaders!Gone, Leaders!Init, Leading!Squads!Gone, Leading!Squads!Init
  <1>2. Leaders!Next => Leading!Squads!Next
    BY DEF Leaders!rosterVars, Leaders!bindingVars, Leaders!Live, Leaders!Active, Leaders!Roster,
           Leaders!Free, Leaders!Gone, Leaders!Bumped, Leaders!Open, Leaders!UploadRoster,
           Leaders!ResolveNames, Leaders!Blockers, Leaders!Placement, Leaders!Rows, Leaders!Seating,
           Leaders!ConfirmImport, Leaders!Distinct, Leaders!NameTaken, Leaders!CreateTeam,
           Leaders!Renumbered, Leaders!ReleasedFirst, Leaders!Midway, Leaders!IndexRefuses,
           Leaders!Valid, Leaders!Referenced, Leaders!SaveTeam, Leaders!Leads, Leaders!ClaimTeam,
           Leaders!Releases, Leaders!Transfer, Leaders!PreviewTransfer, Leaders!Transfers,
           Leaders!TransferLeader, Leaders!ReleaseLeader, Leaders!Lifecycle, Leaders!Draw,
           Leaders!Payloads, Leaders!RosterCommand, Leaders!LeaderCommand, Leaders!Next,
           Leaders!Range, Leaders!Inverse, Leaders!AntiFunction, Leaders!IsInjective,
           Leading!Squads!rosterVars, Leading!Squads!bindingVars, Leading!Squads!Live,
           Leading!Squads!Active, Leading!Squads!Roster, Leading!Squads!Free, Leading!Squads!Gone,
           Leading!Squads!Bumped, Leading!Squads!Open, Leading!Squads!UploadRoster,
           Leading!Squads!ResolveNames, Leading!Squads!Blockers, Leading!Squads!Placement,
           Leading!Squads!Rows, Leading!Squads!Seating, Leading!Squads!ConfirmImport,
           Leading!Squads!Distinct, Leading!Squads!NameTaken, Leading!Squads!CreateTeam,
           Leading!Squads!Renumbered, Leading!Squads!ReleasedFirst, Leading!Squads!Midway,
           Leading!Squads!IndexRefuses, Leading!Squads!Valid, Leading!Squads!Referenced,
           Leading!Squads!SaveTeam, Leading!Squads!Leads, Leading!Squads!ClaimTeam,
           Leading!Squads!Releases, Leading!Squads!Transfer, Leading!Squads!PreviewTransfer,
           Leading!Squads!Transfers, Leading!Squads!TransferLeader, Leading!Squads!ReleaseLeader,
           Leading!Squads!Lifecycle, Leading!Squads!Draw, Leading!Squads!Payloads,
           Leading!Squads!RosterCommand, Leading!Squads!LeaderCommand, Leading!Squads!Next,
           Leading!Squads!Range, Leading!Squads!Inverse, Leading!Squads!AntiFunction,
           Leading!Squads!IsInjective
  <1>3. Leaders!vars = Leading!Squads!vars
    BY DEF Leaders!vars, Leading!Squads!vars
  <1>4. Leaders!TypeOK <=> Leading!Squads!TypeOK
    BY DEF Leaders!TypeOK, Leading!Squads!TypeOK
  <1>5. Leaders!TeamsInUseStay <=> Leading!Squads!TeamsInUseStay
    BY DEF Leaders!Cardinality, Leaders!Live, Leaders!Active, Leaders!Roster, Leaders!Distinct,
           Leaders!Leads, Leaders!TeamsInUseStay, Leading!Squads!Cardinality, Leading!Squads!Live,
           Leading!Squads!Active, Leading!Squads!Roster, Leading!Squads!Distinct,
           Leading!Squads!Leads, Leading!Squads!TeamsInUseStay
  <1>6. Leaders!AsShown <=> Leading!Squads!AsShown
    BY DEF Leaders!Gains, Leaders!Loses, Leaders!AsShown, Leading!Squads!Gains,
           Leading!Squads!Loses, Leading!Squads!AsShown
  <1>q. QED BY <1>1, <1>2, <1>3, <1>4, <1>5, <1>6

(* A behaviour of the run is one of the leaders or has none.                *)
LEMMA LeadersRun == ServicesSpec => (Leading!Squads!Spec /\ []On("leaders")) \/ []~On("leaders")
  <1>1. ServicesInit /\ On("leaders") => Leading!Squads!Init
    BY LeadersSame DEF ServicesInit, On
  <1>2. On("leaders") /\ [ServicesNext]_all => [Leading!Squads!Next]_Leading!Squads!vars /\ On("leaders")'
    BY LeadersSame DEF ServicesNext, all, shared, On, Still5, Leading!Squads!vars
  <1>3. ~On("leaders") /\ [ServicesNext]_all => ~On("leaders")'
    BY FocusStays DEF On
  <1>q. QED BY <1>1, <1>2, <1>3, PTL DEF ServicesSpec, Leading!Squads!Spec

(* The values of the run meet the assumptions about the leaders.            *)
LEMMA LeadersSetup == Leading!RosterAssumptions
  <1> DEFINE file == [x |-> {}, y |-> {}]
             at == [n \in {"x", "y"} |-> IF n = "x" THEN "A" ELSE "B"]
             none == [n \in {} |-> "A"]
  <1>1. DOMAIN file = {"x", "y"} /\ \A n \in DOMAIN file : file[n] = {}
    OBVIOUS
  <1>2. Leading!Squads!Rows(file) = {}
    BY <1>1 DEF Leading!Squads!Rows
  <1>3. at \in [DOMAIN file -> {"A", "B"}] /\ Leading!Squads!IsInjective(at)
    BY <1>1 DEF Leading!Squads!IsInjective
  <1>4. none \in [{} -> {}] /\ Leading!Squads!IsInjective(none)
    BY DEF Leading!Squads!IsInjective
  <1>5. Rows \subseteq [number : {1, 2} \cup {0}, active : BOOLEAN]
    BY DEF Rows
  <1> HIDE DEF file, at, none
  <1>6. \A f \in {file} :
          /\ DOMAIN f \subseteq {"x", "y"} /\ \A n \in DOMAIN f : f[n] \subseteq {1, 2}
          /\ \E a \in [DOMAIN f -> {"A", "B"}] : Leading!Squads!IsInjective(a)
          /\ \E a \in [Leading!Squads!Rows(f) -> {}] : Leading!Squads!IsInjective(a)
    BY <1>1, <1>2, <1>3, <1>4
  <1> USE DEF file
  <1>q. QED BY <1>5, <1>6 DEF Leading!RosterAssumptions

(* What the theorems say of the leaders holds in the run.                   *)
LEMMA LeadersHold ==
  ServicesSpec => /\ [](On("leaders") => Leaders!TypeOK /\ Leaders!TeamsInUseStay)
                  /\ [][On("leaders") => Leaders!AsShown]_shared
  <1>1. Leading!Squads!Spec
            => /\ [](Leading!Squads!TypeOK /\ Leading!Squads!TeamsInUseStay)
               /\ [][Leading!Squads!AsShown]_Leading!Squads!vars
    BY LeadersSetup, Leading!TeamsStay
  <1>2. Leading!Squads!TypeOK /\ Leading!Squads!TeamsInUseStay => Leaders!TypeOK /\ Leaders!TeamsInUseStay
    BY LeadersSame
  <1>3. [ServicesNext]_all /\ [Leading!Squads!AsShown]_Leading!Squads!vars => [On("leaders")
            => Leaders!AsShown]_shared
    BY LeadersSame DEF ServicesNext, all, shared, On, Still5, Leading!Squads!vars
  <1>4. [ServicesNext]_all /\ ~On("leaders") => [On("leaders") => Leaders!AsShown]_shared
    OBVIOUS
  <1>q. QED BY <1>1, <1>2, <1>3, <1>4, LeadersRun, PTL DEF ServicesSpec

(* Teams that are drawn or led stay active with one leader each, and those  *)
(* who lose a team were shown to whoever confirmed the transfer             *)
(* (services/roster_management.py, services/leader_bindings.py).            *)
THEOREM LedTeamsStay == ServicesSpec => TeamsInUseStay
  <1>1. (On("leaders") => Leaders!TypeOK /\ Leaders!TeamsInUseStay)
          => (focus = "leaders" => Leaders!TeamsInUseStay)
    BY DEF On
  <1>2. [On("leaders") => Leaders!AsShown]_shared => [focus = "leaders" => Leaders!AsShown]_shared
    BY DEF On
  <1>q. QED BY <1>1, <1>2, LeadersHold, PTL DEF TeamsInUseStay

-----------------------------------------------------------------------------
Reviewing == INSTANCE AdministrationProofs WITH
  Accounts <- {"a", "f"}, Roles <- {"NONE", "ADMIN", "SUPERADMIN"}, Opponents <- {}, Voters <- {},
  Nobody <- "none", MaxSerial <- 2,
  request <- s1, leader <- s2, staff <- s3, sheet <- s4, task <- s5,
  Browsers <- {}, Commands <- {}, Founders <- {}, MaxVersion <- {}, Seasons <- {}, Divisions <- {},
  Venues <- {}, Configurations <- {}, DivisionsOf <- {}, VenuesOf <- {}, Default <- {}, Flows <- {},
  NoSeason <- {}, NoVenue <- {}, NoToken <- {}, Teams <- {}, Players <- {}, Names <- {},
  Batches <- {}, Numbers <- {}, Entries <- {}, Files <- {}, NoNumber <- {}, NoTeam <- {},
  NoBase <- {}, NoPreview <- {}, Matchups <- {}, Places <- {}, SlotsOf <- {}, TimeOf <- {},
  Capacity <- {}, Grids <- {}, Families <- {}, NoGame <- {}, Games <- {}, Slots <- {},
  Corrections <- {}, SlotOf <- {}, GroupSlots <- {}, Phase <- {}, Halls <- {}, NoPlace <- {},
  NoCorrection <- {}, Outcomes <- {}, Draws <- {}, Start <- {}, MaxWork <- {}, account <- 0,
  browser <- 0, challenge <- 0, command <- 0, revoked <- 0, season <- 0, divisions <- 0,
  scheduled <- 0, venues <- 0, flow <- 0, shown <- 0, batch <- 0, team <- 0, player <- 0, led <- 0,
  drawn <- 0, draft <- 0, game <- 0, allocated <- 0, forced <- 0, assignment <- 0, revision <- 0,
  history <- 0, correction <- 0

(* The run and the theorems have the same reviews.                          *)
LEMMA ReviewsSame ==
  /\ Reviews!Init <=> Reviewing!Tasks!Init
  /\ Reviews!Next => Reviewing!Tasks!Next
  /\ Reviews!vars = Reviewing!Tasks!vars
  /\ Reviews!TypeOK <=> Reviewing!Tasks!TypeOK
  /\ Reviews!TasksAreCurrent <=> Reviewing!Tasks!TasksAreCurrent
  <1>1. Reviews!Init <=> Reviewing!Tasks!Init
    BY DEF Reviews!Teams, Reviews!AsksStaff, Reviews!RequestKeys, Reviews!SheetKeys, Reviews!Keys,
           Reviews!Init, Reviewing!Tasks!Teams, Reviewing!Tasks!AsksStaff,
           Reviewing!Tasks!RequestKeys, Reviewing!Tasks!SheetKeys, Reviewing!Tasks!Keys,
           Reviewing!Tasks!Init
  <1>2. Reviews!Next => Reviewing!Tasks!Next
    BY DEF Reviews!Teams, Reviews!AsksTeams, Reviews!AsksStaff, Reviews!RequestKeys,
           Reviews!SheetKeys, Reviews!Keys, Reviews!Superadmins, Reviews!Reviewers, Reviews!AskOf,
           Reviews!Wanted, Reviews!Kept, Reviews!Synced, Reviews!SyncRequest, Reviews!MoveTo,
           Reviews!Submit, Reviews!OpponentAgrees, Reviews!CallVote, Reviews!Vote,
           Reviews!EndRequest, Reviews!Review, Reviews!Failure, Reviews!SyncSheet,
           Reviews!ClosedTasks, Reviews!Sheet, Reviews!Upload, Reviews!RecognitionEnds,
           Reviews!RetryRecognition, Reviews!Publish, Reviews!Withdraw, Reviews!ChangeGame,
           Reviews!Appoint, Reviews!StaffChanges, Reviews!Reconcile, Reviews!Next,
           Reviewing!Tasks!Teams, Reviewing!Tasks!AsksTeams, Reviewing!Tasks!AsksStaff,
           Reviewing!Tasks!RequestKeys, Reviewing!Tasks!SheetKeys, Reviewing!Tasks!Keys,
           Reviewing!Tasks!Superadmins, Reviewing!Tasks!Reviewers, Reviewing!Tasks!AskOf,
           Reviewing!Tasks!Wanted, Reviewing!Tasks!Kept, Reviewing!Tasks!Synced,
           Reviewing!Tasks!SyncRequest, Reviewing!Tasks!MoveTo, Reviewing!Tasks!Submit,
           Reviewing!Tasks!OpponentAgrees, Reviewing!Tasks!CallVote, Reviewing!Tasks!Vote,
           Reviewing!Tasks!EndRequest, Reviewing!Tasks!Review, Reviewing!Tasks!Failure,
           Reviewing!Tasks!SyncSheet, Reviewing!Tasks!ClosedTasks, Reviewing!Tasks!Sheet,
           Reviewing!Tasks!Upload, Reviewing!Tasks!RecognitionEnds,
           Reviewing!Tasks!RetryRecognition, Reviewing!Tasks!Publish, Reviewing!Tasks!Withdraw,
           Reviewing!Tasks!ChangeGame, Reviewing!Tasks!Appoint, Reviewing!Tasks!StaffChanges,
           Reviewing!Tasks!Reconcile, Reviewing!Tasks!Next
  <1>3. Reviews!vars = Reviewing!Tasks!vars
    BY DEF Reviews!vars, Reviewing!Tasks!vars
  <1>4. Reviews!TypeOK <=> Reviewing!Tasks!TypeOK
    BY DEF Reviews!Teams, Reviews!AsksTeams, Reviews!AsksStaff, Reviews!RequestKeys,
           Reviews!SheetKeys, Reviews!Keys, Reviews!TypeOK, Reviewing!Tasks!Teams,
           Reviewing!Tasks!AsksTeams, Reviewing!Tasks!AsksStaff, Reviewing!Tasks!RequestKeys,
           Reviewing!Tasks!SheetKeys, Reviewing!Tasks!Keys, Reviewing!Tasks!TypeOK
  <1>5. Reviews!TasksAreCurrent <=> Reviewing!Tasks!TasksAreCurrent
    BY DEF Reviews!Teams, Reviews!AsksStaff, Reviews!RequestKeys, Reviews!SheetKeys, Reviews!Keys,
           Reviews!Open, Reviews!TasksAreCurrent, Reviewing!Tasks!Teams, Reviewing!Tasks!AsksStaff,
           Reviewing!Tasks!RequestKeys, Reviewing!Tasks!SheetKeys, Reviewing!Tasks!Keys,
           Reviewing!Tasks!Open, Reviewing!Tasks!TasksAreCurrent
  <1>q. QED BY <1>1, <1>2, <1>3, <1>4, <1>5

(* A behaviour of the run is one of the inbox while requests are reviewed   *)
(* or has none.                                                             *)
LEMMA ReviewsRun == ServicesSpec => (Reviewing!Tasks!Spec /\ []On("reviews")) \/ []~On("reviews")
  <1>1. ServicesInit /\ On("reviews") => Reviewing!Tasks!Init
    BY ReviewsSame DEF ServicesInit, On
  <1>2. On("reviews") /\ [ServicesNext]_all => [Reviewing!Tasks!Next]_Reviewing!Tasks!vars /\ On("reviews")'
    BY ReviewsSame DEF ServicesNext, all, shared, On, Still5, Reviewing!Tasks!vars
  <1>3. ~On("reviews") /\ [ServicesNext]_all => ~On("reviews")'
    BY FocusStays DEF On
  <1>q. QED BY <1>1, <1>2, <1>3, PTL DEF ServicesSpec, Reviewing!Tasks!Spec

(* The values of the run meet the assumptions about the inbox while         *)
(* requests are reviewed.                                                   *)
LEMMA ReviewsSetup == Reviewing!InboxAssumptions
  BY DEF Reviewing!InboxAssumptions

(* What the theorems say of the inbox while requests are reviewed holds in  *)
(* the run.                                                                 *)
LEMMA ReviewsHold == ServicesSpec => [](On("reviews") => Reviews!TypeOK /\ Reviews!TasksAreCurrent)
  <1>1. Reviewing!Tasks!Spec => [](Reviewing!Tasks!TypeOK /\ Reviewing!Tasks!TasksAreCurrent)
    BY ReviewsSetup, Reviewing!TasksFollow, PTL
  <1>2. Reviewing!Tasks!TypeOK /\ Reviewing!Tasks!TasksAreCurrent => Reviews!TypeOK /\ Reviews!TasksAreCurrent
    BY ReviewsSame
  <1>q. QED BY <1>1, <1>2, ReviewsRun, PTL

(* Open tasks ask what is still to be done, and a request that begins to    *)
(* wait for somebody has a task for them (services/inbox_tasks.py).         *)
THEOREM InboxesFollow == ServicesSpec => InboxFollows
  <1>1. (On("tasks") => Tasks!TypeOK /\ Tasks!TasksAreCurrent)
          => (focus = "tasks" => Tasks!TasksAreCurrent)
    BY DEF On
  <1>2. (On("turnover") => Turnover!TypeOK /\ Turnover!TasksAreCurrent)
          => (focus = "turnover" => Turnover!TasksAreCurrent)
    BY DEF On
  <1>3. (On("reviews") => Reviews!TypeOK /\ Reviews!TasksAreCurrent)
          => (focus = "reviews" => Reviews!TasksAreCurrent)
    BY DEF On
  <1>4. [On("tasks") => Tasks!WaitReachesSomebody]_shared
          => [focus = "tasks" => Tasks!WaitReachesSomebody]_shared
    BY DEF On
  <1>5. [On("turnover") => Turnover!WaitReachesSomebody]_shared
          => [focus = "turnover" => Turnover!WaitReachesSomebody]_shared
    BY DEF On
  <1>q. QED BY <1>1, <1>2, <1>3, <1>4, <1>5, TasksHold, TurnoverHolds, ReviewsHold, PTL DEF InboxFollows

-----------------------------------------------------------------------------
(* Every service of the run keeps its rows among those its tables can hold. *)
THEOREM ServicesStayTyped == ServicesSpec => []ServicesTyped
  <1>1. ServicesInit => TypeOK
    BY OutboxInit DEF ServicesInit
  <1>2. TypeOK /\ [ServicesNext]_all => TypeOK'
    <2>1. [ServicesNext]_all => [Next]_vars
      BY DEF ServicesNext, all, Still5
    <2>q. QED BY <2>1, OutboxStep
  <1> DEFINE files == /\ On("media") => Media!TypeOK /\ Media!LostOnlyToSweep
                      /\ On("archives") => Archives!TypeOK /\ Archives!PurgedWasPackaged
                      /\ On("backup") => Backup!TypeOK /\ Backup!BackupIsWhole
             games == /\ On("corrections") => Repairs!TypeOK /\ Repairs!RecordsAgree
                      /\ On("imports") => Imports!TypeOK /\ Imports!ImportsAreWhole
                      /\ On("seasons") => Lifecycle!TypeOK /\ Lifecycle!InUseIsKept
                      /\ On("group") => Group!TypeOK /\ Group!StandingsAreFair
             people == /\ On("squads") => Squads!TypeOK /\ Squads!ValidRostersAreSaved
                       /\ On("leaders") => Leaders!TypeOK /\ Leaders!TeamsInUseStay
                       /\ On("superadmins") => Superadmins!TypeOK /\ Superadmins!AccountsAreGoverned
                       /\ On("sessions") => Sessions!TypeOK /\ Sessions!AccountsAreGoverned
             inboxes == /\ On("tasks") => Tasks!TypeOK /\ Tasks!TasksAreCurrent
                        /\ On("turnover") => Turnover!TypeOK /\ Turnover!TasksAreCurrent
                        /\ On("reviews") => Reviews!TypeOK /\ Reviews!TasksAreCurrent
  <1>3. TypeOK /\ files /\ games /\ people /\ inboxes => ServicesTyped
    BY DEF ServicesTyped, On
  <1>4. ServicesSpec => []TypeOK
    BY <1>1, <1>2, PTL DEF ServicesSpec
  <1>5. ServicesSpec => []files
    BY MediaHolds, ArchivesHold, BackupHolds, PTL
  <1>6. ServicesSpec => []games
    BY CorrectionsHold, ImportsHold, SeasonsHold, GroupHolds, PTL
  <1>7. ServicesSpec => []people
    BY SquadsHold, LeadersHold, SuperadminsHold, SessionsHold, PTL
  <1>8. ServicesSpec => []inboxes
    BY TasksHold, TurnoverHolds, ReviewsHold, PTL
  <1> HIDE DEF files, games, people, inboxes
  <1>q. QED BY <1>3, <1>4, <1>5, <1>6, <1>7, <1>8, PTL
=============================================================================
