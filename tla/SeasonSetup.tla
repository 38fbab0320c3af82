----------------------------- MODULE SeasonSetup -----------------------------
(***************************************************************************)
(* Seasons: their creation and configuration (services/season_management.py)*)
(* and their publication and archival (services/season_lifecycle.py), while *)
(* users start what an archived season may not have: rescheduling requests, *)
(* edit leases and recognitions.                                            *)
(*                                                                          *)
(* A command of an administrator runs in one transaction that holds the     *)
(* season's row, so it is one step.  A user's flow reads the season without *)
(* its row and commits later: two steps.  Of a configuration the model      *)
(* keeps the divisions and the courts, and whether a division has games.    *)
(***************************************************************************)
EXTENDS Naturals, FiniteSets

CONSTANTS Seasons,      \* competition types with their years: what names a season
          Divisions, Venues,
          Configurations, \* what administrators may ask for
          DivisionsOf, VenuesOf, \* the divisions and courts of each of them
          Default,      \* the configuration of a season made without a template
          Flows,        \* requests, leases and recognitions users may start
          NoSeason, NoVenue, NoToken,
          MaxVersion    \* bound on the version of a season

VARIABLES season,       \* [status, version] of each season
          divisions,    \* the divisions of each season
          scheduled,    \* those of them that have games, slots or teams
          venues,       \* the standard courts of each season
          flow,         \* [season, at, venue] of each flow
          shown         \* the preview an administrator may still confirm

vars == <<season, divisions, scheduled, venues, flow, shown>>

Statuses == {"NONE", "SETUP", "PUBLISHED", "ARCHIVED"}
Created == {s \in Seasons : season[s].status # "NONE"}
NoFlow == [season |-> NoSeason, at |-> "idle", venue |-> NoVenue]

TypeOK ==
  /\ season \in [Seasons -> [status : Statuses, version : 0 .. MaxVersion]]
  /\ divisions \in [Seasons -> SUBSET Divisions]
  /\ scheduled \in [Seasons -> SUBSET Divisions]
  /\ venues \in [Seasons -> SUBSET Venues]
  /\ flow \in [Flows -> [season : Seasons \cup {NoSeason}, at : {"idle", "checked", "active"},
                         venue : Venues \cup {NoVenue}]]
  /\ shown \in {NoToken} \cup
        [season : Seasons, version : 1 .. MaxVersion,
         target : {"PUBLISHED", "ARCHIVED"} \cup Configurations]

Init ==
  /\ season = [s \in Seasons |-> [status |-> "NONE", version |-> 0]]
  /\ divisions = [s \in Seasons |-> {}]
  /\ scheduled = [s \in Seasons |-> {}]
  /\ venues = [s \in Seasons |-> {}]
  /\ flow = [f \in Flows |-> NoFlow]
  /\ shown = NoToken

-----------------------------------------------------------------------------
(* What a season begins with: a copy of a template's divisions and venues,  *)
(* or the default ones.                                                     *)
CopiedDivisions(template) ==
  IF template = NoSeason THEN DivisionsOf[Default] ELSE divisions[template]
CopiedVenues(template) ==
  IF template = NoSeason THEN VenuesOf[Default] ELSE venues[template]

(* An advisory lock on the type and year lets one creation of a season run. *)
CreateSeason(s, template) ==
  /\ season[s].status = "NONE"
  /\ season' = [season EXCEPT ![s] = [status |-> "SETUP", version |-> 1]]
  /\ divisions' = [divisions EXCEPT ![s] = CopiedDivisions(template)]
  /\ venues' = [venues EXCEPT ![s] = CopiedVenues(template)]
  /\ UNCHANGED <<scheduled, flow, shown>>

(* The schedule of a division is imported, under the season's row.          *)
Schedule(s, d) ==
  /\ season[s].status \in {"SETUP", "PUBLISHED"} /\ season[s].version < MaxVersion
  /\ d \in divisions[s] \ scheduled[s]
  /\ scheduled' = [scheduled EXCEPT ![s] = @ \cup {d}]
  /\ season' = [season EXCEPT ![s].version = @ + 1]
  /\ UNCHANGED <<divisions, venues, flow, shown>>

-----------------------------------------------------------------------------
(* Publication and archival.                                                *)
ActiveFlows(s) == {f \in Flows : flow[f].at = "active" /\ flow[f].season = s}
OtherPublic(s) == {t \in Seasons \ {s} : season[t].status = "PUBLISHED"}

Blocked(s, target) ==
  \/ /\ target = "PUBLISHED"
     /\ \/ OtherPublic(s) # {}
        \/ divisions[s] = {} \/ ~(divisions[s] \subseteq scheduled[s])
  \/ target = "ARCHIVED" /\ ActiveFlows(s) # {}

Transition(s, target) ==
  \/ target = "PUBLISHED" /\ season[s].status = "SETUP"
  \/ target = "ARCHIVED" /\ season[s].status = "PUBLISHED"

Token(s, target) == [season |-> s, version |-> season[s].version, target |-> target]

(* A preview's hash covers its blockers, so one with blockers confirms      *)
(* nothing: apply refuses it by its blockers or by its hash.                *)
PreviewLifecycle(s, target) ==
  /\ Transition(s, target) /\ ~Blocked(s, target)
  /\ shown' = Token(s, target)
  /\ UNCHANGED <<season, divisions, scheduled, venues, flow>>

(* All seasons are locked, in the order of their ids, and analysed anew.    *)
ApplyLifecycle(s, target) ==
  /\ shown = Token(s, target)
  /\ Transition(s, target) /\ ~Blocked(s, target)
  /\ season[s].version < MaxVersion
  /\ season' = [season EXCEPT ![s].status = target, ![s].version = @ + 1]
  /\ UNCHANGED <<divisions, scheduled, venues, flow, shown>>

-----------------------------------------------------------------------------
(* Configuration.  Outside SETUP a preview of this very configuration at    *)
(* this version of the season must be confirmed.                            *)
Configurable(s) == season[s].status \in {"SETUP", "PUBLISHED"}

PreviewConfiguration(s, c) ==
  /\ Configurable(s)
  /\ shown' = Token(s, c)
  /\ UNCHANGED <<season, divisions, scheduled, venues, flow>>

NothingAffected(s, c) == {}

(* The running requests that hold a court the configuration removes; the    *)
(* administrator names them, and they are cancelled with it.                *)
Affected(s, c) == {f \in ActiveFlows(s) : flow[f].venue \in venues[s] \ VenuesOf[c]}

Deletable(s, d) == d \notin scheduled[s]

UpdateConfiguration(s, c, cancelled) ==
  /\ Configurable(s) /\ season[s].version < MaxVersion
  /\ season[s].status = "SETUP" \/ shown = Token(s, c)
  /\ Affected(s, c) \subseteq cancelled
  /\ \A d \in divisions[s] \ DivisionsOf[c] : Deletable(s, d)
  /\ divisions' = [divisions EXCEPT ![s] = DivisionsOf[c]]
  /\ venues' = [venues EXCEPT ![s] = VenuesOf[c]]
  /\ season' = [season EXCEPT ![s].version = @ + 1]
  /\ flow' = [f \in Flows |-> IF f \in Affected(s, c) THEN NoFlow ELSE flow[f]]
  /\ UNCHANGED <<scheduled, shown>>

-----------------------------------------------------------------------------
(* What users start.  The season is read without its row; the insertion     *)
(* waits for its row but does not look at its status again.  A       *)
(* request also takes a court, which a foreign key keeps from vanishing     *)
(* unseen; a lease or a recognition has NoVenue.                            *)
CheckFlow(f, s, v) ==
  /\ flow[f].at = "idle" /\ season[s].status = "PUBLISHED"
  /\ v \in venues[s] \cup {NoVenue}
  /\ flow' = [flow EXCEPT ![f] = [season |-> s, at |-> "checked", venue |-> v]]
  /\ UNCHANGED <<season, divisions, scheduled, venues, shown>>

CommitFlow(f) ==
  /\ flow[f].at = "checked"
  /\ flow' = [flow EXCEPT ![f] =
        IF flow[f].venue \in venues[flow[f].season] \cup {NoVenue}
                       THEN [@ EXCEPT !.at = "active"] ELSE NoFlow]
  /\ UNCHANGED <<season, divisions, scheduled, venues, shown>>

EndFlow(f) ==
  /\ flow[f].at = "active"
  /\ flow' = [flow EXCEPT ![f] = NoFlow]
  /\ UNCHANGED <<season, divisions, scheduled, venues, shown>>

(* What the endpoints of api_admin_lifecycle.py and api_admin.py offer:     *)
(* what a preview showed is sent back with the order.                       *)
LifecycleCommand(s, target) == PreviewLifecycle(s, target) \/ ApplyLifecycle(s, target)
ConfigurationCommand(s, c) ==
  \/ PreviewConfiguration(s, c)
  \/ \E cancelled \in SUBSET Flows : UpdateConfiguration(s, c, cancelled)

Next ==
  \/ \E s \in Seasons, template \in Created \cup {NoSeason} : CreateSeason(s, template)
  \/ \E s \in Created :
        \/ \E d \in Divisions : Schedule(s, d)
        \/ \E target \in {"PUBLISHED", "ARCHIVED"} : LifecycleCommand(s, target)
        \/ \E c \in Configurations : ConfigurationCommand(s, c)
        \/ \E f \in Flows, v \in Venues \cup {NoVenue} : CheckFlow(f, s, v)
  \/ \E f \in Flows : CommitFlow(f) \/ EndFlow(f)

Spec == Init /\ [][Next]_vars

-----------------------------------------------------------------------------
(* What the miniapp and the previews rely on: one season at most is public, *)
(* a season in use keeps the divisions its games are of, and every running  *)
(* request holds a court its season still has, though courts are removed    *)
(* while requests that chose them are on their way.                         *)
InUseIsKept ==
  /\ \A s, t \in Seasons :
        season[s].status = "PUBLISHED" /\ season[t].status = "PUBLISHED" => s = t
  /\ \A s \in Seasons : scheduled[s] \subseteq divisions[s]
  /\ \A f \in Flows : flow[f].at = "active" =>
        flow[f].venue \in venues[flow[f].season] \cup {NoVenue}

(* A season is archived only when its requests, reservations, recognitions  *)
(* and leases are settled, and gets no new ones (USER_GUIDE.md).            *)
ArchivedSeasonIsQuiet ==
  \A s \in Seasons : season[s].status = "ARCHIVED" => ActiveFlows(s) = {}
=============================================================================
