--------------------------- MODULE ArchiveExports ---------------------------
(***************************************************************************)
(* The packages of one season and the removal of its photographs:           *)
(* services/archive_exports.py behind the views of api_admin_archives.py,   *)
(* the workers of process_archives.py and the invalidation of packages by   *)
(* services/archive_invalidation.py.                                        *)
(*                                                                          *)
(* A package records the season's version it was ordered at.  Changing an   *)
(* archived season raises the version and takes the ready packages out of   *)
(* use, and only a purge that finds final packages of the present version   *)
(* is accepted.  Workers claim jobs under a lease that lapses when a worker *)
(* dies; what they write about a job they write by its id alone.            *)
(***************************************************************************)
EXTENDS Integers, FiniteSets

CONSTANTS Photos,
          Packages,   \* ids of export jobs, in the order of their creation
          Purges,     \* ids of purge jobs, likewise
          Workers,
          Nobody,
          MaxVersion  \* bound on the season's version

VARIABLES season,   \* [status, version]
          photo,    \* storage status of each photograph
          purgeOf,  \* the purge job each photograph was marked by
          onDisk,   \* photographs whose file is there
          pack,     \* ArchiveJob rows
          artifact, \* packages whose file is there
          purge,    \* MediaPurgeJob rows
          worker    \* what each worker does

vars == <<season, photo, purgeOf, onDisk, pack, artifact, purge, worker>>

Kinds == {"SEASON_DATA", "SEASON_PHOTOS"}
Active == {"QUEUED", "BUILDING"}
NoPack == [kind |-> "SEASON_DATA", status |-> "NONE", version |-> 0, final |-> FALSE,
           holds |-> {}, keyed |-> FALSE, due |-> FALSE, downloaded |-> FALSE,
           saved |-> FALSE, owner |-> Nobody]
NoPurge == [status |-> "NONE", data |-> Nobody, photos |-> Nobody, owner |-> Nobody]
NoJob == [at |-> "IDLE", job |-> Nobody, sees |-> {}, photo |-> Nobody]

TypeOK ==
    /\ season \in [status : {"PUBLISHED", "ARCHIVED"}, version : 1 .. MaxVersion]
    /\ photo \in [Photos -> {"NONE", "ONLINE", "PURGE_PENDING", "PURGED", "MISSING"}]
    /\ purgeOf \in [Photos -> Purges \cup {Nobody}]
    /\ onDisk \subseteq Photos
    /\ pack \in [Packages -> [kind : Kinds, version : 0 .. MaxVersion, final : BOOLEAN,
                   status : Active \cup {"NONE", "READY", "FAILED", "EXPIRED", "DISCARDED"},
                   holds : SUBSET Photos, keyed : BOOLEAN, due : BOOLEAN,
                   downloaded : BOOLEAN, saved : BOOLEAN, owner : Workers \cup {Nobody}]]
    /\ artifact \subseteq Packages
    /\ purge \in [Purges -> [status : Active \cup {"NONE", "COMPLETED", "FAILED"},
                    data : Packages \cup {Nobody}, photos : Packages \cup {Nobody},
                    owner : Workers \cup {Nobody}]]
    /\ worker \in [Workers -> [at : {"IDLE", "GONE", "CLAIMED", "SNAPSHOT",
                                     "PURGING", "DELETED", "ABSENT"},
                     job : Packages \cup Purges \cup {Nobody},
                     sees : SUBSET Photos, photo : Photos \cup {Nobody}]]

Init ==
    /\ season = [status |-> "PUBLISHED", version |-> 1]
    /\ photo \in [Photos -> {"NONE", "ONLINE"}]
    /\ purgeOf = [p \in Photos |-> Nobody]
    /\ onDisk = {p \in Photos : photo[p] = "ONLINE"}
    /\ pack = [j \in Packages |-> NoPack]
    /\ artifact = {}
    /\ purge = [q \in Purges |-> NoPurge]
    /\ worker = [w \in Workers |-> NoJob]

Online == {p \in Photos : photo[p] = "ONLINE"}
ActivePacks == {j \in Packages : pack[j].status \in Active}
ActivePurges == {q \in Purges : purge[q].status \in Active}
First(S) == CHOOSE x \in S : \A y \in S : x <= y
Unused(rows, ids) == {i \in ids : rows[i].status = "NONE"}

(***************************************************************************)
(* The season and its photographs, as the other services change them.       *)
(***************************************************************************)
Archive ==
    /\ season.status = "PUBLISHED" /\ season.version < MaxVersion
    /\ season' = [status |-> "ARCHIVED", version |-> season.version + 1]
    /\ UNCHANGED <<photo, purgeOf, onDisk, pack, artifact, purge, worker>>

\* The artifact stays on disk: a package that is EXPIRED is never unlinked.
Invalidated ==
    [j \in Packages |-> IF pack[j].status = "READY"
                          THEN [pack[j] EXCEPT !.status = "EXPIRED", !.due = TRUE]
                          ELSE pack[j]]

\* A correction of an archived season: a new version, no ready package left.
Corrected ==
    IF season.status = "ARCHIVED"
      THEN /\ season.version < MaxVersion
           /\ season' = [season EXCEPT !.version = @ + 1]
           /\ pack' = Invalidated
      ELSE UNCHANGED <<season, pack>>

AddPhoto(p) ==
    /\ photo[p] = "NONE"
    /\ photo' = [photo EXCEPT ![p] = "ONLINE"]
    /\ onDisk' = onDisk \cup {p}
    /\ Corrected
    /\ UNCHANGED <<purgeOf, artifact, purge, worker>>

\* Restoring leaves the photograph its purge_job.
RestorePhoto(p) ==
    /\ season.status = "ARCHIVED" /\ photo[p] \in {"PURGED", "MISSING"}
    /\ photo' = [photo EXCEPT ![p] = "ONLINE"]
    /\ onDisk' = onDisk \cup {p}
    /\ Corrected
    /\ UNCHANGED <<purgeOf, artifact, purge, worker>>

LoseFile(p) ==
    /\ onDisk' = onDisk \ {p} /\ onDisk' # onDisk
    /\ UNCHANGED <<season, photo, purgeOf, pack, artifact, purge, worker>>

(***************************************************************************)
(* Ordering a package.                                                      *)
(***************************************************************************)
ExportBlocked(kind) ==
    \/ ActivePacks # {} \/ ActivePurges # {}
    \/ kind = "SEASON_PHOTOS" /\ \E p \in Photos : photo[p] \in {"PURGED", "MISSING"}

RequestExport(kind) ==
    /\ Unused(pack, Packages) # {} /\ ~ExportBlocked(kind)
    /\ pack' = [pack EXCEPT ![First(Unused(pack, Packages))] =
                  [NoPack EXCEPT !.kind = kind, !.status = "QUEUED",
                                 !.version = season.version,
                                 !.final = (season.status = "ARCHIVED")]]
    /\ UNCHANGED <<season, photo, purgeOf, onDisk, artifact, purge, worker>>

(***************************************************************************)
(* Workers.  A lease lapses when nobody refreshes it: the worker is gone.   *)
(***************************************************************************)
Lapsed(row) == row.owner # Nobody /\ worker[row.owner].at = "GONE"
Claimable(rows, ids) ==
    {i \in ids : \/ rows[i].status = "QUEUED"
                 \/ rows[i].status = "BUILDING" /\ Lapsed(rows[i])}

Claim(w) ==
    /\ worker[w].at = "IDLE"
    /\ LET packs  == Claimable(pack, Packages)
           purges == Claimable(purge, Purges)
       IN \/ /\ packs # {}
             /\ pack' = [pack EXCEPT ![First(packs)].status = "BUILDING",
                                     ![First(packs)].owner = w]
             /\ worker' = [worker EXCEPT
                  ![w] = [NoJob EXCEPT !.at = "CLAIMED", !.job = First(packs)]]
             /\ UNCHANGED purge
          \/ /\ packs = {} /\ purges # {}
             /\ purge' = [purge EXCEPT ![First(purges)].status = "BUILDING",
                                       ![First(purges)].owner = w]
             /\ worker' = [worker EXCEPT
                  ![w] = [NoJob EXCEPT !.at = "CLAIMED", !.job = First(purges)]]
             /\ UNCHANGED pack
    /\ UNCHANGED <<season, photo, purgeOf, onDisk, artifact>>

Die(w) ==
    /\ worker[w].at # "IDLE" /\ worker[w].at # "GONE"
    /\ worker' = [worker EXCEPT ![w].at = "GONE"]
    /\ UNCHANGED <<season, photo, purgeOf, onDisk, pack, artifact, purge>>

\* A new process under another name; leases of the old one have lapsed or were taken over.
Respawn(w) ==
    /\ worker[w].at = "GONE"
    /\ \A j \in Packages : ~(pack[j].status = "BUILDING" /\ pack[j].owner = w)
    /\ \A q \in Purges : ~(purge[q].status = "BUILDING" /\ purge[q].owner = w)
    /\ worker' = [worker EXCEPT ![w] = NoJob]
    /\ UNCHANGED <<season, photo, purgeOf, onDisk, pack, artifact, purge>>

(***************************************************************************)
(* Building a package: one snapshot, refused when the season has moved on;  *)
(* every photograph the snapshot shows must be there and match.             *)
(***************************************************************************)
BuildFails(w) ==
    /\ pack' = [pack EXCEPT ![worker[w].job].status = "FAILED", ![worker[w].job].owner = Nobody]
    /\ worker' = [worker EXCEPT ![w] = NoJob]

TakeSnapshot(w) ==
    /\ worker[w].at = "CLAIMED" /\ worker[w].job \in Packages
    /\ IF pack[worker[w].job].version = season.version
         THEN /\ worker' = [worker EXCEPT ![w].at = "SNAPSHOT", ![w].sees = Online]
              /\ UNCHANGED pack
         ELSE BuildFails(w)
    /\ UNCHANGED <<season, photo, purgeOf, onDisk, artifact, purge>>

FinishPackage(w) ==
    /\ worker[w].at = "SNAPSHOT"
    /\ LET j == worker[w].job
           whole == pack[j].kind = "SEASON_PHOTOS" => worker[w].sees \subseteq onDisk
       IN \/ /\ whole
             /\ pack' = [pack EXCEPT ![j].status = "READY", ![j].keyed = TRUE,
                                     ![j].holds = IF pack[j].kind = "SEASON_PHOTOS"
                                                    THEN worker[w].sees ELSE {},
                                     ![j].due = FALSE,
                                     ![j].owner = Nobody]
             /\ artifact' = artifact \cup {j}
             /\ worker' = [worker EXCEPT ![w] = NoJob]
          \/ BuildFails(w) /\ UNCHANGED artifact
    /\ UNCHANGED <<season, photo, purgeOf, onDisk, purge>>

(***************************************************************************)
(* What becomes of a package.                                               *)
(***************************************************************************)
DayPasses(j) ==
    /\ pack[j].status = "READY" /\ ~pack[j].due
    /\ pack' = [pack EXCEPT ![j].due = TRUE]
    /\ UNCHANGED <<season, photo, purgeOf, onDisk, artifact, purge, worker>>

Download(j) ==
    /\ pack[j].status = "READY" /\ pack[j].keyed /\ j \in artifact
    /\ ~pack[j].downloaded
    /\ pack' = [pack EXCEPT ![j].downloaded = TRUE]
    /\ UNCHANGED <<season, photo, purgeOf, onDisk, artifact, purge, worker>>

\* discard_archive: the artifact first, then the row, unless it is gone already.
DiscardedAs(j, status) ==
    /\ pack[j].status \notin {"NONE", "DISCARDED", "EXPIRED"}
    /\ artifact' = artifact \ (IF pack[j].keyed THEN {j} ELSE {})
    /\ pack' = [pack EXCEPT ![j].status = status, ![j].keyed = FALSE, ![j].due = FALSE]

ConfirmSaved(j) ==
    /\ pack[j].status = "READY" /\ pack[j].downloaded
    /\ artifact' = artifact \ {j}
    /\ \/ pack' = [pack EXCEPT ![j].status = "DISCARDED", ![j].saved = TRUE,
                               ![j].keyed = FALSE, ![j].due = FALSE]
       \/ UNCHANGED pack    \* the transaction is lost after the deletion
    /\ UNCHANGED <<season, photo, purgeOf, onDisk, purge, worker>>

DiscardPackage(j) ==
    /\ DiscardedAs(j, "DISCARDED")
    /\ UNCHANGED <<season, photo, purgeOf, onDisk, purge, worker>>

CleanUp(j) ==
    /\ pack[j].status = "READY" /\ pack[j].due
    /\ DiscardedAs(j, "EXPIRED")
    /\ UNCHANGED <<season, photo, purgeOf, onDisk, purge, worker>>

(***************************************************************************)
(* Ordering a purge.  Unlike an export it does not look for active jobs.    *)
(***************************************************************************)
CompleteOnce(j, kind) ==
    /\ pack[j].kind = kind /\ pack[j].final
    /\ \/ pack[j].status = "READY" /\ ~pack[j].due /\ j \in artifact
       \/ pack[j].status = "DISCARDED" /\ pack[j].saved

Complete(j, kind) ==
    /\ pack[j].kind = kind /\ pack[j].final /\ pack[j].version = season.version
    /\ \/ pack[j].status = "READY" /\ ~pack[j].due /\ j \in artifact
       \/ pack[j].status = "DISCARDED" /\ pack[j].saved

RequestPurge(q, data, photos) ==
    /\ q \in Unused(purge, Purges) /\ q = First(Unused(purge, Purges))
    /\ season.status = "ARCHIVED"
    /\ Complete(data, "SEASON_DATA") /\ Complete(photos, "SEASON_PHOTOS")
    /\ purge' = [purge EXCEPT ![q] = [status |-> "QUEUED", data |-> data,
                                      photos |-> photos, owner |-> Nobody]]
    /\ photo' = [p \in Photos |-> IF p \in Online THEN "PURGE_PENDING" ELSE photo[p]]
    /\ purgeOf' = [p \in Photos |-> IF p \in Online THEN q ELSE purgeOf[p]]
    /\ UNCHANGED <<season, onDisk, pack, artifact, worker>>

RetryPurge(q) ==
    /\ purge[q].status = "FAILED" /\ season.status = "ARCHIVED"
    /\ ActivePurges = {} /\ ActivePacks = {}
    /\ purge' = [purge EXCEPT ![q].status = "QUEUED"]
    /\ UNCHANGED <<season, photo, purgeOf, onDisk, pack, artifact, worker>>

(***************************************************************************)
(* Purging: the unfinished photographs are listed once, then file by file   *)
(* comes the deletion and after it the row.                                 *)
(***************************************************************************)
ListPhotos(w) ==
    /\ worker[w].at = "CLAIMED" /\ worker[w].job \in Purges
    /\ worker' = [worker EXCEPT ![w].at = "PURGING",
          ![w].sees = {p \in Photos : /\ purgeOf[p] = worker[w].job
                                      /\ photo[p] \notin {"PURGED", "MISSING"}}]
    /\ UNCHANGED <<season, photo, purgeOf, onDisk, pack, artifact, purge>>

DeletePhoto(w, p) ==
    /\ worker[w].at = "PURGING" /\ p \in worker[w].sees
    /\ onDisk' = onDisk \ {p}
    /\ worker' = [worker EXCEPT ![w].at = IF p \in onDisk THEN "DELETED" ELSE "ABSENT",
                                ![w].sees = @ \ {p}, ![w].photo = p]
    /\ UNCHANGED <<season, photo, purgeOf, pack, artifact, purge>>

NotePhoto(w) ==
    /\ worker[w].at \in {"DELETED", "ABSENT"}
    /\ photo' = [photo EXCEPT ![worker[w].photo] =
                    IF worker[w].at = "DELETED" THEN "PURGED" ELSE "MISSING"]
    /\ worker' = [worker EXCEPT ![w].at = "PURGING", ![w].photo = Nobody]
    /\ UNCHANGED <<season, purgeOf, onDisk, pack, artifact, purge>>

\* The photo package is discarded with the purge, or left to expire after a crash.
FinishPurge(w) ==
    /\ worker[w].at = "PURGING" /\ worker[w].sees = {}
    /\ purge' = [purge EXCEPT ![worker[w].job].status = "COMPLETED",
                              ![worker[w].job].owner = Nobody]
    /\ worker' = [worker EXCEPT ![w] = NoJob]
    /\ \/ DiscardedAs(purge[worker[w].job].photos, "DISCARDED")
       \/ UNCHANGED <<pack, artifact>>
    /\ UNCHANGED <<season, photo, purgeOf, onDisk>>

FailPurge(w) ==
    /\ worker[w].at \in {"PURGING", "DELETED", "ABSENT"}
    /\ purge' = [purge EXCEPT ![worker[w].job].status = "FAILED",
                              ![worker[w].job].owner = Nobody]
    /\ worker' = [worker EXCEPT ![w] = NoJob]
    /\ UNCHANGED <<season, photo, purgeOf, onDisk, pack, artifact>>

WorkerStep(w) ==
    \/ Claim(w) \/ TakeSnapshot(w) \/ FinishPackage(w)
    \/ ListPhotos(w) \/ \E p \in Photos : DeletePhoto(w, p)
    \/ NotePhoto(w) \/ FinishPurge(w) \/ FailPurge(w)

(* What the endpoints of api_admin_archives.py offer: each runs one command *)
(* of the service, and an error changes nothing.                            *)
PackageCommand(j) == Download(j) \/ ConfirmSaved(j) \/ DiscardPackage(j)
PurgeCommand(q) ==
  RetryPurge(q) \/ \E data, photos \in Packages : RequestPurge(q, data, photos)

Next ==
    \/ Archive
    \/ \E p \in Photos : AddPhoto(p) \/ RestorePhoto(p) \/ LoseFile(p)
    \/ \E kind \in Kinds : RequestExport(kind)
    \/ \E w \in Workers : WorkerStep(w) \/ Die(w) \/ Respawn(w)
    \/ \E j \in Packages : DayPasses(j) \/ PackageCommand(j) \/ CleanUp(j)
    \/ \E q \in Purges : PurgeCommand(q)

Spec == Init /\ [][Next]_vars

-----------------------------------------------------------------------------
(* Nothing is deleted that is not in a final package of photographs which   *)
(* was complete when the purge was accepted: whatever is marked for removal *)
(* or removed is held by the package its purge names, through restored and  *)
(* added photographs, corrections of the archive between package and purge, *)
(* dead workers and resumed purges (media_purge_preview,                    *)
(* process_media_purge_job).                                                *)
PurgedWasPackaged ==
    \A p \in Photos :
        photo[p] \in {"PURGE_PENDING", "PURGED"} =>
            /\ purgeOf[p] # Nobody
            /\ LET j == purge[purgeOf[p]].photos
               IN pack[j].final /\ p \in pack[j].holds
=============================================================================
