---------------------------- MODULE PhotographProofs ----------------------------
(***************************************************************************)
(* Proofs about what happens to the photographs of a season: packages and  *)
(* purges, the full system backup behind the write fence (both of          *)
(* services/archive_exports.py), and the uploads of services/game_media.py.*)
(* All three are steps of several workers and commands that hold no lock   *)
(* together, so each proof is an inductive invariant over all              *)
(* interleavings, with one lemma per kind of step.  Each is a system of    *)
(* its own: that two instances have a variable of one name, the season or  *)
(* the files, relates nothing.                                             *)
(***************************************************************************)
EXTENDS ArchiveExports, FiniteSets, FiniteSetTheorems, TLAPS


(* Packages, purges and workers are different things, ids of jobs are      *)
(* numbers and so any of them have a first one, and Nobody is none of      *)
(* them.                                                                   *)
Setup ==
  /\ \A S \in (SUBSET Packages) \ {{}} : \E x \in S : \A y \in S : x <= y
  /\ \A S \in (SUBSET Purges) \ {{}} : \E x \in S : \A y \in S : x <= y
  /\ Packages \cap Purges = {}
  /\ Nobody \notin Packages \cup Purges \cup Photos
  /\ MaxVersion \in Nat \ {0}

PackRow ==
  [kind : Kinds, version : 0 .. MaxVersion, final : BOOLEAN,
   status : Active \cup {"NONE", "READY", "FAILED", "EXPIRED", "DISCARDED"},
   holds : SUBSET Photos, keyed : BOOLEAN, due : BOOLEAN,
   downloaded : BOOLEAN, saved : BOOLEAN, owner : Workers \cup {Nobody}]
PurgeRow ==
  [status : Active \cup {"NONE", "COMPLETED", "FAILED"},
   data : Packages \cup {Nobody}, photos : Packages \cup {Nobody},
   owner : Workers \cup {Nobody}]
JobRow ==
  [at : {"IDLE", "GONE", "CLAIMED", "SNAPSHOT", "PURGING", "DELETED", "ABSENT"},
   job : Packages \cup Purges \cup {Nobody},
   sees : SUBSET Photos, photo : Photos \cup {Nobody}]
SeasonRow == [status : {"PUBLISHED", "ARCHIVED"}, version : 1 .. MaxVersion]
Statuses == {"NONE", "ONLINE", "PURGE_PENDING", "PURGED", "MISSING"}

(* A worker that works on a package, or on a purge. *)
Builds(w, j) == worker[w].at \in {"CLAIMED", "SNAPSHOT"} /\ worker[w].job = j
Purging(w) == worker[w].at \in {"PURGING", "DELETED", "ABSENT"}

(* A package of all photographs that is final for the present version.     *)
IsFinal(j) ==
  /\ pack[j].final /\ pack[j].kind = "SEASON_PHOTOS" /\ pack[j].version = season.version

(* Workers have jobs that were ordered, and purge what was marked once. *)
WorkersKnow ==
  \A w \in Workers :
    /\ worker[w].at = "SNAPSHOT" => worker[w].job \in Packages
    /\ worker[w].at = "CLAIMED" \/ Purging(w) =>
         worker[w].job \in Packages \cup Purges
    /\ Purging(w) => worker[w].job \in Purges
    /\ (worker[w].at = "CLAIMED" \/ Purging(w)) /\ worker[w].job \in Purges =>
         purge[worker[w].job].status # "NONE"
    /\ Purging(w) => \A p \in worker[w].sees : purgeOf[p] \in Purges
    /\ worker[w].at \in {"DELETED", "ABSENT"} =>
         worker[w].photo \in Photos /\ purgeOf[worker[w].photo] \in Purges

(* Results are written without the worker's token, but nobody else works   *)
(* on a package, and one that was handed out as finished is not built.     *)
BuildersAlone ==
  \A w \in Workers, j \in Packages : Builds(w, j) =>
    /\ pack[j].status \in {"BUILDING", "DISCARDED"} /\ ~ pack[j].saved
    /\ pack[j].status = "BUILDING" => pack[j].owner = w
    /\ \A v \in Workers : Builds(v, j) => v = w
NotYetSaved == \A j \in Packages : pack[j].status \in Active => ~ pack[j].saved

(* A final package that was finished at the present version holds every    *)
(* photograph online, and so does the snapshot it is built from.           *)
FinalHoldsAll ==
  /\ \A j \in Packages :
       /\ pack[j].final => season.status = "ARCHIVED"
       /\ pack[j].version <= season.version
       /\ (pack[j].status = "READY" \/ pack[j].saved) /\ IsFinal(j) => Online \subseteq pack[j].holds
  /\ \A w \in Workers :
       worker[w].at = "SNAPSHOT" /\ IsFinal(worker[w].job) => Online \subseteq worker[w].sees

(* A package that a purge names is finished for good. *)
UsedIsFinished ==
  \A q \in Purges : purge[q].status # "NONE" =>
    /\ purge[q].photos \in Packages /\ pack[purge[q].photos].final
    /\ pack[purge[q].photos].status \in {"READY", "EXPIRED", "DISCARDED"}
    /\ \A w \in Workers : ~ Builds(w, purge[q].photos)

(* Whatever was marked by a purge, even if it was restored since, is held  *)
(* by the package of that purge.                                           *)
MarkedIsHeld ==
  \A p \in Photos :
    /\ photo[p] \in {"PURGE_PENDING", "PURGED"} => purgeOf[p] \in Purges
    /\ purgeOf[p] \in Purges =>
         /\ purge[purgeOf[p]].status # "NONE"
         /\ p \in pack[purge[purgeOf[p]].photos].holds

ArchInv ==
  /\ TypeOK /\ WorkersKnow /\ BuildersAlone /\ NotYetSaved /\ FinalHoldsAll /\ UsedIsFinished
  /\ MarkedIsHeld

LEMMA TypeParts ==
  ASSUME TypeOK
  PROVE  /\ season \in SeasonRow /\ photo \in [Photos -> Statuses]
         /\ purgeOf \in [Photos -> Purges \cup {Nobody}] /\ onDisk \subseteq Photos
         /\ pack \in [Packages -> PackRow] /\ artifact \subseteq Packages
         /\ purge \in [Purges -> PurgeRow] /\ worker \in [Workers -> JobRow]
  BY DEF TypeOK, SeasonRow, Statuses, PackRow, PurgeRow, JobRow

LEMMA PartsType ==
  ASSUME (season \in SeasonRow)', (photo \in [Photos -> Statuses])',
         (purgeOf \in [Photos -> Purges \cup {Nobody}])', (onDisk \subseteq Photos)',
         (pack \in [Packages -> PackRow])', (artifact \subseteq Packages)',
         (purge \in [Purges -> PurgeRow])', (worker \in [Workers -> JobRow])'
  PROVE  TypeOK'
  BY DEF TypeOK, SeasonRow, Statuses, PackRow, PurgeRow, JobRow

LEMMA FirstIsMember ==
  ASSUME Setup
  PROVE  /\ \A S \in (SUBSET Packages) \ {{}} : First(S) \in S
         /\ \A S \in (SUBSET Purges) \ {{}} : First(S) \in S
  BY DEF Setup, First

LEMMA NoRows ==
  ASSUME Setup
  PROVE  NoPack \in PackRow /\ NoPurge \in PurgeRow /\ NoJob \in JobRow
  BY DEF Setup, NoPack, NoPurge, NoJob, PackRow, PurgeRow, JobRow, Kinds

-----------------------------------------------------------------------------
(* Rows. *)

(* What a package is is settled when it is finished.                       *)
SameFacts(old, new) ==
  /\ new.kind = old.kind /\ new.version = old.version /\ new.final = old.final
  /\ new.holds = old.holds

(* What anybody but its worker may make of a package. *)
Worn(old, new) ==
  /\ new \in PackRow /\ SameFacts(old, new) /\ new.owner = old.owner
  /\ new.saved => old.saved \/ old.status = "READY"
  /\ \/ new.status = old.status
     \/ old.status # "NONE" /\ new.status = "DISCARDED"
     \/ old.status = "READY" /\ new.status = "EXPIRED"

PacksWorn == pack' \in [Packages -> PackRow] /\ \A j \in Packages : Worn(pack[j], pack'[j])

LEMMA WornRows ==
  ASSUME NEW old \in PackRow
  PROVE  /\ Worn(old, old)
         /\ Worn(old, [old EXCEPT !.due = TRUE])
         /\ Worn(old, [old EXCEPT !.downloaded = TRUE])
         /\ old.status = "READY" => Worn(old, [old EXCEPT !.status = "EXPIRED", !.due = TRUE])
         /\ old.status = "READY" =>
              Worn(old, [old EXCEPT !.status = "DISCARDED", !.saved = TRUE, !.keyed = FALSE,
                                    !.due = FALSE])
         /\ \A status \in {"DISCARDED", "EXPIRED"} :
              (status = "DISCARDED" /\ old.status # "NONE") \/ old.status = "READY" =>
                Worn(old, [old EXCEPT !.status = status, !.keyed = FALSE, !.due = FALSE])
  <1> USE DEF PackRow, Active, SameFacts, Worn
  <1>1. Worn(old, old)
    OBVIOUS
  <1>2. Worn(old, [old EXCEPT !.due = TRUE])
    OBVIOUS
  <1>3. Worn(old, [old EXCEPT !.downloaded = TRUE])
    OBVIOUS
  <1>4. ASSUME old.status = "READY"
        PROVE  Worn(old, [old EXCEPT !.status = "EXPIRED", !.due = TRUE])
    BY <1>4
  <1>5. ASSUME old.status = "READY"
        PROVE  Worn(old, [old EXCEPT !.status = "DISCARDED", !.saved = TRUE, !.keyed = FALSE,
                                     !.due = FALSE])
    BY <1>5
  <1>6. ASSUME NEW status \in {"DISCARDED", "EXPIRED"},
               (status = "DISCARDED" /\ old.status # "NONE") \/ old.status = "READY"
        PROVE  Worn(old, [old EXCEPT !.status = status, !.keyed = FALSE, !.due = FALSE])
    BY <1>6
  <1> HIDE DEF Worn
  <1>q. QED BY <1>1, <1>2, <1>3, <1>4, <1>5, <1>6

LEMMA OneWorn ==
  ASSUME TypeOK, NEW j \in Packages, NEW new, Worn(pack[j], new), pack' = [pack EXCEPT ![j] = new]
  PROVE  PacksWorn
  <1>1. pack \in [Packages -> PackRow]
    BY TypeParts
  <1>q. QED BY <1>1, WornRows DEF PacksWorn, Worn

LEMMA SameWorn == ASSUME TypeOK, pack' = pack PROVE PacksWorn
  BY TypeParts, WornRows DEF PacksWorn

-----------------------------------------------------------------------------
(* Steps that wear packages and leave the rest of the jobs alone. *)

LEMMA WearingKeeps ==
  ASSUME ArchInv, PacksWorn, UNCHANGED <<season, photo, purgeOf, onDisk, purge, worker>>,
         artifact' \subseteq Packages
  PROVE  ArchInv'
  <1>1. TypeOK'
    BY TypeParts, PartsType DEF ArchInv, PacksWorn
  <1>2. WorkersKnow'
    BY DEF ArchInv, WorkersKnow, Purging
  <1>3. BuildersAlone' /\ NotYetSaved'
    BY DEF ArchInv, BuildersAlone, NotYetSaved, Builds, PacksWorn, Worn, PackRow, Active
  <1>4. FinalHoldsAll'
    BY DEF ArchInv, FinalHoldsAll, WorkersKnow, IsFinal, Online, PacksWorn, Worn, SameFacts, PackRow
  <1>5. UsedIsFinished'
    BY DEF ArchInv, UsedIsFinished, Builds, PacksWorn, Worn, SameFacts
  <1>6. MarkedIsHeld'
    BY DEF ArchInv, MarkedIsHeld, UsedIsFinished, PacksWorn, Worn, SameFacts
  <1>q. QED BY <1>1, <1>2, <1>3, <1>4, <1>5, <1>6 DEF ArchInv

LEMMA PackageCommands ==
  ASSUME ArchInv, NEW j \in Packages, DayPasses(j) \/ PackageCommand(j) \/ CleanUp(j)
  PROVE  ArchInv'
  <1>1. /\ UNCHANGED <<season, photo, purgeOf, onDisk, purge, worker>>
        /\ artifact' \subseteq Packages
    BY DEF ArchInv, TypeOK, DayPasses, PackageCommand, CleanUp, Download, ConfirmSaved,
       DiscardPackage, DiscardedAs
  <1>2. pack[j] \in PackRow /\ pack \in [Packages -> PackRow]
    BY TypeParts DEF ArchInv
  <1>3. PacksWorn
    <2>1. CASE pack' = pack
      BY <2>1, SameWorn DEF ArchInv
    <2>2. CASE DayPasses(j)
      BY <1>2, <2>2, WornRows, OneWorn DEF ArchInv, DayPasses
    <2>3. CASE Download(j)
      BY <1>2, <2>3, WornRows, OneWorn DEF ArchInv, Download
    <2>4. CASE ConfirmSaved(j)
      <3> DEFINE new == [pack[j] EXCEPT !.status = "DISCARDED", !.saved = TRUE, !.keyed = FALSE, !.due = FALSE]
      <3>1. pack' = pack \/ pack' = [pack EXCEPT ![j] = new]
        BY <1>2, <2>4 DEF ConfirmSaved
      <3>2. pack' # pack => Worn(pack[j], new)
        BY <1>2, <2>4, WornRows DEF ConfirmSaved
      <3> HIDE DEF new
      <3>q. QED BY <2>1, <3>1, <3>2, OneWorn DEF ArchInv
    <2>5. CASE DiscardPackage(j)
      <3> DEFINE new == [pack[j] EXCEPT !.status = "DISCARDED", !.keyed = FALSE, !.due = FALSE]
      <3>1. pack' = [pack EXCEPT ![j] = new]
        BY <1>2, <2>5 DEF DiscardPackage, DiscardedAs
      <3>2. Worn(pack[j], new)
        BY <1>2, <2>5, WornRows DEF DiscardPackage, DiscardedAs
      <3> HIDE DEF new
      <3>q. QED BY <2>1, <3>1, <3>2, OneWorn DEF ArchInv
    <2>6. CASE CleanUp(j)
      <3> DEFINE new == [pack[j] EXCEPT !.status = "EXPIRED", !.keyed = FALSE, !.due = FALSE]
      <3>1. pack' = [pack EXCEPT ![j] = new]
        BY <1>2, <2>6 DEF CleanUp, DiscardedAs
      <3>2. Worn(pack[j], new)
        BY <1>2, <2>6, WornRows DEF CleanUp, DiscardedAs
      <3> HIDE DEF new
      <3>q. QED BY <2>1, <3>1, <3>2, OneWorn DEF ArchInv
    <2>q. QED BY <2>2, <2>3, <2>4, <2>5, <2>6 DEF PackageCommand
  <1>q. QED BY <1>1, <1>3, WearingKeeps

(* The season moves on: a photograph comes online in an archived season    *)
(* only with a new version, which no package was made for.                 *)
LEMMA SeasonKeeps ==
  ASSUME ArchInv, Setup, PacksWorn, UNCHANGED <<purgeOf, purge, worker, artifact>>,
         season' \in SeasonRow, season'.version >= season.version,
         season.status = "ARCHIVED" => season'.status = "ARCHIVED",
         photo' \in [Photos -> Statuses], onDisk' \subseteq Photos,
         \A p \in Photos : photo'[p] # photo[p] =>
           /\ photo'[p] = "ONLINE"
           /\ season'.version > season.version \/ season.status = "PUBLISHED"
  PROVE  ArchInv'
  <1>1. TypeOK'
    BY TypeParts, PartsType DEF ArchInv, PacksWorn
  <1>2. WorkersKnow'
    BY DEF ArchInv, WorkersKnow, Purging
  <1>3. BuildersAlone' /\ NotYetSaved'
    BY DEF ArchInv, BuildersAlone, NotYetSaved, Builds, PacksWorn, Worn, PackRow, Active
  <1>4. /\ season.version \in Nat /\ season'.version \in Nat
        /\ \A j \in Packages : pack[j].version \in Nat
    BY TypeParts DEF ArchInv, SeasonRow, PackRow, Setup
  <1>5. ASSUME NEW j \in Packages
        PROVE  /\ pack'[j].final => season'.status = "ARCHIVED"
               /\ pack'[j].version <= season'.version
               /\ IsFinal(j)' => IsFinal(j) /\ Online' \subseteq Online
    <2>1. SameFacts(pack[j], pack'[j])
      BY DEF PacksWorn, Worn
    <2>2. pack[j].final => season.status = "ARCHIVED"
      BY DEF ArchInv, FinalHoldsAll
    <2>3. pack[j].version <= season.version
      BY DEF ArchInv, FinalHoldsAll
    <2>q. QED BY <1>4, <2>1, <2>2, <2>3 DEF SameFacts, IsFinal, Online
  <1>6. FinalHoldsAll'
    <2>1. ASSUME NEW j \in Packages, (pack[j].status = "READY" \/ pack[j].saved)', IsFinal(j)'
          PROVE  Online' \subseteq pack'[j].holds
      BY <1>5, <2>1 DEF ArchInv, FinalHoldsAll, PacksWorn, Worn, SameFacts
    <2>2. ASSUME NEW w \in Workers, worker[w].at = "SNAPSHOT", IsFinal(worker[w].job)'
          PROVE  Online' \subseteq worker[w].sees
      <3>1. PICK j \in Packages : j = worker[w].job
        BY <2>2 DEF ArchInv, WorkersKnow
      <3>2. IsFinal(j)'
        BY <2>2, <3>1
      <3>q. QED BY <1>5, <2>2, <3>1, <3>2 DEF ArchInv, FinalHoldsAll
    <2>q. QED BY <1>5, <2>1, <2>2 DEF FinalHoldsAll
  <1>7. UsedIsFinished'
    BY DEF ArchInv, UsedIsFinished, Builds, PacksWorn, Worn, SameFacts
  <1>8. MarkedIsHeld'
    BY DEF ArchInv, MarkedIsHeld, UsedIsFinished, PacksWorn, Worn, SameFacts
  <1>q. QED BY <1>1, <1>2, <1>3, <1>6, <1>7, <1>8 DEF ArchInv

LEMMA SeasonMoves ==
  ASSUME ArchInv, Setup,
         Archive \/ \E p \in Photos : AddPhoto(p) \/ RestorePhoto(p) \/ LoseFile(p)
  PROVE  ArchInv'
  <1>1. /\ season \in SeasonRow /\ season.version \in Nat /\ season.version >= 1
        /\ photo \in [Photos -> Statuses] /\ onDisk \subseteq Photos
        /\ pack \in [Packages -> PackRow]
    BY TypeParts DEF ArchInv, SeasonRow, Setup
  <1>2. CASE Archive
    <2>1. /\ season' \in SeasonRow /\ season'.version = season.version + 1
          /\ season'.status = "ARCHIVED"
      BY <1>1, <1>2 DEF Archive, SeasonRow, Setup
    <2>2. PacksWorn
      BY <1>2, SameWorn DEF Archive, ArchInv
    <2>q. QED BY <1>1, <1>2, <2>1, <2>2, SeasonKeeps DEF Archive
  <1>3. ASSUME Corrected
        PROVE  /\ season' \in SeasonRow /\ season'.status = season.status
               /\ season'.version >= season.version
               /\ season'.version > season.version \/ season.status = "PUBLISHED"
               /\ PacksWorn
    <2>1. CASE season.status = "ARCHIVED"
      <3>1. season' \in SeasonRow /\ season'.status = season.status /\ season'.version = season.version + 1
        BY <1>1, <1>3, <2>1 DEF Corrected, SeasonRow, Setup
      <3>2. pack' = Invalidated
        BY <1>3, <2>1 DEF Corrected
      <3>3. PacksWorn
        <4>1. ASSUME NEW j \in Packages
              PROVE  Worn(pack[j], Invalidated[j]) /\ Invalidated[j] \in PackRow
          BY <1>1, WornRows DEF Invalidated, Worn
        <4>2. Invalidated \in [Packages -> PackRow]
          BY <4>1 DEF Invalidated
        <4>q. QED BY <3>2, <4>1, <4>2 DEF PacksWorn
      <3>q. QED BY <1>1, <3>1, <3>3
    <2>2. CASE season.status # "ARCHIVED"
      BY <1>1, <1>3, <2>2, SameWorn DEF Corrected, ArchInv, SeasonRow
    <2>q. QED BY <2>1, <2>2
  <1>4. ASSUME NEW p \in Photos, AddPhoto(p) \/ RestorePhoto(p)
        PROVE  ArchInv'
    <2>1. /\ photo' = [photo EXCEPT ![p] = "ONLINE"] /\ onDisk' = onDisk \cup {p} /\ Corrected
          /\ UNCHANGED <<purgeOf, artifact, purge, worker>>
      BY <1>4 DEF AddPhoto, RestorePhoto
    <2>2. photo' \in [Photos -> Statuses] /\ onDisk' \subseteq Photos
      BY <1>1, <2>1 DEF Statuses
    <2>3. \A x \in Photos : photo'[x] # photo[x] => photo'[x] = "ONLINE"
      BY <1>1, <2>1
    <2>q. QED BY <1>3, <2>1, <2>2, <2>3, SeasonKeeps
  <1>5. ASSUME NEW p \in Photos, LoseFile(p)
        PROVE  ArchInv'
    <2>1. PacksWorn
      BY <1>5, SameWorn DEF LoseFile, ArchInv
    <2>q. QED BY <1>1, <1>5, <2>1, SeasonKeeps DEF LoseFile
  <1>q. QED BY <1>2, <1>4, <1>5

-----------------------------------------------------------------------------
(* Steps that order, build and give up packages. *)

LEMMA ExportKeeps ==
  ASSUME ArchInv, Setup, NEW kind \in Kinds, RequestExport(kind)
  PROVE  ArchInv'
  <1>1. /\ pack \in [Packages -> PackRow] /\ season \in SeasonRow
        /\ UNCHANGED <<season, photo, purgeOf, onDisk, artifact, purge, worker>>
    BY TypeParts DEF ArchInv, RequestExport
  <1>2. PICK j \in Packages : j = First(Unused(pack, Packages)) /\ pack[j].status = "NONE"
    BY FirstIsMember DEF RequestExport, Unused
  <1> DEFINE new == [NoPack EXCEPT !.kind = kind, !.status = "QUEUED", !.version = season.version,
                                   !.final = (season.status = "ARCHIVED")]
  <1>3. pack' = [pack EXCEPT ![j] = new]
    BY <1>2 DEF RequestExport
  <1>4. /\ new \in PackRow /\ new.status = "QUEUED" /\ ~ new.saved
        /\ new.version = season.version /\ (new.final => season.status = "ARCHIVED")
    <2>1. NoPack \in PackRow /\ ~ NoPack.saved
      BY NoRows DEF NoPack
    <2>2. /\ season.version \in 0 .. MaxVersion /\ (season.status = "ARCHIVED") \in BOOLEAN
          /\ kind \in Kinds
      BY <1>1 DEF SeasonRow, Setup
    <2>3. new \in PackRow
      BY <2>1, <2>2 DEF PackRow, Active
    <2>q. QED BY <2>1, <2>2, <2>3 DEF PackRow
  <1> HIDE DEF new
  <1>5. pack' \in [Packages -> PackRow] /\ pack'[j] = new /\ \A i \in Packages \ {j} : pack'[i] = pack[i]
    BY <1>1, <1>3, <1>4
  <1>6. TypeOK'
    BY <1>1, <1>5, TypeParts, PartsType DEF ArchInv
  <1>7. WorkersKnow'
    BY <1>1 DEF ArchInv, WorkersKnow, Purging
  <1>8. \A w \in Workers : ~ Builds(w, j)
    BY <1>2 DEF ArchInv, BuildersAlone
  <1>9. BuildersAlone' /\ NotYetSaved'
    BY <1>1, <1>4, <1>5, <1>8 DEF ArchInv, BuildersAlone, NotYetSaved, Builds
  <1>10. FinalHoldsAll'
    <2>1. ASSUME NEW i \in Packages
          PROVE  /\ pack'[i].final => season.status = "ARCHIVED"
                 /\ pack'[i].version <= season.version
                 /\ (pack'[i].status = "READY" \/ pack'[i].saved) /\ IsFinal(i)' =>
                      Online \subseteq pack'[i].holds
      <3>1. CASE i = j
        BY <1>1, <1>4, <1>5, <3>1 DEF SeasonRow, Setup
      <3>2. CASE i # j
        BY <1>1, <1>5, <3>2 DEF ArchInv, FinalHoldsAll, IsFinal
      <3>q. QED BY <3>1, <3>2
    <2>2. ASSUME NEW w \in Workers, worker[w].at = "SNAPSHOT", IsFinal(worker[w].job)'
          PROVE  Online \subseteq worker[w].sees
      <3>1. PICK i \in Packages : i = worker[w].job
        BY <2>2 DEF ArchInv, WorkersKnow
      <3>2. i # j
        BY <1>8, <2>2, <3>1 DEF Builds
      <3>3. IsFinal(i)
        BY <1>1, <1>5, <2>2, <3>1, <3>2 DEF IsFinal
      <3>q. QED BY <2>2, <3>1, <3>3 DEF ArchInv, FinalHoldsAll
    <2>q. QED BY <1>1, <2>1, <2>2 DEF FinalHoldsAll, Online
  <1>11. UsedIsFinished' /\ MarkedIsHeld'
    <2>1. \A q \in Purges : purge[q].status # "NONE" => purge[q].photos # j
      BY <1>2 DEF ArchInv, UsedIsFinished
    <2>q. QED BY <1>1, <1>5, <2>1 DEF ArchInv, UsedIsFinished, MarkedIsHeld, Builds
  <1>q. QED BY <1>6, <1>7, <1>9, <1>10, <1>11 DEF ArchInv

(* A worker lets go of its job: dies, starts anew or has finished.         *)
LEMMA RestingKeeps ==
  ASSUME ArchInv, Setup, NEW w \in Workers, NEW job \in JobRow, job.at \in {"IDLE", "GONE"},
         worker' = [worker EXCEPT ![w] = job],
         UNCHANGED <<season, photo, purgeOf, onDisk, artifact, pack, purge>>
  PROVE  ArchInv'
  <1>1. /\ worker' \in [Workers -> JobRow] /\ worker'[w] = job
        /\ \A v \in Workers \ {w} : worker'[v] = worker[v]
    BY TypeParts DEF ArchInv
  <1>2. TypeOK'
    BY <1>1, TypeParts, PartsType DEF ArchInv
  <1>3. \A v \in Workers : worker'[v].at \in {"IDLE", "GONE"} \/ worker'[v] = worker[v]
    BY <1>1
  <1>4. WorkersKnow'
    BY <1>3 DEF ArchInv, WorkersKnow, Purging
  <1>5. BuildersAlone' /\ NotYetSaved'
    BY <1>3 DEF ArchInv, BuildersAlone, NotYetSaved, Builds
  <1>6. FinalHoldsAll'
    BY <1>3 DEF ArchInv, FinalHoldsAll, IsFinal, Online
  <1>7. UsedIsFinished' /\ MarkedIsHeld'
    BY <1>3 DEF ArchInv, UsedIsFinished, MarkedIsHeld, Builds
  <1>q. QED BY <1>2, <1>4, <1>5, <1>6, <1>7 DEF ArchInv

LEMMA DyingKeeps ==
  ASSUME ArchInv, Setup, NEW w \in Workers, Die(w) \/ Respawn(w)
  PROVE  ArchInv'
  <1>1. worker[w] \in JobRow /\ worker \in [Workers -> JobRow] /\ NoJob.at = "IDLE"
    BY TypeParts DEF ArchInv, NoJob
  <1>2. CASE Die(w)
    <2> DEFINE gone == [worker[w] EXCEPT !.at = "GONE"]
    <2>1. gone \in JobRow /\ gone.at = "GONE"
      BY <1>1 DEF JobRow
    <2>2. worker' = [worker EXCEPT ![w] = gone]
      BY <1>1, <1>2 DEF Die
    <2> HIDE DEF gone
    <2>q. QED BY <1>2, <2>1, <2>2, RestingKeeps DEF Die
  <1>3. CASE Respawn(w)
    BY <1>1, <1>3, NoRows, RestingKeeps DEF Respawn
  <1>q. QED BY <1>2, <1>3

(* What a worker writes about the package it builds: BUILDING when it      *)
(* takes it, FAILED or READY when it lets go of it.                        *)
LEMMA BuildFailsKeeps ==
  ASSUME ArchInv, Setup, NEW w \in Workers, NEW j \in Packages, Builds(w, j), BuildFails(w),
         UNCHANGED <<season, photo, purgeOf, onDisk, artifact, purge>>
  PROVE  ArchInv'
  <1>1. /\ pack \in [Packages -> PackRow] /\ worker \in [Workers -> JobRow] /\ worker[w].job = j
    BY TypeParts DEF ArchInv, Builds
  <1> DEFINE new == [pack[j] EXCEPT !.status = "FAILED", !.owner = Nobody]
  <1>2. pack' = [pack EXCEPT ![j] = new] /\ worker' = [worker EXCEPT ![w] = NoJob]
    BY <1>1 DEF BuildFails
  <1>3. new \in PackRow /\ SameFacts(pack[j], new) /\ new.status = "FAILED" /\ new.saved = pack[j].saved
    <2>1. pack[j] \in PackRow
      BY <1>1
    <2>2. new \in PackRow
      BY <2>1 DEF PackRow
    <2>q. QED BY <2>1, <2>2 DEF PackRow, SameFacts
  <1> HIDE DEF new
  <1>4. /\ pack' \in [Packages -> PackRow] /\ pack'[j] = new
        /\ \A i \in Packages \ {j} : pack'[i] = pack[i]
        /\ worker' \in [Workers -> JobRow] /\ worker'[w].at = "IDLE"
        /\ \A v \in Workers \ {w} : worker'[v] = worker[v]
    BY <1>1, <1>2, <1>3, NoRows DEF NoJob
  <1>5. /\ ~ pack[j].saved /\ \A v \in Workers : ~ Builds(v, j)'
    BY <1>4 DEF ArchInv, BuildersAlone, Builds
  <1>6. TypeOK'
    BY <1>4, TypeParts, PartsType DEF ArchInv
  <1>7. WorkersKnow'
    BY <1>4 DEF ArchInv, WorkersKnow, Purging
  <1>8. BuildersAlone' /\ NotYetSaved'
    BY <1>3, <1>4, <1>5 DEF ArchInv, BuildersAlone, NotYetSaved, Builds, Active
  <1>9. FinalHoldsAll'
    <2>1. \A i \in Packages : SameFacts(pack[i], pack'[i])
      BY <1>3, <1>4 DEF SameFacts
    <2>2. \A i \in Packages : IsFinal(i)' = IsFinal(i)
      BY <2>1 DEF SameFacts, IsFinal
    <2>3. \A v \in Workers : worker'[v].at = "SNAPSHOT" => worker'[v].job \in Packages /\ worker'[v] = worker[v]
      BY <1>4 DEF ArchInv, WorkersKnow
    <2>q. QED BY <1>3, <1>4, <1>5, <2>1, <2>2, <2>3 DEF ArchInv, FinalHoldsAll, Online, SameFacts
  <1>10. UsedIsFinished' /\ MarkedIsHeld'
    <2>1. \A q \in Purges : purge[q].status # "NONE" => purge[q].photos # j
      BY DEF ArchInv, UsedIsFinished
    <2>2. \A v \in Workers, i \in Packages : Builds(v, i)' => Builds(v, i)
      BY <1>4 DEF Builds
    <2>q. QED BY <1>4, <2>1, <2>2 DEF ArchInv, UsedIsFinished, MarkedIsHeld
  <1>q. QED BY <1>6, <1>7, <1>8, <1>9, <1>10 DEF ArchInv

LEMMA SnapshotKeeps ==
  ASSUME ArchInv, Setup, NEW w \in Workers, TakeSnapshot(w)
  PROVE  ArchInv'
  <1>1. /\ worker \in [Workers -> JobRow] /\ photo \in [Photos -> Statuses]
        /\ UNCHANGED <<season, photo, purgeOf, onDisk, artifact, purge>>
    BY TypeParts DEF ArchInv, TakeSnapshot
  <1>2. PICK j \in Packages : j = worker[w].job /\ Builds(w, j)
    BY DEF TakeSnapshot, Builds
  <1>3. CASE BuildFails(w)
    BY <1>1, <1>2, <1>3, BuildFailsKeeps
  <1>4. CASE ~ BuildFails(w)
    <2> DEFINE job == [worker[w] EXCEPT !.at = "SNAPSHOT", !.sees = Online]
    <2>1. worker' = [worker EXCEPT ![w] = job] /\ pack' = pack
      BY <1>1, <1>4 DEF TakeSnapshot
    <2>2. job \in JobRow /\ job.at = "SNAPSHOT" /\ job.job = j /\ job.sees = Online
      BY <1>1, <1>2 DEF JobRow, Online
    <2> HIDE DEF job
    <2>3. /\ worker' \in [Workers -> JobRow] /\ worker'[w] = job
          /\ \A v \in Workers \ {w} : worker'[v] = worker[v]
      BY <1>1, <2>1, <2>2
    <2>4. \A v \in Workers, i \in Packages : Builds(v, i)' = Builds(v, i)
      BY <1>2, <2>2, <2>3, TypeParts DEF TakeSnapshot, Builds
    <2>5. TypeOK'
      BY <1>1, <2>1, <2>3, TypeParts, PartsType DEF ArchInv
    <2>6. WorkersKnow'
      BY <1>1, <1>2, <2>2, <2>3 DEF ArchInv, WorkersKnow, Purging, Setup
    <2>7. BuildersAlone' /\ NotYetSaved'
      BY <2>1, <2>4 DEF ArchInv, BuildersAlone, NotYetSaved
    <2>8. FinalHoldsAll'
      BY <1>1, <2>1, <2>2, <2>3 DEF ArchInv, FinalHoldsAll, IsFinal, Online
    <2>9. UsedIsFinished' /\ MarkedIsHeld'
      BY <1>1, <2>1, <2>4 DEF ArchInv, UsedIsFinished, MarkedIsHeld
    <2>q. QED BY <2>5, <2>6, <2>7, <2>8, <2>9 DEF ArchInv
  <1>q. QED BY <1>3, <1>4

LEMMA FinishKeeps ==
  ASSUME ArchInv, Setup, NEW w \in Workers, FinishPackage(w)
  PROVE  ArchInv'
  <1>1. /\ pack \in [Packages -> PackRow] /\ worker \in [Workers -> JobRow]
        /\ artifact \subseteq Packages
        /\ UNCHANGED <<season, photo, purgeOf, onDisk, purge>>
    BY TypeParts DEF ArchInv, FinishPackage
  <1>2. PICK j \in Packages : j = worker[w].job /\ Builds(w, j) /\ worker[w].at = "SNAPSHOT"
    BY DEF ArchInv, WorkersKnow, FinishPackage, Builds
  <1>3. CASE BuildFails(w) /\ UNCHANGED artifact
    BY <1>1, <1>2, <1>3, BuildFailsKeeps
  <1>4. CASE ~ (BuildFails(w) /\ UNCHANGED artifact)
    <2> DEFINE held == IF pack[j].kind = "SEASON_PHOTOS" THEN worker[w].sees ELSE {}
               new == [pack[j] EXCEPT !.status = "READY", !.keyed = TRUE, !.holds = held,
                                      !.due = FALSE, !.owner = Nobody]
    <2>1. pack' = [pack EXCEPT ![j] = new] /\ worker' = [worker EXCEPT ![w] = NoJob]
          /\ artifact' = artifact \cup {j}
      BY <1>1, <1>2, <1>4 DEF FinishPackage
    <2>2. held \in SUBSET Photos
      BY <1>1 DEF JobRow
    <2>3. /\ new \in PackRow /\ new.status = "READY" /\ new.saved = pack[j].saved
          /\ new.kind = pack[j].kind /\ new.version = pack[j].version
          /\ new.final = pack[j].final /\ new.holds = held
      <3> HIDE DEF held
      <3>q. QED BY <1>1, <2>2 DEF PackRow
    <2>4. new.kind = "SEASON_PHOTOS" => new.holds = worker[w].sees
      BY <2>3
    <2> HIDE DEF new, held
    <2>5. /\ pack' \in [Packages -> PackRow] /\ pack'[j] = new
          /\ \A i \in Packages \ {j} : pack'[i] = pack[i]
          /\ worker' \in [Workers -> JobRow] /\ worker'[w].at = "IDLE"
          /\ \A v \in Workers \ {w} : worker'[v] = worker[v]
      BY <1>1, <2>1, <2>3, NoRows DEF NoJob
    <2>6. /\ ~ pack[j].saved /\ \A v \in Workers : ~ Builds(v, j)'
      BY <1>2, <2>5 DEF ArchInv, BuildersAlone, Builds
    <2>7. TypeOK'
      BY <1>1, <2>1, <2>5, TypeParts, PartsType DEF ArchInv
    <2>8. WorkersKnow'
      BY <1>1, <2>5 DEF ArchInv, WorkersKnow, Purging
    <2>9. BuildersAlone' /\ NotYetSaved'
      BY <2>3, <2>5, <2>6 DEF ArchInv, BuildersAlone, NotYetSaved, Builds, Active
    <2>10. FinalHoldsAll'
      <3>1. \A i \in Packages : IsFinal(i)' = IsFinal(i)
        BY <1>1, <2>3, <2>5 DEF IsFinal
      <3>2. IsFinal(j) => Online \subseteq worker[w].sees
        BY <1>2 DEF ArchInv, FinalHoldsAll
      <3>3. \A v \in Workers : worker'[v].at = "SNAPSHOT" => worker'[v].job \in Packages /\ worker'[v] = worker[v]
        BY <2>5 DEF ArchInv, WorkersKnow
      <3>4. \A i \in Packages :
              /\ pack'[i].final = pack[i].final /\ pack'[i].version = pack[i].version
              /\ i # j => pack'[i] = pack[i]
        BY <2>3, <2>5
      <3>5. IsFinal(j) => Online \subseteq pack'[j].holds
        BY <2>3, <2>4, <2>5, <3>2 DEF IsFinal
      <3>q. QED BY <1>1, <3>1, <3>3, <3>4, <3>5 DEF ArchInv, FinalHoldsAll, Online
    <2>11. UsedIsFinished' /\ MarkedIsHeld'
      <3>1. \A q \in Purges : purge[q].status # "NONE" => purge[q].photos # j
        BY <1>2 DEF ArchInv, UsedIsFinished
      <3>2. \A v \in Workers, i \in Packages : Builds(v, i)' => Builds(v, i)
        BY <2>5 DEF Builds
      <3>q. QED BY <1>1, <2>5, <3>1, <3>2 DEF ArchInv, UsedIsFinished, MarkedIsHeld
    <2>q. QED BY <2>7, <2>8, <2>9, <2>10, <2>11 DEF ArchInv
  <1>q. QED BY <1>3, <1>4

LEMMA NoBuilderLeft ==
  ASSUME ArchInv, NEW j \in Packages,
         \/ pack[j].status = "QUEUED"
         \/ pack[j].status = "BUILDING" /\ Lapsed(pack[j])
  PROVE  ~ pack[j].saved /\ \A v \in Workers : ~ Builds(v, j)
  BY DEF ArchInv, BuildersAlone, NotYetSaved, Builds, Lapsed, Active

(* Purges that were ordered stay so, with the packages they name.          *)
PurgesGoOn ==
  \A q \in Purges :
    /\ purge'[q].status # "NONE" <=> purge[q].status # "NONE"
    /\ purge[q].status # "NONE" => purge'[q].photos = purge[q].photos

LEMMA PurgesGoingOn ==
  ASSUME ArchInv, PurgesGoOn, UNCHANGED <<photo, purgeOf, pack>>, TypeOK', WorkersKnow',
         FinalHoldsAll',
         \A v \in Workers, i \in Packages : Builds(v, i)' => worker'[v] = worker[v]
  PROVE  ArchInv'
  <1>1. \A v \in Workers, i \in Packages : Builds(v, i)' => Builds(v, i)
    BY DEF Builds
  <1>2. BuildersAlone' /\ NotYetSaved'
    BY <1>1 DEF ArchInv, BuildersAlone, NotYetSaved
  <1>3. UsedIsFinished' /\ MarkedIsHeld'
    BY <1>1 DEF ArchInv, UsedIsFinished, MarkedIsHeld, PurgesGoOn
  <1>q. QED BY <1>2, <1>3 DEF ArchInv

LEMMA ClaimKeeps ==
  ASSUME ArchInv, Setup, NEW w \in Workers, Claim(w)
  PROVE  ArchInv'
  <1>1. /\ pack \in [Packages -> PackRow] /\ purge \in [Purges -> PurgeRow]
        /\ worker \in [Workers -> JobRow] /\ worker[w].at = "IDLE"
        /\ UNCHANGED <<season, photo, purgeOf, onDisk, artifact>>
    BY TypeParts DEF ArchInv, Claim
  <1>2. ASSUME NEW j \in Packages \cup Purges
        PROVE  /\ [NoJob EXCEPT !.at = "CLAIMED", !.job = j] \in JobRow
               /\ [NoJob EXCEPT !.at = "CLAIMED", !.job = j].at = "CLAIMED"
               /\ [NoJob EXCEPT !.at = "CLAIMED", !.job = j].job = j
    <2>1. NoJob \in JobRow
      BY NoRows
    <2>q. QED BY <2>1 DEF JobRow
  <1>3. CASE /\ Claimable(pack, Packages) # {}
             /\ LET j == First(Claimable(pack, Packages))
                IN /\ pack' = [pack EXCEPT ![j].status = "BUILDING", ![j].owner = w]
                   /\ worker' = [worker EXCEPT ![w] = [NoJob EXCEPT !.at = "CLAIMED", !.job = j]]
             /\ UNCHANGED purge
    <2>1. PICK j \in Packages :
            /\ j = First(Claimable(pack, Packages))
            /\ \/ pack[j].status = "QUEUED"
               \/ pack[j].status = "BUILDING" /\ Lapsed(pack[j])
      <3>1. First(Claimable(pack, Packages)) \in Claimable(pack, Packages)
        BY <1>3, FirstIsMember DEF Claimable
      <3>q. QED BY <3>1 DEF Claimable
    <2> DEFINE new == [pack[j] EXCEPT !.status = "BUILDING", !.owner = w]
               job == [NoJob EXCEPT !.at = "CLAIMED", !.job = j]
    <2>2. pack' = [pack EXCEPT ![j] = new] /\ worker' = [worker EXCEPT ![w] = job]
      BY <1>1, <1>3, <2>1
    <2>3. /\ new \in PackRow /\ SameFacts(pack[j], new) /\ new.status = "BUILDING"
          /\ new.owner = w /\ new.saved = pack[j].saved
      <3>1. pack[j] \in PackRow
        BY <1>1
      <3>2. new \in PackRow
        BY <3>1 DEF PackRow, Active
      <3>q. QED BY <3>1, <3>2 DEF PackRow, SameFacts
    <2>4. job \in JobRow /\ job.at = "CLAIMED" /\ job.job = j
      BY <1>2
    <2> HIDE DEF new, job
    <2>5. /\ pack' \in [Packages -> PackRow] /\ pack'[j] = new
          /\ \A i \in Packages \ {j} : pack'[i] = pack[i]
          /\ worker' \in [Workers -> JobRow] /\ worker'[w] = job
          /\ \A v \in Workers \ {w} : worker'[v] = worker[v]
      BY <1>1, <2>2, <2>3, <2>4
    <2>6. ~ pack[j].saved /\ \A v \in Workers : ~ Builds(v, j)
      BY <2>1, NoBuilderLeft
    <2>7. TypeOK'
      BY <1>1, <1>3, <2>5, TypeParts, PartsType DEF ArchInv
    <2>8. WorkersKnow'
      BY <1>1, <1>3, <2>4, <2>5 DEF ArchInv, WorkersKnow, Purging, Setup
    <2>9. BuildersAlone' /\ NotYetSaved'
      BY <1>1, <2>3, <2>4, <2>5, <2>6 DEF ArchInv, BuildersAlone, NotYetSaved, Builds
    <2>10. FinalHoldsAll'
      <3>1. \A i \in Packages : SameFacts(pack[i], pack'[i])
        BY <2>3, <2>5 DEF SameFacts
      <3>2. \A i \in Packages : IsFinal(i)' = IsFinal(i)
        BY <1>1, <3>1 DEF SameFacts, IsFinal
      <3>3. \A v \in Workers : worker'[v].at = "SNAPSHOT" =>
                worker'[v].job \in Packages /\ worker'[v] = worker[v]
        BY <2>4, <2>5 DEF ArchInv, WorkersKnow
      <3>q. QED BY <1>1, <2>3, <2>5, <2>6, <3>1, <3>2, <3>3 DEF ArchInv, FinalHoldsAll, Online, SameFacts
    <2>11. UsedIsFinished' /\ MarkedIsHeld'
      <3>1. \A q \in Purges : purge[q].status # "NONE" => purge[q].photos # j
        BY <2>1 DEF ArchInv, UsedIsFinished
      <3>2. \A v \in Workers, i \in Packages \ {j} : Builds(v, i)' => Builds(v, i)
        BY <2>4, <2>5 DEF Builds
      <3>q. QED BY <1>1, <1>3, <2>5, <3>1, <3>2 DEF ArchInv, UsedIsFinished, MarkedIsHeld
    <2>q. QED BY <2>7, <2>8, <2>9, <2>10, <2>11 DEF ArchInv
  <1>4. CASE /\ Claimable(purge, Purges) # {}
             /\ LET q == First(Claimable(purge, Purges))
                IN /\ purge' = [purge EXCEPT ![q].status = "BUILDING", ![q].owner = w]
                   /\ worker' = [worker EXCEPT ![w] = [NoJob EXCEPT !.at = "CLAIMED", !.job = q]]
             /\ UNCHANGED pack
    <2>1. PICK q \in Purges :
            /\ q = First(Claimable(purge, Purges)) /\ purge[q].status # "NONE"
      <3>1. First(Claimable(purge, Purges)) \in Claimable(purge, Purges)
        BY <1>4, FirstIsMember DEF Claimable
      <3>q. QED BY <3>1 DEF Claimable
    <2> DEFINE new == [purge[q] EXCEPT !.status = "BUILDING", !.owner = w]
               job == [NoJob EXCEPT !.at = "CLAIMED", !.job = q]
    <2>2. purge' = [purge EXCEPT ![q] = new] /\ worker' = [worker EXCEPT ![w] = job]
      BY <1>1, <1>4, <2>1
    <2>3. new \in PurgeRow /\ new.status # "NONE" /\ new.photos = purge[q].photos
      <3>1. purge[q] \in PurgeRow
        BY <1>1
      <3>q. QED BY <3>1 DEF PurgeRow, Active
    <2>4. job \in JobRow /\ job.at = "CLAIMED" /\ job.job = q
      BY <1>2
    <2> HIDE DEF new, job
    <2>5. /\ purge' \in [Purges -> PurgeRow] /\ purge'[q] = new
          /\ \A r \in Purges \ {q} : purge'[r] = purge[r]
          /\ worker' \in [Workers -> JobRow] /\ worker'[w] = job
          /\ \A v \in Workers \ {w} : worker'[v] = worker[v]
      BY <1>1, <2>2, <2>3, <2>4
    <2>6. TypeOK'
      BY <1>1, <1>4, <2>5, TypeParts, PartsType DEF ArchInv
    <2>7. PurgesGoOn
      BY <2>1, <2>3, <2>5 DEF PurgesGoOn
    <2>8. \A v \in Workers, i \in Packages : Builds(v, i)' => worker'[v] = worker[v]
      BY <2>4, <2>5 DEF Builds, Setup
    <2>9. WorkersKnow'
      BY <1>1, <2>1, <2>3, <2>4, <2>5 DEF ArchInv, WorkersKnow, Purging
    <2>10. FinalHoldsAll'
      BY <1>1, <1>4, <2>4, <2>5 DEF ArchInv, FinalHoldsAll, IsFinal, Online
    <2>q. QED BY <1>1, <1>4, <2>6, <2>7, <2>8, <2>9, <2>10, PurgesGoingOn
  <1>q. QED BY <1>3, <1>4 DEF Claim

-----------------------------------------------------------------------------
(* Purges. *)

(* A purge only unmarks what it was to remove, and wears its package. *)
LEMMA PurgingKeeps ==
  ASSUME ArchInv, Setup, PacksWorn, PurgesGoOn, UNCHANGED <<season, purgeOf>>,
         purge' \in [Purges -> PurgeRow], worker' \in [Workers -> JobRow], WorkersKnow',
         artifact' \subseteq Packages, onDisk' \subseteq Photos, photo' \in [Photos -> Statuses],
         \A p \in Photos : photo'[p] # photo[p] =>
           photo'[p] \in {"PURGED", "MISSING"} /\ purgeOf[p] \in Purges,
         \A v \in Workers : worker'[v].at \in {"CLAIMED", "SNAPSHOT"} => worker'[v] = worker[v]
  PROVE  ArchInv'
  <1>1. TypeOK'
    BY TypeParts, PartsType DEF ArchInv, PacksWorn
  <1>2. \A v \in Workers, i \in Packages : Builds(v, i)' => Builds(v, i)
    BY DEF Builds
  <1>3. BuildersAlone' /\ NotYetSaved'
    BY <1>2 DEF ArchInv, BuildersAlone, NotYetSaved, PacksWorn, Worn, PackRow, Active
  <1>4. Online' \subseteq Online
    BY DEF Online
  <1>5. FinalHoldsAll'
    <2>1. \A i \in Packages : IsFinal(i)' = IsFinal(i)
      BY DEF PacksWorn, Worn, SameFacts, IsFinal
    <2>2. \A v \in Workers : worker'[v].at = "SNAPSHOT" =>
              worker'[v].job \in Packages /\ worker'[v] = worker[v]
      BY DEF ArchInv, WorkersKnow
    <2>3. ASSUME NEW i \in Packages
          PROVE  /\ pack'[i].final => season.status = "ARCHIVED"
                 /\ pack'[i].version <= season.version
                 /\ (pack'[i].status = "READY" \/ pack'[i].saved) /\ IsFinal(i) =>
                      Online \subseteq pack'[i].holds
      BY DEF ArchInv, FinalHoldsAll, PacksWorn, Worn, SameFacts
    <2>q. QED BY <1>4, <2>1, <2>2, <2>3 DEF ArchInv, FinalHoldsAll
  <1>6. UsedIsFinished'
    BY <1>2 DEF ArchInv, UsedIsFinished, PurgesGoOn, PacksWorn, Worn, SameFacts
  <1>7. MarkedIsHeld'
    BY DEF ArchInv, MarkedIsHeld, UsedIsFinished, PurgesGoOn, PacksWorn, Worn, SameFacts
  <1>q. QED BY <1>1, <1>3, <1>5, <1>6, <1>7 DEF ArchInv

LEMMA OneWorkerKnows ==
  ASSUME ArchInv, Setup, PurgesGoOn, UNCHANGED purgeOf, NEW w \in Workers, NEW job \in JobRow,
         worker' = [worker EXCEPT ![w] = job],
         job.at \in {"IDLE", "PURGING", "DELETED", "ABSENT"},
         job.at # "IDLE" => /\ job.job \in Purges /\ purge[job.job].status # "NONE"
                            /\ \A p \in job.sees : purgeOf[p] \in Purges,
         job.at \in {"DELETED", "ABSENT"} => job.photo \in Photos /\ purgeOf[job.photo] \in Purges
  PROVE  /\ worker' \in [Workers -> JobRow] /\ WorkersKnow'
         /\ \A v \in Workers : worker'[v].at \in {"CLAIMED", "SNAPSHOT"} => worker'[v] = worker[v]
  <1>1. /\ worker' \in [Workers -> JobRow] /\ worker'[w] = job
        /\ \A v \in Workers \ {w} : worker'[v] = worker[v]
    BY TypeParts DEF ArchInv
  <1>q. QED BY <1>1 DEF ArchInv, WorkersKnow, Purging, PurgesGoOn

LEMMA OnePurgeGoesOn ==
  ASSUME ArchInv, NEW q \in Purges, NEW new \in PurgeRow, purge' = [purge EXCEPT ![q] = new],
         purge[q].status # "NONE", new.status # "NONE", new.photos = purge[q].photos
  PROVE  PurgesGoOn /\ purge' \in [Purges -> PurgeRow]
  BY TypeParts DEF ArchInv, PurgesGoOn

LEMMA PurgeWorkKeeps ==
  ASSUME ArchInv, Setup, NEW w \in Workers,
         ListPhotos(w) \/ NotePhoto(w) \/ \E p \in Photos : DeletePhoto(w, p)
  PROVE  ArchInv'
  <1>1. /\ worker \in [Workers -> JobRow] /\ photo \in [Photos -> Statuses]
        /\ onDisk \subseteq Photos /\ artifact \subseteq Packages
        /\ purge \in [Purges -> PurgeRow]
        /\ UNCHANGED <<season, purgeOf, pack, artifact, purge>>
    BY TypeParts DEF ArchInv, ListPhotos, NotePhoto, DeletePhoto
  <1>2. PurgesGoOn /\ PacksWorn
    BY <1>1, SameWorn DEF PurgesGoOn, ArchInv
  <1>3. CASE ListPhotos(w)
    <2> DEFINE marked == {p \in Photos : /\ purgeOf[p] = worker[w].job
                                         /\ photo[p] \notin {"PURGED", "MISSING"}}
               job == [worker[w] EXCEPT !.at = "PURGING", !.sees = marked]
    <2>1. worker' = [worker EXCEPT ![w] = job]
      BY <1>1, <1>3 DEF ListPhotos
    <2>2. /\ worker[w].job \in Purges /\ purge[worker[w].job].status # "NONE"
          /\ marked \subseteq Photos /\ \A p \in marked : purgeOf[p] \in Purges
      BY <1>3 DEF ListPhotos, ArchInv, WorkersKnow
    <2> HIDE DEF marked
    <2>3. /\ job \in JobRow /\ job.at = "PURGING" /\ job.job = worker[w].job /\ job.sees = marked
      BY <1>1, <2>2 DEF JobRow
    <2> HIDE DEF job
    <2>4. /\ worker' \in [Workers -> JobRow] /\ WorkersKnow'
          /\ \A v \in Workers : worker'[v].at \in {"CLAIMED", "SNAPSHOT"} => worker'[v] = worker[v]
      BY <1>1, <1>2, <2>1, <2>2, <2>3, OneWorkerKnows
    <2>q. QED BY <1>1, <1>2, <1>3, <2>4, PurgingKeeps DEF ListPhotos
  <1>4. CASE NotePhoto(w)
    <2> DEFINE job == [worker[w] EXCEPT !.at = "PURGING", !.photo = Nobody]
    <2>1. worker' = [worker EXCEPT ![w] = job] /\ UNCHANGED onDisk
      BY <1>1, <1>4 DEF NotePhoto
    <2>2. /\ worker[w].job \in Purges /\ purge[worker[w].job].status # "NONE"
          /\ \A p \in worker[w].sees : purgeOf[p] \in Purges
          /\ worker[w].photo \in Photos /\ purgeOf[worker[w].photo] \in Purges
      BY <1>4 DEF NotePhoto, ArchInv, WorkersKnow, Purging
    <2>3. job \in JobRow /\ job.at = "PURGING" /\ job.job = worker[w].job /\ job.sees = worker[w].sees
      BY <1>1 DEF JobRow
    <2> HIDE DEF job
    <2>4. /\ worker' \in [Workers -> JobRow] /\ WorkersKnow'
          /\ \A v \in Workers : worker'[v].at \in {"CLAIMED", "SNAPSHOT"} => worker'[v] = worker[v]
      BY <1>1, <1>2, <2>1, <2>2, <2>3, OneWorkerKnows
    <2>5. PICK status \in {"PURGED", "MISSING"} : photo' = [photo EXCEPT ![worker[w].photo] = status]
      BY <1>4 DEF NotePhoto
    <2>6. /\ photo' \in [Photos -> Statuses]
          /\ \A p \in Photos : photo'[p] # photo[p] =>
               photo'[p] \in {"PURGED", "MISSING"} /\ purgeOf[p] \in Purges
      BY <1>1, <2>2, <2>5 DEF Statuses
    <2>q. QED BY <1>1, <1>2, <2>1, <2>4, <2>6, PurgingKeeps
  <1>5. ASSUME NEW p \in Photos, DeletePhoto(w, p)
        PROVE  ArchInv'
    <2> PICK step \in {"DELETED", "ABSENT"} :
          step = IF p \in onDisk THEN "DELETED" ELSE "ABSENT"
      OBVIOUS
    <2> DEFINE job == [worker[w] EXCEPT !.at = step, !.sees = worker[w].sees \ {p}, !.photo = p]
    <2>1. worker' = [worker EXCEPT ![w] = job] /\ UNCHANGED photo /\ onDisk' \subseteq Photos
      BY <1>1, <1>5 DEF DeletePhoto
    <2>2. /\ worker[w].job \in Purges /\ purge[worker[w].job].status # "NONE"
          /\ \A x \in worker[w].sees : purgeOf[x] \in Purges
          /\ p \in worker[w].sees
      BY <1>5 DEF DeletePhoto, ArchInv, WorkersKnow, Purging
    <2>3. /\ job \in JobRow /\ job.at = step /\ job.job = worker[w].job
          /\ job.sees = worker[w].sees \ {p} /\ job.photo = p
      BY <1>1 DEF JobRow
    <2> HIDE DEF job
    <2>4. /\ worker' \in [Workers -> JobRow] /\ WorkersKnow'
          /\ \A v \in Workers : worker'[v].at \in {"CLAIMED", "SNAPSHOT"} => worker'[v] = worker[v]
      BY <1>1, <1>2, <2>1, <2>2, <2>3, OneWorkerKnows
    <2>q. QED BY <1>1, <1>2, <2>1, <2>4, PurgingKeeps
  <1>q. QED BY <1>3, <1>4, <1>5

LEMMA PurgeEndKeeps ==
  ASSUME ArchInv, Setup, NEW w \in Workers, FinishPurge(w) \/ FailPurge(w)
  PROVE  ArchInv'
  <1>1. /\ worker \in [Workers -> JobRow] /\ photo \in [Photos -> Statuses]
        /\ onDisk \subseteq Photos /\ artifact \subseteq Packages
        /\ purge \in [Purges -> PurgeRow] /\ pack \in [Packages -> PackRow]
        /\ UNCHANGED <<season, photo, purgeOf, onDisk>>
    BY TypeParts DEF ArchInv, FinishPurge, FailPurge
  <1>2. PICK q \in Purges : q = worker[w].job /\ purge[q].status # "NONE"
    BY DEF FinishPurge, FailPurge, ArchInv, WorkersKnow, Purging
  <1>3. PICK status \in {"COMPLETED", "FAILED"} :
          purge' = [purge EXCEPT ![q] = [purge[q] EXCEPT !.status = status, !.owner = Nobody]]
    BY <1>1, <1>2 DEF FinishPurge, FailPurge
  <1> DEFINE new == [purge[q] EXCEPT !.status = status, !.owner = Nobody]
  <1>4. new \in PurgeRow /\ new.status # "NONE" /\ new.photos = purge[q].photos
    <2>1. purge[q] \in PurgeRow
      BY <1>1
    <2>q. QED BY <2>1 DEF PurgeRow
  <1> HIDE DEF new
  <1>5. PurgesGoOn /\ purge' \in [Purges -> PurgeRow]
    BY <1>2, <1>3, <1>4, OnePurgeGoesOn DEF new
  <1>6. /\ worker' \in [Workers -> JobRow] /\ WorkersKnow'
        /\ \A v \in Workers : worker'[v].at \in {"CLAIMED", "SNAPSHOT"} => worker'[v] = worker[v]
    <2>1. NoJob \in JobRow /\ NoJob.at = "IDLE"
      BY NoRows DEF NoJob
    <2>2. worker' = [worker EXCEPT ![w] = NoJob]
      BY DEF FinishPurge, FailPurge
    <2>q. QED BY <1>1, <1>5, <2>1, <2>2, OneWorkerKnows
  <1>7. PacksWorn /\ artifact' \subseteq Packages
    <2>1. CASE UNCHANGED <<pack, artifact>>
      BY <1>1, <2>1, SameWorn DEF ArchInv
    <2>2. CASE DiscardedAs(purge[q].photos, "DISCARDED")
      <3>1. PICK j \in Packages : j = purge[q].photos
        BY <1>2 DEF ArchInv, UsedIsFinished
      <3> DEFINE old == pack[j]
                 worn == [old EXCEPT !.status = "DISCARDED", !.keyed = FALSE, !.due = FALSE]
      <3>2. pack' = [pack EXCEPT ![j] = worn] /\ old.status # "NONE" /\ artifact' \subseteq artifact
        BY <1>1, <2>2, <3>1 DEF DiscardedAs
      <3>3. Worn(old, worn)
        BY <1>1, <3>2, WornRows
      <3> HIDE DEF worn
      <3>q. QED BY <1>1, <3>2, <3>3, OneWorn DEF ArchInv
    <2>q. QED BY <1>2, <2>1, <2>2 DEF FinishPurge, FailPurge
  <1>q. QED BY <1>1, <1>5, <1>6, <1>7, PurgingKeeps

LEMMA RetryKeeps ==
  ASSUME ArchInv, Setup, NEW q \in Purges, RetryPurge(q)
  PROVE  ArchInv'
  <1>1. /\ photo \in [Photos -> Statuses] /\ onDisk \subseteq Photos /\ artifact \subseteq Packages
        /\ purge \in [Purges -> PurgeRow] /\ worker \in [Workers -> JobRow]
        /\ UNCHANGED <<season, photo, purgeOf, onDisk, pack, artifact, worker>>
    BY TypeParts DEF ArchInv, RetryPurge
  <1> DEFINE new == [purge[q] EXCEPT !.status = "QUEUED"]
  <1>2. purge' = [purge EXCEPT ![q] = new] /\ purge[q].status # "NONE"
    BY <1>1 DEF RetryPurge
  <1>3. new \in PurgeRow /\ new.status # "NONE" /\ new.photos = purge[q].photos
    <2>1. purge[q] \in PurgeRow
      BY <1>1
    <2>q. QED BY <2>1 DEF PurgeRow, Active
  <1> HIDE DEF new
  <1>4. PurgesGoOn /\ purge' \in [Purges -> PurgeRow]
    BY <1>2, <1>3, OnePurgeGoesOn
  <1>5. WorkersKnow' /\ PacksWorn
    BY <1>1, <1>4, SameWorn DEF ArchInv, WorkersKnow, Purging, PurgesGoOn
  <1>q. QED BY <1>1, <1>4, <1>5, PurgingKeeps

(* The order of a purge marks every photograph online; the package it was  *)
(* given is finished and holds them all.                                   *)
LEMMA RequestKeeps ==
  ASSUME ArchInv, Setup, NEW q \in Purges, NEW data \in Packages, NEW j \in Packages,
         RequestPurge(q, data, j)
  PROVE  ArchInv'
  <1>1. /\ photo \in [Photos -> Statuses] /\ purgeOf \in [Photos -> Purges \cup {Nobody}]
        /\ purge \in [Purges -> PurgeRow] /\ purge[q].status = "NONE"
        /\ UNCHANGED <<season, onDisk, pack, artifact, worker>>
    BY TypeParts DEF ArchInv, RequestPurge, Unused
  <1> DEFINE new == [status |-> "QUEUED", data |-> data, photos |-> j, owner |-> Nobody]
  <1>2. /\ purge' = [purge EXCEPT ![q] = new]
        /\ photo' = [p \in Photos |-> IF p \in Online THEN "PURGE_PENDING" ELSE photo[p]]
        /\ purgeOf' = [p \in Photos |-> IF p \in Online THEN q ELSE purgeOf[p]]
    BY DEF RequestPurge
  <1>3. new \in PurgeRow /\ new.status = "QUEUED" /\ new.photos = j
    BY DEF PurgeRow, Active
  <1> HIDE DEF new
  <1>4. /\ purge' \in [Purges -> PurgeRow] /\ purge'[q] = new
        /\ \A r \in Purges \ {q} : purge'[r] = purge[r]
    BY <1>1, <1>2, <1>3
  <1>5. /\ IsFinal(j) /\ pack[j].final
        /\ \/ pack[j].status = "READY"
           \/ pack[j].status = "DISCARDED" /\ pack[j].saved
    BY DEF RequestPurge, Complete, IsFinal
  <1>6. Online \subseteq pack[j].holds /\ \A w \in Workers : ~ Builds(w, j)
    BY <1>5 DEF ArchInv, FinalHoldsAll, BuildersAlone
  <1>7. photo' \in [Photos -> Statuses] /\ purgeOf' \in [Photos -> Purges \cup {Nobody}]
    BY <1>1, <1>2 DEF Statuses
  <1>8. TypeOK'
    BY <1>1, <1>4, <1>7, TypeParts, PartsType DEF ArchInv
  <1>9. \A p \in Photos : purgeOf[p] \in Purges => purgeOf'[p] \in Purges
    BY <1>2
  <1>10. WorkersKnow'
    <2>1. \A w \in Workers : worker[w].sees \subseteq Photos
      BY TypeParts DEF ArchInv, JobRow
    <2>2. \A r \in Purges : purge[r].status # "NONE" => purge'[r].status # "NONE"
      BY <1>1, <1>4
    <2>q. QED BY <1>1, <1>9, <2>1, <2>2 DEF ArchInv, WorkersKnow, Purging
  <1>11. BuildersAlone' /\ NotYetSaved'
    BY <1>1 DEF ArchInv, BuildersAlone, NotYetSaved, Builds
  <1>12. Online' = {}
    BY <1>2 DEF Online
  <1>13. FinalHoldsAll'
    BY <1>1, <1>12 DEF ArchInv, FinalHoldsAll, IsFinal
  <1>14. UsedIsFinished'
    BY <1>1, <1>3, <1>4, <1>5, <1>6 DEF ArchInv, UsedIsFinished, Builds
  <1>15. MarkedIsHeld'
    <2>1. ASSUME NEW p \in Online
          PROVE  /\ p \in Photos /\ purgeOf'[p] = q /\ p \in pack[j].holds
      BY <1>2, <1>6, <2>1 DEF Online
    <2>2. ASSUME NEW p \in Photos \ Online
          PROVE  photo'[p] = photo[p] /\ purgeOf'[p] = purgeOf[p] /\ purgeOf[p] # q
      BY <1>1, <1>2 DEF ArchInv, MarkedIsHeld
    <2>q. QED BY <1>1, <1>3, <1>4, <2>1, <2>2 DEF ArchInv, MarkedIsHeld
  <1>q. QED BY <1>8, <1>10, <1>11, <1>13, <1>14, <1>15 DEF ArchInv

LEMMA ArchInit == Setup /\ Init => ArchInv
  <1> SUFFICES ASSUME Setup, Init
               PROVE  ArchInv
    OBVIOUS
  <1>1. /\ season = [status |-> "PUBLISHED", version |-> 1]
        /\ \A p \in Photos : photo[p] \in {"NONE", "ONLINE"} /\ purgeOf[p] = Nobody
        /\ \A j \in Packages : pack[j] = NoPack
        /\ \A q \in Purges : purge[q] = NoPurge
        /\ \A w \in Workers : worker[w] = NoJob
    BY DEF Init
  <1>2. /\ NoPack.status = "NONE" /\ NoPack.version = 0 /\ ~ NoPack.saved /\ ~ NoPack.final
        /\ NoPurge.status = "NONE" /\ NoJob.at = "IDLE"
    BY DEF NoPack, NoPurge, NoJob
  <1>3. /\ season \in SeasonRow /\ photo \in [Photos -> Statuses]
        /\ purgeOf \in [Photos -> Purges \cup {Nobody}] /\ onDisk \subseteq Photos
        /\ pack \in [Packages -> PackRow] /\ artifact \subseteq Packages
        /\ purge \in [Purges -> PurgeRow] /\ worker \in [Workers -> JobRow]
    BY NoRows DEF Init, SeasonRow, Statuses, Setup
  <1>4. TypeOK
    BY <1>3 DEF TypeOK, SeasonRow, Statuses, PackRow, PurgeRow, JobRow
  <1>5. WorkersKnow /\ BuildersAlone /\ NotYetSaved /\ UsedIsFinished /\ MarkedIsHeld
    BY <1>1, <1>2 DEF WorkersKnow, BuildersAlone, NotYetSaved, UsedIsFinished, MarkedIsHeld,
       Purging, Builds, Active, Setup
  <1>6. FinalHoldsAll
    BY <1>1, <1>2 DEF FinalHoldsAll
  <1>q. QED BY <1>4, <1>5, <1>6 DEF ArchInv

LEMMA ArchStep ==
  ASSUME ArchInv, Setup, [Next]_vars
  PROVE  ArchInv'
  <1>1. ASSUME NEW w \in Workers, WorkerStep(w) \/ Die(w) \/ Respawn(w)
        PROVE  ArchInv'
    BY <1>1, ClaimKeeps, SnapshotKeeps, FinishKeeps, PurgeWorkKeeps, PurgeEndKeeps, DyingKeeps
       DEF WorkerStep
  <1>2. CASE UNCHANGED vars
    <2>1. PacksWorn
      BY <1>2, SameWorn DEF ArchInv, vars
    <2>2. artifact' \subseteq Packages
      BY <1>2, TypeParts DEF ArchInv, vars
    <2>q. QED BY <1>2, <2>1, <2>2, WearingKeeps DEF vars
  <1>3. ASSUME NEW q \in Purges, PurgeCommand(q)
        PROVE  ArchInv'
    BY <1>3, RetryKeeps, RequestKeeps DEF PurgeCommand
  <1>q. QED BY <1>1, <1>2, <1>3, SeasonMoves, ExportKeeps, PackageCommands DEF Next

LEMMA ArchInvHolds == Setup /\ Spec => [](Setup /\ ArchInv)
  <1>1. Setup /\ Init => Setup /\ ArchInv
    BY ArchInit
  <1>2. (Setup /\ ArchInv) /\ [Next]_vars => (Setup /\ ArchInv)'
    <2>1. Setup => Setup'
      BY DEF Setup
    <2>q. QED BY <2>1, ArchStep
  <1>q. QED BY <1>1, <1>2, PTL DEF Spec

(* Rows of packages, purges and workers stay among those that their tables *)
(* can hold.                                                               *)
THEOREM ArchivesTyped == Setup /\ Spec => []TypeOK
  <1>1. Setup /\ ArchInv => TypeOK
    BY DEF ArchInv
  <1>q. QED BY <1>1, ArchInvHolds, PTL

(* What is removed was packaged, for any number of photographs, packages,  *)
(* purges and workers: through corrections and restored photographs        *)
(* between a package and a purge, packages discarded while they are built, *)
(* dead workers and resumed purges (archive_exports.py).                   *)
THEOREM RemovedWasPackaged == Setup /\ Spec => []PurgedWasPackaged
  <1>1. Setup /\ ArchInv => PurgedWasPackaged
    BY DEF ArchInv, PurgedWasPackaged, MarkedIsHeld, UsedIsFinished, Setup
  <1>q. QED BY <1>1, ArchInvHolds, PTL

-----------------------------------------------------------------------------
(* The full backup, its write fence and the restore of it. *)
CONSTANTS Uploads, Orders, Old
VARIABLES at, row, file, backup, dump, listed, target

Backup == INSTANCE SystemBackup

(* Whoever has the fence to himself has it to himself. *)
FenceExcludes == Backup!Excluding => Backup!Sharing = {}

(* A photograph online has its file, a file has a row, and an upload whose *)
(* row is staged is where its session thinks it is.                        *)
FilesHaveRows ==
  /\ \A p \in Backup!Pictures : row[p] = "ONLINE" => p \in file
  /\ \A p \in file : row[p] # "NONE"
  /\ \A u \in Uploads : at[u] = "STAGED" => row[u] = "STAGED"
  /\ \A u \in Uploads : at[u] = "FILED" => row[u] = "STAGED" /\ u \in file

(* While the fence is up only the purge worker writes rows. *)
DumpIsRecent ==
  backup = "DUMPED" =>
    \A p \in Backup!Pictures :
      /\ dump[p] # "STAGED"
      /\ row[p] # dump[p] => dump[p] = "PURGE_PENDING" /\ row[p] = "PURGED"

(* What was captured is whole, however long it takes to pack it. *)
CaptureIsWhole ==
  backup \in {"CAPTURED", "READY"} =>
    /\ \A p \in Backup!Pictures : dump[p] # "STAGED" /\ (dump[p] = "ONLINE" => p \in listed)
    /\ \A p \in listed : dump[p] # "NONE"

TargetIsBackup ==
  /\ target.step # "EMPTY" => backup = "READY" /\ target.rows = dump
  /\ target.step \in {"MEDIA", "RESTORED"} => target.files = listed
  /\ target.step = "RESTORED" => target.job = "DISCARDED"

BackupInv ==
  Backup!TypeOK /\ FenceExcludes /\ FilesHaveRows /\ DumpIsRecent /\ CaptureIsWhole /\ TargetIsBackup

(* The steps by what they are about. *)
SessionMoves ==
  \/ \E s \in Backup!Sessions : Backup!Enter(s) \/ Backup!Die(s)
  \/ \E s \in Orders : Backup!AskExclusive(s) \/ Backup!Deadlocked(s) \/ Backup!OrderAgain(s)
  \/ UNCHANGED Backup!vars
UploadMoves ==
  \E u \in Uploads : Backup!Stage(u) \/ Backup!StoreFile(u) \/ Backup!StoreRow(u) \/ Backup!Reconcile(u)
PurgeMoves ==
  \/ \E s \in Orders : Backup!PlaceOrder(s)
  \/ \E p \in Backup!Pictures : Backup!PurgeFile(p) \/ Backup!PurgeRow(p)
BackupMoves == Backup!BackupStep \/ Backup!BackupFails \/ Backup!NextBackup
RestoreMoves == Backup!RestoreDatabase \/ Backup!RestoreMedia \/ Backup!Finalize

LEMMA BackupKinds ==
  ASSUME [Backup!Next]_Backup!vars
  PROVE  SessionMoves \/ UploadMoves \/ PurgeMoves \/ BackupMoves \/ RestoreMoves
  BY DEF Backup!Next, Backup!SessionStep, SessionMoves, UploadMoves, PurgeMoves, BackupMoves,
     RestoreMoves

LEMMA SessionsKeepBackup ==
  ASSUME BackupInv, SessionMoves
  PROVE  BackupInv'
  <1>1. UNCHANGED <<row, file, dump, listed, target, backup>>
    BY DEF SessionMoves, Backup!Enter, Backup!Die, Backup!AskExclusive, Backup!Deadlocked,
       Backup!OrderAgain, Backup!vars
  <1>2. CASE at' = at
    BY <1>1, <1>2 DEF BackupInv, Backup!TypeOK, FenceExcludes, FilesHaveRows, DumpIsRecent,
       CaptureIsWhole, TargetIsBackup, Backup!Excluding, Backup!Sharing
  <1>3. ASSUME NEW s \in Backup!Sessions, NEW step \in {"OUT", "SHARED", "WAITING", "ERROR"},
               at' = [at EXCEPT ![s] = step],
               step = "SHARED" => ~ Backup!Excluding,
               step = "WAITING" => at[s] = "SHARED"
        PROVE  BackupInv'
    <2>1. Backup!TypeOK'
      BY <1>1, <1>3 DEF BackupInv, Backup!TypeOK, Backup!Rows
    <2>2. FenceExcludes'
      BY <1>1, <1>3 DEF BackupInv, Backup!TypeOK, FenceExcludes, Backup!Excluding, Backup!Sharing
    <2>3. FilesHaveRows'
      BY <1>1, <1>3 DEF BackupInv, Backup!TypeOK, FilesHaveRows, Backup!Sessions
    <2>q. QED BY <1>1, <2>1, <2>2, <2>3 DEF BackupInv, DumpIsRecent, CaptureIsWhole, TargetIsBackup
  <1>4. ASSUME NEW s \in Backup!Sessions, Backup!Enter(s) \/ Backup!Die(s)
        PROVE  BackupInv'
    BY <1>3, <1>4 DEF Backup!Enter, Backup!Die, Backup!Move
  <1>5. ASSUME NEW s \in Orders,
               Backup!AskExclusive(s) \/ Backup!Deadlocked(s) \/ Backup!OrderAgain(s)
        PROVE  BackupInv'
    BY <1>3, <1>5 DEF Backup!AskExclusive, Backup!Deadlocked, Backup!OrderAgain, Backup!Move,
       Backup!Sessions
  <1>q. QED BY <1>2, <1>4, <1>5 DEF SessionMoves, Backup!vars

LEMMA UploadsKeepBackup ==
  ASSUME BackupInv, UploadMoves
  PROVE  BackupInv'
  <1>1. UNCHANGED <<dump, listed, target, backup>>
    BY DEF UploadMoves, Backup!Stage, Backup!StoreFile, Backup!StoreRow, Backup!Reconcile
  <1>2. PICK u \in Uploads :
          Backup!Stage(u) \/ Backup!StoreFile(u) \/ Backup!StoreRow(u) \/ Backup!Reconcile(u)
    BY DEF UploadMoves
  <1>3. /\ u \in Backup!Sessions /\ u \in Backup!Pictures
        /\ row \in [Backup!Pictures -> {"NONE", "STAGED", "ONLINE", "PURGE_PENDING", "PURGED"}]
        /\ at \in [Backup!Sessions -> {"OUT", "SHARED", "STAGED", "FILED", "WAITING", "DONE", "ERROR"}]
        /\ Uploads \subseteq Backup!Sessions /\ Uploads \subseteq Backup!Pictures
    BY DEF BackupInv, Backup!TypeOK, Backup!Sessions, Backup!Pictures, Backup!Rows
  <1>4. Backup!TypeOK'
    BY <1>1, <1>2, <1>3 DEF BackupInv, Backup!TypeOK, Backup!Stage, Backup!StoreFile,
       Backup!StoreRow, Backup!Reconcile, Backup!Move, Backup!Rows
  <1>5. ~ Backup!Excluding
    BY <1>2, <1>3 DEF BackupInv, FenceExcludes, Backup!Sharing, Backup!Stage, Backup!StoreFile,
       Backup!StoreRow, Backup!Reconcile
  <1>6. FilesHaveRows'
    <2>1. CASE Backup!Stage(u)
      BY <1>3, <2>1 DEF BackupInv, FilesHaveRows, Backup!Stage, Backup!Move
    <2>2. CASE Backup!StoreFile(u)
      BY <1>3, <2>2 DEF BackupInv, FilesHaveRows, Backup!StoreFile, Backup!Move
    <2>3. CASE Backup!StoreRow(u)
      BY <1>3, <2>3 DEF BackupInv, FilesHaveRows, Backup!StoreRow, Backup!Move
    <2>4. CASE Backup!Reconcile(u)
      <3>1. at' = at /\ at[u] = "ERROR" /\ file \subseteq Backup!Pictures
        BY <2>4 DEF Backup!Reconcile, BackupInv, Backup!TypeOK
      <3>2. CASE u \in file /\ row' = [row EXCEPT ![u] = "ONLINE"] /\ file' = file
        BY <1>3, <3>1, <3>2 DEF BackupInv, FilesHaveRows
      <3>3. CASE row' = [row EXCEPT ![u] = "NONE"] /\ file' = file \ {u}
        BY <1>3, <3>1, <3>3 DEF BackupInv, FilesHaveRows
      <3>q. QED BY <2>4, <3>2, <3>3 DEF Backup!Reconcile
    <2>q. QED BY <1>2, <2>1, <2>2, <2>3, <2>4
  <1>q. QED BY <1>1, <1>4, <1>5, <1>6 DEF BackupInv, FenceExcludes, DumpIsRecent, CaptureIsWhole,
           TargetIsBackup, Backup!Excluding

LEMMA PurgesKeepBackup ==
  ASSUME BackupInv, PurgeMoves
  PROVE  BackupInv'
  <1>0. /\ row \in [Backup!Pictures -> {"NONE", "STAGED", "ONLINE", "PURGE_PENDING", "PURGED"}]
        /\ at \in [Backup!Sessions -> {"OUT", "SHARED", "STAGED", "FILED", "WAITING", "DONE", "ERROR"}]
        /\ Orders \subseteq Backup!Sessions /\ Uploads \subseteq Backup!Pictures
        /\ Uploads \subseteq Backup!Sessions
    BY DEF BackupInv, Backup!TypeOK, Backup!Sessions, Backup!Pictures, Backup!Rows
  <1>1. UNCHANGED <<dump, listed, target, backup>>
    BY DEF PurgeMoves, Backup!PlaceOrder, Backup!PurgeFile, Backup!PurgeRow
  <1>2. CASE \E s \in Orders : Backup!PlaceOrder(s)
    <2>1. PICK s \in Orders : Backup!PlaceOrder(s)
      BY <1>2
    <2>2. /\ ~ Backup!Excluding /\ at' = [at EXCEPT ![s] = "DONE"] /\ file' = file
          /\ row' = row \/ row' = [p \in Backup!Pictures |->
                                     IF row[p] = "ONLINE" THEN "PURGE_PENDING" ELSE row[p]]
      BY <2>1 DEF Backup!PlaceOrder, Backup!Move
    <2>3. Backup!TypeOK'
      BY <1>0, <1>1, <2>2 DEF BackupInv, Backup!TypeOK, Backup!Rows
    <2>4. FilesHaveRows'
      BY <1>0, <2>2 DEF BackupInv, FilesHaveRows, Backup!TypeOK
    <2>q. QED BY <1>1, <2>2, <2>3, <2>4 DEF BackupInv, FenceExcludes, DumpIsRecent,
             CaptureIsWhole, TargetIsBackup, Backup!Excluding
  <1>3. ASSUME NEW p \in Backup!Pictures, Backup!PurgeFile(p) \/ Backup!PurgeRow(p)
        PROVE  BackupInv'
    <2>1. at' = at
      BY <1>3 DEF Backup!PurgeFile, Backup!PurgeRow
    <2>2. Backup!TypeOK'
      BY <1>0, <1>1, <1>3, <2>1 DEF BackupInv, Backup!TypeOK, Backup!Rows, Backup!PurgeFile,
         Backup!PurgeRow
    <2>3. FilesHaveRows'
      <3>1. file \subseteq Backup!Pictures
        BY DEF BackupInv, Backup!TypeOK
      <3>2. CASE Backup!PurgeFile(p)
        BY <1>0, <2>1, <3>1, <3>2 DEF BackupInv, FilesHaveRows, Backup!PurgeFile
      <3>3. CASE Backup!PurgeRow(p)
        BY <1>0, <2>1, <3>1, <3>3 DEF BackupInv, FilesHaveRows, Backup!PurgeRow
      <3>q. QED BY <1>3, <3>2, <3>3
    <2>4. DumpIsRecent'
      BY <1>0, <1>1, <1>3 DEF BackupInv, DumpIsRecent, Backup!PurgeFile, Backup!PurgeRow
    <2>q. QED BY <1>1, <2>1, <2>2, <2>3, <2>4 DEF BackupInv, FenceExcludes, CaptureIsWhole,
             TargetIsBackup, Backup!Excluding, Backup!Sharing
  <1>q. QED BY <1>2, <1>3 DEF PurgeMoves

LEMMA BackupKeepsItself ==
  ASSUME BackupInv, BackupMoves
  PROVE  BackupInv'
  <1>0. /\ UNCHANGED <<at, row, file, target>> /\ backup # "READY" /\ target.step = "EMPTY"
    BY DEF BackupInv, TargetIsBackup, BackupMoves, Backup!BackupStep, Backup!StartBackup,
       Backup!RaiseFence, Backup!Snapshot, Backup!ListMedia, Backup!Pack, Backup!BackupFails,
       Backup!NextBackup
  <1>1. FilesHaveRows' /\ TargetIsBackup'
    BY <1>0 DEF BackupInv, FilesHaveRows, TargetIsBackup
  <1>2. CASE \/ Backup!StartBackup \/ Backup!RaiseFence \/ Backup!BackupFails \/ Backup!NextBackup
             \/ Backup!Snapshot /\ Backup!Blocked
    <2>1. /\ backup' \in {"IDLE", "WAITING", "FENCED", "FAILED"} /\ dump' \in Backup!Rows
          /\ listed' \subseteq Backup!Pictures /\ (backup' = "FENCED" => Backup!Sharing = {})
      BY <1>2 DEF BackupInv, Backup!TypeOK, Backup!StartBackup, Backup!RaiseFence,
         Backup!BackupFails, Backup!NextBackup, Backup!Snapshot, Backup!Becomes, Backup!Rows
    <2>q. QED BY <1>0, <1>1, <2>1 DEF BackupInv, Backup!TypeOK, FenceExcludes, DumpIsRecent,
             CaptureIsWhole, Backup!Excluding, Backup!Sharing
  <1>3. CASE Backup!Snapshot /\ ~ Backup!Blocked
    <2>1. backup' = "DUMPED" /\ dump' = row /\ listed' = listed /\ Backup!Sharing = {}
      BY <1>3 DEF Backup!Snapshot, Backup!Becomes, BackupInv, FenceExcludes, Backup!Excluding
    <2>q. QED BY <1>0, <1>1, <1>3, <2>1 DEF BackupInv, Backup!TypeOK, FenceExcludes, DumpIsRecent,
             CaptureIsWhole, Backup!Sharing, Backup!Blocked
  <1>4. CASE Backup!ListMedia
    <2>1. backup = "DUMPED" /\ backup' = "CAPTURED" /\ dump' = dump /\ listed' = file
      BY <1>4 DEF Backup!ListMedia, Backup!Becomes
    <2>2. CaptureIsWhole'
      <3>1. \A p \in Backup!Pictures : dump[p] # "STAGED" /\ (dump[p] = "ONLINE" => p \in file)
        BY <2>1 DEF BackupInv, DumpIsRecent, FilesHaveRows
      <3>2. \A p \in file : dump[p] # "NONE"
        BY <2>1 DEF BackupInv, DumpIsRecent, FilesHaveRows, Backup!TypeOK
      <3>q. QED BY <2>1, <3>1, <3>2 DEF CaptureIsWhole
    <2>q. QED BY <1>0, <1>1, <2>1, <2>2 DEF BackupInv, Backup!TypeOK, FenceExcludes, DumpIsRecent,
             Backup!Excluding
  <1>5. CASE Backup!Pack
    <2>1. /\ backup = "CAPTURED" /\ backup' \in {"READY", "FAILED"} /\ dump' = dump
          /\ listed' = listed
      BY <1>5 DEF Backup!Pack, Backup!Becomes
    <2>q. QED BY <1>0, <1>1, <2>1 DEF BackupInv, Backup!TypeOK, FenceExcludes, DumpIsRecent,
             CaptureIsWhole, Backup!Excluding
  <1>q. QED BY <1>2, <1>3, <1>4, <1>5 DEF BackupMoves, Backup!BackupStep

LEMMA RestoringKeepsBackup ==
  ASSUME BackupInv, RestoreMoves
  PROVE  BackupInv'
  <1>1. UNCHANGED <<at, row, file, backup, dump, listed>>
    BY DEF RestoreMoves, Backup!RestoreDatabase, Backup!RestoreMedia, Backup!Finalize
  <1>2. /\ target \in [step : {"EMPTY", "DATABASE", "MEDIA", "RESTORED"}, rows : Backup!Rows,
                       files : SUBSET Backup!Pictures, job : {"NONE", "BUILDING", "DISCARDED"}]
        /\ dump \in Backup!Rows /\ listed \subseteq Backup!Pictures
    BY DEF BackupInv, Backup!TypeOK
  <1>3. /\ target' \in [step : {"EMPTY", "DATABASE", "MEDIA", "RESTORED"}, rows : Backup!Rows,
                        files : SUBSET Backup!Pictures, job : {"NONE", "BUILDING", "DISCARDED"}]
        /\ TargetIsBackup'
    <2>1. CASE Backup!RestoreDatabase
      BY <1>1, <1>2, <2>1 DEF TargetIsBackup, Backup!RestoreDatabase
    <2>2. CASE Backup!RestoreMedia
      BY <1>1, <1>2, <2>2 DEF BackupInv, TargetIsBackup, Backup!RestoreMedia
    <2>3. CASE Backup!Finalize
      BY <1>1, <1>2, <2>3 DEF BackupInv, TargetIsBackup, Backup!Finalize
    <2>q. QED BY <2>1, <2>2, <2>3 DEF RestoreMoves
  <1>q. QED BY <1>1, <1>3 DEF BackupInv, Backup!TypeOK, FenceExcludes, FilesHaveRows, DumpIsRecent,
           CaptureIsWhole, Backup!Excluding, Backup!Sharing

(* Whatever the steps are: no fairness is needed.                           *)
BackupSteps == Backup!Init /\ [][Backup!Next]_Backup!vars

LEMMA BackupInvHolds == BackupSteps => []BackupInv
  <1>1. Backup!Init => BackupInv
    BY DEF Backup!Init, BackupInv, Backup!TypeOK, FenceExcludes, FilesHaveRows, DumpIsRecent,
       CaptureIsWhole, TargetIsBackup, Backup!Empty, Backup!Excluding, Backup!Rows,
       Backup!Pictures, Backup!Sessions
  <1>2. BackupInv /\ [Backup!Next]_Backup!vars => BackupInv'
    BY BackupKinds, SessionsKeepBackup, UploadsKeepBackup, PurgesKeepBackup, BackupKeepsItself,
       RestoringKeepsBackup
  <1>q. QED BY <1>1, <1>2, PTL DEF BackupSteps

(* A restored system is whole: photographs online have their files, files  *)
(* have rows, no upload is half done; however many sessions upload, order  *)
(* and die around the snapshot, and although the purge worker never looks  *)
(* at the fence (_build_system_raw, restore_system_backup.py).             *)
THEOREM RestoredSystemsAreWhole == BackupSteps => [](Backup!TypeOK /\ Backup!BackupIsWhole)
  <1>1. BackupInv => Backup!TypeOK /\ Backup!BackupIsWhole
    BY DEF BackupInv, TargetIsBackup, CaptureIsWhole, Backup!BackupIsWhole
  <1>q. QED BY <1>1, BackupInvHolds, PTL

-----------------------------------------------------------------------------
(* The photographs of one game, and their uploads. *)
CONSTANTS Keys, Kind, Image, Target, Web, NoAsset, Budgets, MaxSeason
VARIABLES published, staging, expects, asset, call, answered, tries, sweep, met

Media == INSTANCE GameMedia
MediaSteps == Media!Init /\ [][Media!Next]_Media!vars

(* A replacement is of the kind of what it replaces; the game starts with  *)
(* at most one picture of a kind that it shows once.                       *)
MediaSetup ==
  /\ NoAsset \notin Media!Assets /\ Keys \cap Old = {}
  /\ \A a \in Media!Assets : Image[a] \notin {"NONE", "PARTIAL"}
  /\ \A k \in Keys : Target[k] # NoAsset =>
       Target[k] \in Media!Assets /\ Target[k] # k /\ Kind[Target[k]] = Kind[k]
  /\ \A a, b \in Old : Kind[a] = Kind[b] /\ Kind[a] \in Media!Unique => a = b
  /\ Budgets \subseteq [Keys -> Nat]

Contents == {"NONE", "PARTIAL"} \cup {Image[a] : a \in Media!Assets}
Steps == {"IDLE", "STORE", "WRITE", "WRITING", "COMPARE", "STORED", "PROMOTE", "FAILING",
          "DISCARD", "FAIL", "RECORD"}
SweepRows ==
  [at : {"IDLE", "FOUND", "COMPARE", "MARK", "PROMOTE", "FAILING", "DISCARD", "FAIL"},
   row : Keys \cup {NoAsset}, seen : Media!StagingStatus]

MediaRows ==
  /\ season \in [status : {"PUBLISHED", "ARCHIVED"}, version : Nat]
  /\ published \in BOOLEAN
  /\ staging \in [Keys -> Media!StagingStatus]
  /\ expects \in [Keys -> Nat]
  /\ asset \in [Media!Assets -> Media!AssetRows]
  /\ file \in [Media!Assets -> Contents]
  /\ call \in [Keys -> Steps]
  /\ answered \subseteq Keys
  /\ tries \in [Keys -> [sent : Nat, left : Nat]]
  /\ sweep \in SweepRows
  /\ met \subseteq Keys

(* What is live was made, and of some kinds there is one. *)
LiveIsMade == \A a \in Media!Assets : asset[a].live => Media!Made(a)
OneLive ==
  \A a, b \in Media!Assets :
    asset[a].live /\ asset[b].live /\ Kind[a] = Kind[b] /\ Kind[a] \in Media!Unique => a = b

HasFile(a) == Media!Made(a) /\ asset[a].storage = "ONLINE" => file[a] = Image[a]

(* An upload that was in the hands of a request, or of the sweep, but never *)
(* of both.                                                                 *)
InHand(k) == k \notin met =>
  /\ HasFile(k)
  /\ staging[k] = "PROMOTED" <=> Media!Made(k)
  /\ call[k] \notin {"IDLE", "RECORD"} => staging[k] # "PROMOTED"
  /\ call[k] = "WRITING" => file[k] # "NONE"
  /\ call[k] \in {"STORED", "PROMOTE"} => file[k] = Image[k]
  /\ sweep.row = k => call[k] = "IDLE" /\ staging[k] # "PROMOTED"
  /\ sweep.row = k /\ sweep.at \in {"MARK", "PROMOTE"} => file[k] = Image[k]

OneHand ==
  /\ \A a \in Old : HasFile(a)
  /\ \A k \in Keys : InHand(k)

(* Also where the two met, nothing is promoted that was not made. *)
PromotedIsMade == \A k \in Keys : staging[k] = "PROMOTED" => Media!Made(k)

MediaInv ==
  /\ MediaRows /\ LiveIsMade /\ OneLive /\ (sweep.at = "IDLE" => sweep.row = NoAsset)
  /\ OneHand /\ PromotedIsMade

(* Rows of everything but the assets, as a step on one upload leaves them. *)
OneUpload(k) ==
  /\ season' = season /\ published' = published /\ asset' = asset
  /\ staging' \in [Keys -> Media!StagingStatus] /\ expects' \in [Keys -> Nat]
  /\ call' \in [Keys -> Steps] /\ answered' \subseteq Keys
  /\ tries' \in [Keys -> [sent : Nat, left : Nat]]
  /\ file' \in [Media!Assets -> Contents] /\ sweep' \in SweepRows
  /\ met' \in {met, met \cup {k}}
  /\ \A j \in Keys \ {k} : staging'[j] = staging[j] /\ call'[j] = call[j]
  /\ \A a \in Media!Assets \ {k} : file'[a] = file[a]
  /\ \/ sweep' = sweep
     \/ /\ sweep.row \in {k, NoAsset} /\ sweep'.row \in {k, NoAsset}
        /\ sweep'.at = "IDLE" => sweep'.row = NoAsset

LEMMA UploadKeeps ==
  ASSUME MediaSetup, MediaInv, NEW k \in Keys, OneUpload(k), InHand(k)',
         staging'[k] = "PROMOTED" => Media!Made(k)
  PROVE  MediaInv'
  <1>1. MediaRows'
    BY DEF MediaInv, MediaRows, OneUpload
  <1>2. LiveIsMade' /\ OneLive'
    BY DEF MediaInv, LiveIsMade, OneLive, OneUpload, Media!Made
  <1>3. (sweep.at = "IDLE" => sweep.row = NoAsset)'
    BY DEF MediaInv, OneUpload
  <1>4. OneHand'
    <2>1. ASSUME NEW a \in Old PROVE HasFile(a)'
      BY <2>1 DEF MediaInv, OneHand, HasFile, OneUpload, MediaSetup, Media!Assets, Media!Made
    <2>2. ASSUME NEW j \in Keys, j # k PROVE InHand(j)'
      <3>1. /\ staging'[j] = staging[j] /\ call'[j] = call[j] /\ file'[j] = file[j]
            /\ asset' = asset /\ InHand(j) /\ j # NoAsset /\ (j \in met' <=> j \in met)
        BY <2>2 DEF MediaInv, OneHand, OneUpload, MediaSetup, Media!Assets
      <3>2. sweep'.row = j => sweep' = sweep
        BY <2>2, <3>1 DEF OneUpload
      <3>q. QED BY <3>1, <3>2 DEF InHand, HasFile, Media!Made
    <2>q. QED BY <2>1, <2>2 DEF OneHand
  <1>5. PromotedIsMade'
    BY DEF MediaInv, PromotedIsMade, OneUpload, Media!Made
  <1>q. QED BY <1>1, <1>2, <1>3, <1>4, <1>5 DEF MediaInv

(* The moves of a request, by the rows they write. *)
LEMMA InHandParts ==
  ASSUME MediaSetup, MediaInv, NEW k \in Keys
  PROVE  /\ InHand(k) /\ (staging[k] = "PROMOTED" => Media!Made(k))
         /\ met \subseteq Keys
         /\ k \in Media!Assets /\ k # NoAsset /\ Image[k] \in Contents
         /\ Image[k] # "NONE" /\ Image[k] # "PARTIAL"
         /\ {"NONE", "PARTIAL"} \subseteq Contents
  BY DEF MediaSetup, MediaInv, MediaRows, OneHand, PromotedIsMade, Media!Assets, Contents

LEMMA RequestMoves ==
  ASSUME MediaSetup, MediaInv, NEW k \in Keys,
         NEW s \in Media!StagingStatus, NEW f \in Contents, NEW c \in Steps,
         staging' = [staging EXCEPT ![k] = s], file' = [file EXCEPT ![k] = f],
         call' = [call EXCEPT ![k] = c], UNCHANGED <<season, published, asset, sweep>>,
         expects' \in [Keys -> Nat], tries' \in [Keys -> [sent : Nat, left : Nat]],
         answered' \subseteq Keys,
         met' \in {met, met \cup {k}}, s = "PROMOTED" => staging[k] = "PROMOTED",
         k \notin met' => /\ sweep.row = k => c = "IDLE"
                          /\ s = "PROMOTED" <=> staging[k] = "PROMOTED"
                          /\ c \notin {"IDLE", "RECORD"} => s # "PROMOTED"
                          /\ s = "PROMOTED" => f = file[k]
                          /\ c = "WRITING" => f # "NONE"
                          /\ c \in {"STORED", "PROMOTE"} => f = Image[k]
                          /\ sweep.row = k => f = file[k]
  PROVE  MediaInv'
  <1>1. /\ staging \in [Keys -> Media!StagingStatus] /\ file \in [Media!Assets -> Contents]
        /\ call \in [Keys -> Steps] /\ sweep \in SweepRows
    BY DEF MediaInv, MediaRows
  <1>2. /\ staging'[k] = s /\ file'[k] = f /\ call'[k] = c
        /\ \A j \in Keys \ {k} : staging'[j] = staging[j] /\ call'[j] = call[j]
        /\ \A a \in Media!Assets \ {k} : file'[a] = file[a]
    BY <1>1, InHandParts
  <1>3. OneUpload(k)
    <2>1. /\ staging' \in [Keys -> Media!StagingStatus] /\ file' \in [Media!Assets -> Contents]
          /\ call' \in [Keys -> Steps]
      BY <1>1
    <2>q. QED BY <1>1, <1>2, <2>1 DEF OneUpload
  <1>4. ASSUME k \notin met' PROVE InHand(k)'
    <2>1. InHand(k) /\ k \notin met /\ asset' = asset /\ sweep' = sweep
      BY <1>4, InHandParts
    <2>2. HasFile(k)'
      BY <1>2, <1>4, <2>1 DEF InHand, HasFile, Media!Made
    <2>q. QED BY <1>2, <1>4, <2>1, <2>2 DEF InHand, Media!Made
  <1>5. InHand(k)' /\ (staging'[k] = "PROMOTED" => Media!Made(k))
    BY <1>2, <1>4, InHandParts DEF InHand
  <1>q. QED BY <1>3, <1>5, UploadKeeps

LEMMA SweepMoves ==
  ASSUME MediaSetup, MediaInv, NEW k \in Keys,
         NEW s \in Media!StagingStatus, NEW f \in Contents, sweep' \in SweepRows,
         staging' = [staging EXCEPT ![k] = s], file' = [file EXCEPT ![k] = f],
         UNCHANGED <<season, published, expects, asset, call, answered, tries>>,
         sweep.row \in {k, NoAsset}, sweep'.row \in {k, NoAsset},
         sweep'.at = "IDLE" => sweep'.row = NoAsset,
         met' \in {met, met \cup {k}}, s = "PROMOTED" => staging[k] = "PROMOTED",
         k \notin met' => /\ call[k] = "IDLE" /\ staging[k] # "PROMOTED"
                          /\ sweep'.at \in {"MARK", "PROMOTE"} => f = Image[k]
  PROVE  MediaInv'
  <1>1. /\ staging \in [Keys -> Media!StagingStatus] /\ file \in [Media!Assets -> Contents]
        /\ call \in [Keys -> Steps] /\ expects \in [Keys -> Nat]
        /\ tries \in [Keys -> [sent : Nat, left : Nat]] /\ answered \subseteq Keys
    BY DEF MediaInv, MediaRows
  <1>2. /\ staging'[k] = s /\ file'[k] = f
        /\ \A j \in Keys \ {k} : staging'[j] = staging[j]
        /\ \A a \in Media!Assets \ {k} : file'[a] = file[a]
    BY <1>1, InHandParts
  <1>3. OneUpload(k)
    <2>1. staging' \in [Keys -> Media!StagingStatus] /\ file' \in [Media!Assets -> Contents]
      BY <1>1
    <2>q. QED BY <1>1, <1>2, <2>1 DEF OneUpload
  <1>4. ASSUME k \notin met' PROVE InHand(k)'
    <2>1. InHand(k) /\ k \notin met /\ asset' = asset /\ call' = call
      BY <1>4, InHandParts
    <2>2. HasFile(k)'
      BY <1>2, <1>4, <2>1 DEF InHand, HasFile, Media!Made
    <2>q. QED BY <1>2, <1>4, <2>1, <2>2 DEF InHand, Media!Made
  <1>5. InHand(k)' /\ (staging'[k] = "PROMOTED" => Media!Made(k))
    BY <1>2, <1>4, InHandParts DEF InHand
  <1>q. QED BY <1>3, <1>5, UploadKeeps

LEMMA DeletionChanges ==
  ASSUME NEW old \in Media!AssetRows
  PROVE  LET new == [old EXCEPT !.live = FALSE, !.version = old.version + 1]
         IN  /\ new \in Media!AssetRows /\ ~new.live /\ new.storage = old.storage
             /\ new.version > 0
  <1>1. old.version \in Nat /\ old.version + 1 \in Nat /\ old.version + 1 > 0
    BY DEF Media!AssetRows
  <1>q. QED BY <1>1 DEF Media!AssetRows

LEMMA SeasonBumps ==
  ASSUME season \in [status : {"PUBLISHED", "ARCHIVED"}, version : Nat]
  PROVE  Media!Bumped \in [status : {"PUBLISHED", "ARCHIVED"}, version : Nat]
  <1>1. season.version + 1 \in Nat
    OBVIOUS
  <1>q. QED BY <1>1 DEF Media!Bumped

(* What a step that promotes does to the assets. *)
LEMMA PromotionKeeps ==
  ASSUME MediaSetup, MediaInv, NEW k \in Keys, Media!Promote(k),
         NEW c \in Steps, call' = [call EXCEPT ![k] = c],
         sweep' \in SweepRows, sweep'.at = "IDLE" => sweep'.row = NoAsset,
         sweep' = sweep \/ sweep'.row = NoAsset,
         UNCHANGED <<published, expects, file, answered, tries, met>>,
         k \notin met => file[k] = Image[k] /\ sweep'.row # k /\ c \in {"IDLE", "RECORD"}
  PROVE  MediaInv'
  <1> DEFINE t == Target[k]
  <1>1. /\ k \in Media!Assets /\ ~Media!Made(k) /\ k # t /\ ~asset[k].live
        /\ t \in Media!Assets => asset[t].live /\ Media!Made(t) /\ Kind[t] = Kind[k]
        /\ t \notin Media!Assets => t = NoAsset
        /\ t = NoAsset /\ Kind[k] \in Media!Unique => Media!LiveOfKind(Kind[k]) = {}
    BY InHandParts DEF MediaSetup, MediaInv, LiveIsMade, Media!Promote, Media!Promotable,
       Media!PlaceFree, Media!TargetAsSeen
  <1>2. /\ asset \in [Media!Assets -> Media!AssetRows] /\ staging \in [Keys -> Media!StagingStatus]
        /\ call \in [Keys -> Steps] /\ sweep \in SweepRows
    BY DEF MediaInv, MediaRows
  <1>3. /\ asset'[k] = [live |-> TRUE, storage |-> "ONLINE", version |-> 1]
        /\ t \in Media!Assets =>
             asset'[t] = [asset[t] EXCEPT !.live = FALSE, !.version = asset[t].version + 1]
        /\ \A a \in Media!Assets \ {k, t} : asset'[a] = asset[a]
    BY <1>1 DEF Media!Promote
  <1>4. \A a \in Media!Assets \ {k} :
          /\ asset'[a] \in Media!AssetRows /\ asset'[a].storage = asset[a].storage
          /\ asset'[a].live => asset[a].live /\ a # t
          /\ (asset'[a].version > 0) = (asset[a].version > 0)
    <2>1. ASSUME NEW a \in Media!Assets, a # k, a # t
          PROVE  /\ asset'[a] = asset[a] /\ asset[a] \in Media!AssetRows
      BY <1>2, <1>3, <2>1
    <2>2. ASSUME t \in Media!Assets
          PROVE  /\ asset'[t] \in Media!AssetRows /\ asset'[t].storage = asset[t].storage
                 /\ ~asset'[t].live /\ asset'[t].version > 0 /\ asset[t].version > 0
      <3>1. asset[t] \in Media!AssetRows /\ asset[t].version \in Nat
        BY <1>2, <2>2 DEF Media!AssetRows
      <3>2. asset'[t] = [asset[t] EXCEPT !.live = FALSE, !.version = asset[t].version + 1]
        BY <1>3, <2>2
      <3>3. asset[t].version > 0
        BY <1>1, <2>2 DEF Media!Made
      <3>4. LET new == [asset[t] EXCEPT !.live = FALSE, !.version = asset[t].version + 1]
            IN  /\ new \in Media!AssetRows /\ ~new.live /\ new.storage = asset[t].storage
                /\ new.version > 0
        BY <3>1, DeletionChanges
      <3>q. QED BY <3>2, <3>3, <3>4
    <2>q. QED BY <2>1, <2>2
  <1>5. asset' \in [Media!Assets -> Media!AssetRows]
    <2>1. asset'[k] \in Media!AssetRows
      BY <1>3 DEF Media!AssetRows
    <2> DEFINE New(a) ==
           CASE a = k -> [live |-> TRUE, storage |-> "ONLINE", version |-> 1]
             [] a = Target[k] -> [asset[a] EXCEPT !.live = FALSE, !.version = @ + 1]
             [] OTHER -> asset[a]
    <2>2. asset' = [a \in Media!Assets |-> New(a)]
      BY DEF Media!Promote
    <2>3. ASSUME NEW a \in Media!Assets PROVE New(a) \in Media!AssetRows
      <3>1. asset'[a] \in Media!AssetRows
        BY <1>4, <2>1
      <3>2. asset'[a] = New(a)
        BY <2>2
      <3>q. QED BY <3>1, <3>2
    <2> HIDE DEF New
    <2>q. QED BY <2>2, <2>3
  <1>6. staging' = [staging EXCEPT ![k] = "PROMOTED"] /\ staging' \in [Keys -> Media!StagingStatus]
    BY <1>2 DEF Media!Promote, Media!StagingStatus
  <1>7. season' \in [status : {"PUBLISHED", "ARCHIVED"}, version : Nat]
    BY SeasonBumps DEF MediaInv, MediaRows, Media!Promote
  <1>8. MediaRows'
    BY <1>2, <1>5, <1>6, <1>7 DEF MediaInv, MediaRows
  <1>9. LiveIsMade'
    BY <1>3, <1>4 DEF MediaInv, LiveIsMade, Media!Made
  <1>10. OneLive'
    <2>1. ASSUME NEW a \in Media!Assets, a # k, asset'[a].live,
                 Kind[a] = Kind[k], Kind[k] \in Media!Unique
          PROVE  FALSE
      <3>1. asset[a].live /\ a # t
        BY <1>4, <2>1
      <3>2. CASE t \in Media!Assets
        BY <1>1, <2>1, <3>1, <3>2 DEF MediaInv, OneLive
      <3>3. CASE t \notin Media!Assets
        BY <1>1, <2>1, <3>1, <3>3 DEF Media!LiveOfKind
      <3>q. QED BY <3>2, <3>3
    <2>2. ASSUME NEW a \in Media!Assets, NEW b \in Media!Assets, a # k, b # k,
                 asset'[a].live, asset'[b].live, Kind[a] = Kind[b], Kind[a] \in Media!Unique
          PROVE  a = b
      BY <1>4, <2>2 DEF MediaInv, OneLive
    <2>q. QED BY <2>1, <2>2 DEF OneLive
  <1>11. OneHand'
    <2>2. ASSUME k \notin met PROVE InHand(k)'
      <3>1. /\ staging'[k] = "PROMOTED" /\ call'[k] \in {"IDLE", "RECORD"}
            /\ file'[k] = Image[k] /\ sweep'.row # k
        BY <1>2, <1>6, <2>2
      <3>2. asset'[k].version > 0
        BY <1>3
      <3>q. QED BY <3>1, <3>2 DEF InHand, HasFile, Media!Made
    <2>3. ASSUME NEW a \in Media!Assets, a # k, HasFile(a) PROVE HasFile(a)'
      BY <1>4, <2>3 DEF HasFile, Media!Made
    <2>4. ASSUME NEW j \in Keys, j # k PROVE InHand(j)'
      <3>1. /\ staging'[j] = staging[j] /\ call'[j] = call[j] /\ file'[j] = file[j]
            /\ InHand(j) /\ j \in Media!Assets /\ j # NoAsset
        BY <1>2, <1>6, <2>4 DEF MediaInv, OneHand, Media!Assets, MediaSetup
      <3>2. (j \notin met => HasFile(j)') /\ (Media!Made(j)' <=> Media!Made(j))
        BY <1>4, <2>3, <2>4, <3>1 DEF InHand, Media!Made
      <3>3. sweep'.row = j => sweep' = sweep
        BY <3>1
      <3>q. QED BY <3>1, <3>2, <3>3 DEF InHand
    <2>5. \A a \in Old : HasFile(a)'
      BY <2>3 DEF MediaInv, OneHand, MediaSetup, Media!Assets
    <2>6. InHand(k)'
      BY <2>2 DEF InHand
    <2>q. QED BY <2>4, <2>5, <2>6 DEF OneHand
  <1>12. (sweep.at = "IDLE" => sweep.row = NoAsset)'
    BY DEF MediaInv
  <1>13. PromotedIsMade'
    <2>1. asset'[k].version > 0
      BY <1>3
    <2>2. ASSUME NEW j \in Keys, j # k, staging'[j] = "PROMOTED" PROVE Media!Made(j)'
      <3>1. j \in Media!Assets /\ Media!Made(j)
        BY <1>2, <1>6, <2>2 DEF MediaInv, PromotedIsMade, Media!Assets
      <3>q. QED BY <1>4, <2>2, <3>1 DEF Media!Made
    <2>q. QED BY <2>1, <2>2 DEF PromotedIsMade, Media!Made
  <1>q. QED BY <1>8, <1>9, <1>10, <1>11, <1>12, <1>13 DEF MediaInv

LEMMA KeyRows ==
  ASSUME MediaSetup, MediaInv, NEW k \in Keys
  PROVE  /\ staging[k] \in Media!StagingStatus /\ file[k] \in Contents /\ call[k] \in Steps
         /\ staging = [staging EXCEPT ![k] = staging[k]] /\ file = [file EXCEPT ![k] = file[k]]
         /\ call = [call EXCEPT ![k] = call[k]]
         /\ expects \in [Keys -> Nat] /\ tries \in [Keys -> [sent : Nat, left : Nat]]
         /\ answered \subseteq Keys /\ sweep \in SweepRows
         /\ sweep.at = "IDLE" => sweep.row = NoAsset
  BY InHandParts DEF MediaInv, MediaRows

LEMMA BeginKeeps ==
  ASSUME MediaSetup, MediaInv, NEW k \in Keys, Media!Begin(k)
  PROVE  MediaInv'
  <1> USE KeyRows, InHandParts
  <1>1. tries' \in [Keys -> [sent : Nat, left : Nat]]
    <2>1. tries[k] \in [sent : Nat, left : Nat] /\ tries[k].left > 0
      BY DEF Media!Begin
    <2>2. tries[k].sent + 1 \in Nat /\ tries[k].left - 1 \in Nat
      BY <2>1
    <2> DEFINE new == [sent |-> tries[k].sent + 1, left |-> tries[k].left - 1]
    <2>3. tries' = [tries EXCEPT ![k] = new] /\ new \in [sent : Nat, left : Nat]
      BY <2>2 DEF Media!Begin
    <2> HIDE DEF new
    <2>q. QED BY <2>3
  <1>2. /\ call[k] = "IDLE" /\ met' \in {met, met \cup {k}} /\ (k \notin met' => sweep.row # k)
        /\ UNCHANGED <<season, published, asset, file, answered, sweep>>
    BY DEF Media!Begin
  <1>3. PICK s \in Media!StagingStatus, c \in {"STORE", "RECORD"} :
          /\ staging' = [staging EXCEPT ![k] = s] /\ call' = [call EXCEPT ![k] = c]
          /\ s = "PROMOTED" <=> staging[k] = "PROMOTED"
          /\ c = "STORE" => s # "PROMOTED"
          /\ expects' \in [Keys -> Nat]
    <2>1. CASE staging[k] = "PROMOTED" /\ Media!Goto(k, "RECORD") /\ UNCHANGED <<staging, expects>>
      BY <2>1 DEF Media!Goto
    <2>2. CASE Media!TakesUp(k)
      BY <2>2 DEF Media!TakesUp, Media!Goto
    <2>3. CASE Media!CreateUpload(k)
      BY <2>3 DEF Media!CreateUpload, Media!Creates, Media!Goto, Media!StagingStatus
    <2>4. CASE Media!CreateReplacement(k)
      <3>1. Target[k] \in Media!Assets /\ asset \in [Media!Assets -> Media!AssetRows]
        BY <2>4 DEF Media!CreateReplacement, MediaSetup, MediaInv, MediaRows
      <3>2. asset[Target[k]].version \in Nat
        BY <3>1 DEF Media!AssetRows
      <3>3. expects' \in [Keys -> Nat]
        BY <2>4, <3>2 DEF Media!CreateReplacement
      <3>q. QED BY <2>4, <3>3 DEF Media!CreateReplacement, Media!Creates, Media!Goto,
               Media!StagingStatus
    <2>q. QED BY <2>1, <2>2, <2>3, <2>4 DEF Media!Begin
  <1>4. c \in Steps
    BY DEF Steps
  <1>5. file' = [file EXCEPT ![k] = file[k]]
    BY <1>2
  <1>6. answered' \subseteq Keys
    BY <1>2
  <1>q. QED BY <1>1, <1>2, <1>3, <1>4, <1>5, <1>6, RequestMoves

(* The steps of a request that write its row and its file. *)
LEMMA RequestWorks ==
  ASSUME MediaSetup, MediaInv, NEW k \in Keys,
         \/ Media!Resume(k) \/ Media!OpenFile(k) \/ Media!CompareFile(k)
         \/ Media!WriteFile(k) \/ Media!MarkStored(k)
  PROVE  MediaInv'
  <1> USE KeyRows, InHandParts
  <1>1. /\ UNCHANGED <<season, published, expects, asset, answered, tries, sweep, met>>
        /\ call[k] \in {"STORE", "WRITE", "COMPARE", "WRITING", "STORED"}
    BY DEF Media!Resume, Media!OpenFile, Media!CompareFile, Media!WriteFile, Media!MarkStored
  <1>2. expects' \in [Keys -> Nat] /\ tries' \in [Keys -> [sent : Nat, left : Nat]]
        /\ answered' \subseteq Keys
    BY <1>1
  <1>3. k \notin met => sweep.row # k /\ staging[k] # "PROMOTED"
    BY <1>1 DEF InHand
  <1>4. CASE Media!Resume(k) \/ Media!MarkStored(k)
    <2>1. PICK s \in Media!StagingStatus, c \in {"PROMOTE", "FAILING", "WRITE"} :
            /\ staging' = [staging EXCEPT ![k] = s] /\ call' = [call EXCEPT ![k] = c]
            /\ s = "PROMOTED" <=> staging[k] = "PROMOTED"
            /\ c = "PROMOTE" => staging[k] = "PROMOTED" \/ call[k] = "STORED"
      <3>1. CASE Media!Resume(k)
        BY <3>1 DEF Media!Resume, Media!Goto, Media!StagingStatus, Media!Pending
      <3>2. CASE Media!MarkStored(k)
        BY <3>2 DEF Media!MarkStored, Media!Goto, Media!StagingStatus, Media!Pending
      <3>q. QED BY <1>4, <3>1, <3>2
    <2>2. c \in Steps
      BY DEF Steps
    <2>3. file' = [file EXCEPT ![k] = file[k]]
      BY <1>4 DEF Media!Resume, Media!MarkStored
    <2>4. k \notin met /\ c = "PROMOTE" => file[k] = Image[k]
      BY <1>3, <2>1 DEF InHand
    <2>q. QED BY <1>1, <1>2, <1>3, <2>1, <2>2, <2>3, <2>4, RequestMoves
  <1>5. CASE Media!OpenFile(k) \/ Media!CompareFile(k) \/ Media!WriteFile(k)
    <2>1. PICK f \in Contents, c \in {"WRITING", "COMPARE", "STORED", "FAILING"} :
            /\ file' = [file EXCEPT ![k] = f] /\ call' = [call EXCEPT ![k] = c]
            /\ c = "WRITING" => f # "NONE"
            /\ k \notin met /\ c = "STORED" => f = Image[k]
      <3>1. CASE Media!OpenFile(k) \/ Media!CompareFile(k)
        BY <3>1 DEF Media!OpenFile, Media!CompareFile, Media!Goto, Media!FileExists,
           Media!FileMatches
      <3>2. CASE Media!WriteFile(k)
        <4>1. k \notin met => file[k] # "NONE"
          BY <3>2 DEF Media!WriteFile, InHand
        <4>2. CASE file' = [file EXCEPT ![k] = "NONE"] /\ Media!Goto(k, "FAILING")
          BY <4>2 DEF Media!Goto
        <4>3. CASE /\ file' = [file EXCEPT ![k] = IF file[k] = "NONE" THEN file[k] ELSE Image[k]]
                   /\ Media!Goto(k, "STORED")
          <5> DEFINE f == IF file[k] = "NONE" THEN file[k] ELSE Image[k]
          <5>1. f \in Contents /\ (k \notin met => f = Image[k])
            BY <4>1
          <5>2. file' = [file EXCEPT ![k] = f] /\ call' = [call EXCEPT ![k] = "STORED"]
            BY <4>3 DEF Media!Goto
          <5> HIDE DEF f
          <5>q. QED BY <5>1, <5>2
        <4>q. QED BY <3>2, <4>2, <4>3 DEF Media!WriteFile
      <3>q. QED BY <1>5, <3>1, <3>2
    <2>2. c \in Steps
      BY DEF Steps
    <2>3. staging' = [staging EXCEPT ![k] = staging[k]]
      BY <1>5 DEF Media!OpenFile, Media!CompareFile, Media!WriteFile
    <2>q. QED BY <1>1, <1>2, <1>3, <2>1, <2>2, <2>3, RequestMoves
  <1>q. QED BY <1>4, <1>5

(* The steps after a request that failed, succeeded or died. *)
LEMMA EndingKeeps ==
  ASSUME MediaSetup, MediaInv, NEW k \in Keys,
         Media!Failing(k) \/ Media!Discard(k) \/ Media!Fail(k) \/ Media!Record(k) \/ Media!Crash(k)
  PROVE  MediaInv'
  <1> USE KeyRows, InHandParts
  <1>1. UNCHANGED <<season, published, expects, asset, tries, sweep, met>>
    BY DEF Media!Failing, Media!Discard, Media!Fail, Media!Record, Media!Crash
  <1>2. expects' \in [Keys -> Nat] /\ tries' \in [Keys -> [sent : Nat, left : Nat]]
        /\ answered' \subseteq Keys
    BY <1>1 DEF Media!Failing, Media!Discard, Media!Fail, Media!Record, Media!Crash
  <1>3. PICK s \in Media!StagingStatus, f \in Contents, c \in {"IDLE", "DISCARD", "FAIL"} :
          /\ staging' = [staging EXCEPT ![k] = s] /\ file' = [file EXCEPT ![k] = f]
          /\ call' = [call EXCEPT ![k] = c]
          /\ s = "PROMOTED" <=> staging[k] = "PROMOTED"
          /\ c # "IDLE" => call[k] \in {"FAILING", "DISCARD"}
          /\ f # file[k] => call[k] = "DISCARD"
    <2>1. CASE Media!Failing(k)
      BY <2>1 DEF Media!Failing, Media!Goto
    <2>2. CASE Media!Discard(k)
      BY <2>2 DEF Media!Discard, Media!Goto
    <2>3. CASE Media!Fail(k)
      BY <2>3 DEF Media!Fail, Media!Failed, Media!Goto, Media!StagingStatus
    <2>4. CASE Media!Record(k) \/ Media!Crash(k)
      BY <2>4 DEF Media!Record, Media!Crash, Media!Goto
    <2>q. QED BY <2>1, <2>2, <2>3, <2>4
  <1>4. c \in Steps
    BY DEF Steps
  <1>5. k \notin met => /\ sweep.row = k => c = "IDLE" /\ f = file[k]
                        /\ c # "IDLE" => s # "PROMOTED"
                        /\ s = "PROMOTED" => f = file[k]
    BY <1>3 DEF InHand
  <1>q. QED BY <1>1, <1>2, <1>3, <1>4, <1>5, RequestMoves

LEMMA PromotingKeeps ==
  ASSUME MediaSetup, MediaInv, NEW k \in Keys, Media!RequestPromotes(k) \/ Media!SweepPromotes(k)
  PROVE  MediaInv'
  <1> USE KeyRows, InHandParts
  <1>1. ASSUME Media!RequestPromotes(k) PROVE MediaInv'
    <2>1. /\ call[k] = "PROMOTE"
          /\ UNCHANGED <<published, expects, file, answered, tries, sweep, met>>
          /\ k \notin met => sweep.row # k /\ file[k] = Image[k] /\ staging[k] # "PROMOTED"
      BY <1>1 DEF Media!RequestPromotes, InHand
    <2>2. /\ expects' \in [Keys -> Nat] /\ tries' \in [Keys -> [sent : Nat, left : Nat]]
          /\ answered' \subseteq Keys
      BY <2>1
    <2>3. ASSUME NEW c \in {"RECORD", "FAILING"}, call' = [call EXCEPT ![k] = c],
                 UNCHANGED <<asset, season, staging>>
          PROVE  MediaInv'
      <3>1. c \in Steps /\ c \notin {"WRITING", "STORED", "PROMOTE", "IDLE"}
        BY DEF Steps
      <3>2. staging' = [staging EXCEPT ![k] = staging[k]] /\ file' = [file EXCEPT ![k] = file[k]]
        BY <2>1, <2>3
      <3>q. QED BY <2>1, <2>2, <2>3, <3>1, <3>2, RequestMoves
    <2>4. CASE Media!Promote(k) /\ Media!Goto(k, "RECORD")
      <3>1. call' = [call EXCEPT ![k] = "RECORD"] /\ "RECORD" \in Steps
        BY <2>4 DEF Media!Goto, Steps
      <3>2. /\ sweep' \in SweepRows /\ sweep' = sweep
            /\ sweep'.at = "IDLE" => sweep'.row = NoAsset
        BY <2>1
      <3>q. QED BY <2>1, <2>4, <3>1, <3>2, PromotionKeeps
    <2>q. QED BY <1>1, <2>3, <2>4 DEF Media!RequestPromotes, Media!Goto
  <1>2. ASSUME Media!SweepPromotes(k) PROVE MediaInv'
    <2>1. /\ sweep.row = k /\ sweep.at = "PROMOTE"
          /\ UNCHANGED <<published, expects, file, call, answered, tries, met>>
          /\ k \notin met => call[k] = "IDLE" /\ staging[k] # "PROMOTED" /\ file[k] = Image[k]
      BY <1>2 DEF Media!SweepPromotes, InHand
    <2>2. CASE Media!Promote(k) /\ Media!SweepDone
      <3>1. sweep' \in SweepRows /\ sweep'.row = NoAsset
        BY <2>2 DEF Media!SweepDone, SweepRows, Media!StagingStatus
      <3>2. call' = [call EXCEPT ![k] = call[k]]
        BY <2>1
      <3>q. QED BY <2>1, <2>2, <3>1, <3>2, PromotionKeeps
    <2>3. CASE UNCHANGED <<asset, season, staging>> /\ (Media!SweepDone \/ Media!SweepTo("FAILING"))
      <3>1. /\ sweep' \in SweepRows /\ sweep'.row \in {k, NoAsset}
            /\ sweep'.at \in {"IDLE", "FAILING"} /\ (sweep'.at = "IDLE" => sweep'.row = NoAsset)
        BY <2>1, <2>3 DEF Media!SweepDone, Media!SweepTo, SweepRows, Media!StagingStatus
      <3>2. staging' = [staging EXCEPT ![k] = staging[k]] /\ file' = [file EXCEPT ![k] = file[k]]
        BY <2>1, <2>3
      <3>3. /\ sweep.row \in {k, NoAsset} /\ (sweep'.at = "IDLE" => sweep'.row = NoAsset)
            /\ ~(sweep'.at \in {"MARK", "PROMOTE"})
            /\ UNCHANGED <<season, published, expects, asset, call, answered, tries>>
        BY <2>1, <2>3, <3>1
      <3>q. QED BY <2>1, <3>1, <3>2, <3>3, SweepMoves
    <2>q. QED BY <1>2, <2>2, <2>3 DEF Media!SweepPromotes
  <1>q. QED BY <1>1, <1>2

LEMMA SweepKeeps ==
  ASSUME MediaSetup, MediaInv, NEW k \in Keys,
         \/ Media!SweepFinds(k) \/ Media!SweepChecks(k) \/ Media!SweepCompares(k)
         \/ Media!SweepMarks(k) \/ Media!SweepFails(k)
  PROVE  MediaInv'
  <1> USE KeyRows, InHandParts
  <1>1. /\ UNCHANGED <<season, published, expects, asset, call, answered, tries>>
        /\ sweep.row \in {k, NoAsset} /\ met' \in {met, met \cup {k}}
    <2>1. CASE Media!SweepFinds(k)
      BY <2>1 DEF Media!SweepFinds
    <2>2. CASE Media!SweepChecks(k) \/ Media!SweepCompares(k)
      BY <2>2 DEF Media!SweepChecks, Media!SweepCompares
    <2>3. CASE Media!SweepMarks(k)
      BY <2>3 DEF Media!SweepMarks
    <2>4. CASE Media!SweepFails(k)
      BY <2>4 DEF Media!SweepFails
    <2>q. QED BY <2>1, <2>2, <2>3, <2>4
  <1>2. k \notin met' => call[k] = "IDLE" /\ staging[k] # "PROMOTED"
    <2>1. CASE Media!SweepFinds(k)
      BY <2>1 DEF Media!SweepFinds, Media!Candidate
    <2>2. CASE sweep.row = k /\ met' = met
      BY <2>2 DEF InHand
    <2>q. QED BY <2>1, <2>2 DEF Media!SweepChecks, Media!SweepCompares, Media!SweepMarks,
             Media!SweepFails
  <1>3. CASE Media!SweepFinds(k)
    <2>1. /\ sweep' \in SweepRows /\ sweep'.row = k /\ sweep'.at = "FOUND"
          /\ staging' = [staging EXCEPT ![k] = staging[k]] /\ file' = [file EXCEPT ![k] = file[k]]
      BY <1>3 DEF Media!SweepFinds, SweepRows
    <2>q. QED BY <1>1, <1>2, <2>1, SweepMoves
  <1>4. CASE Media!SweepChecks(k)
    <2>1. staging' = [staging EXCEPT ![k] = staging[k]] /\ sweep.row = k
      BY <1>4 DEF Media!SweepChecks
    <2>2. CASE file' = [file EXCEPT ![k] = "NONE"] /\ Media!SweepDone
      <3>1. sweep' \in SweepRows /\ sweep'.row = NoAsset /\ sweep'.at = "IDLE"
        BY <2>2 DEF Media!SweepDone, SweepRows, Media!StagingStatus
      <3>q. QED BY <1>1, <1>2, <2>1, <2>2, <3>1, SweepMoves
    <2>3. CASE file' = file /\ sweep.seen # "FAILED"
      <3>1. PICK step \in {"FAIL", "COMPARE"} : Media!SweepTo(step)
        BY <1>4, <2>3 DEF Media!SweepChecks
      <3>2. sweep' \in SweepRows /\ sweep'.row = k /\ sweep'.at = step
        BY <2>1, <3>1 DEF Media!SweepTo, SweepRows
      <3>3. file' = [file EXCEPT ![k] = file[k]]
        BY <2>3
      <3>q. QED BY <1>1, <1>2, <2>1, <3>1, <3>2, <3>3, SweepMoves
    <2>q. QED BY <1>4, <2>2, <2>3 DEF Media!SweepChecks
  <1>7. CASE Media!SweepCompares(k)
    <2>1. /\ staging' = [staging EXCEPT ![k] = staging[k]] /\ file' = [file EXCEPT ![k] = file[k]]
          /\ sweep.row = k
      BY <1>7 DEF Media!SweepCompares
    <2>2. \/ Media!SweepDone
          \/ \E step \in {"MARK", "PROMOTE", "FAILING"} :
               Media!SweepTo(step) /\ (step # "FAILING" => file[k] = Image[k])
      BY <1>7 DEF Media!SweepCompares, Media!FileMatches
    <2>3. /\ sweep' \in SweepRows /\ sweep'.row \in {k, NoAsset}
          /\ sweep'.at = "IDLE" => sweep'.row = NoAsset
          /\ sweep'.at \in {"MARK", "PROMOTE"} => file[k] = Image[k]
      BY <2>1, <2>2 DEF Media!SweepDone, Media!SweepTo, SweepRows, Media!StagingStatus
    <2>q. QED BY <1>1, <1>2, <2>1, <2>3, SweepMoves
  <1>5. CASE Media!SweepMarks(k)
    <2>1. /\ sweep.row = k /\ sweep.at = "MARK" /\ file' = [file EXCEPT ![k] = file[k]]
          /\ k \notin met' => file[k] = Image[k]
      BY <1>5 DEF Media!SweepMarks, InHand
    <2>2. PICK s \in Media!StagingStatus :
            /\ staging' = [staging EXCEPT ![k] = s] /\ s \in {staging[k], "STORED"}
            /\ Media!SweepDone \/ Media!SweepTo("PROMOTE")
      BY <1>5 DEF Media!SweepMarks, Media!StagingStatus
    <2>3. /\ sweep' \in SweepRows /\ sweep'.row \in {k, NoAsset}
          /\ sweep'.at = "IDLE" => sweep'.row = NoAsset
      BY <2>1, <2>2 DEF Media!SweepDone, Media!SweepTo, SweepRows, Media!StagingStatus
    <2>q. QED BY <1>1, <1>2, <2>1, <2>2, <2>3, SweepMoves
  <1>6. CASE Media!SweepFails(k)
    <2>1. PICK s \in Media!StagingStatus, f \in Contents :
            /\ staging' = [staging EXCEPT ![k] = s] /\ file' = [file EXCEPT ![k] = f]
            /\ s \in {staging[k], "FAILED"}
            /\ Media!SweepDone \/ Media!SweepTo("DISCARD") \/ Media!SweepTo("FAIL")
      <3>1. CASE sweep.at = "FAILING"
        BY <1>6, <3>1 DEF Media!SweepFails
      <3>2. CASE sweep.at = "DISCARD"
        BY <1>6, <3>2 DEF Media!SweepFails
      <3>3. CASE sweep.at = "FAIL"
        BY <1>6, <3>3 DEF Media!SweepFails, Media!Failed, Media!StagingStatus
      <3>q. QED BY <1>6, <3>1, <3>2, <3>3 DEF Media!SweepFails
    <2>2. sweep.row = k
      BY <1>6 DEF Media!SweepFails
    <2>3. /\ sweep' \in SweepRows /\ sweep'.row \in {k, NoAsset}
          /\ sweep'.at \in {"IDLE", "DISCARD", "FAIL"}
          /\ sweep'.at = "IDLE" => sweep'.row = NoAsset
      BY <2>1, <2>2 DEF Media!SweepDone, Media!SweepTo, SweepRows, Media!StagingStatus
    <2>q. QED BY <1>1, <1>2, <2>1, <2>3, SweepMoves
  <1>q. QED BY <1>3, <1>4, <1>5, <1>6, <1>7

(* Deletion, restoration and purge write one asset that was made, and its  *)
(* file.                                                                   *)
LEMMA AssetMoves ==
  ASSUME MediaSetup, MediaInv, NEW a \in Media!Assets, Media!Made(a),
         NEW new \in Media!AssetRows, NEW f \in Contents,
         asset' = [asset EXCEPT ![a] = new], file' = [file EXCEPT ![a] = f],
         new.version > 0, new.live => asset[a].live,
         new.storage = "ONLINE" => f = Image[a] \/ (f = file[a] /\ asset[a].storage = "ONLINE"),
         season' \in [status : {"PUBLISHED", "ARCHIVED"}, version : Nat],
         UNCHANGED <<published, staging, expects, call, answered, tries, sweep, met>>
  PROVE  MediaInv'
  <1>1. asset \in [Media!Assets -> Media!AssetRows] /\ file \in [Media!Assets -> Contents]
    BY DEF MediaInv, MediaRows
  <1>2. /\ asset'[a] = new /\ file'[a] = f
        /\ \A b \in Media!Assets \ {a} : asset'[b] = asset[b] /\ file'[b] = file[b]
    BY <1>1
  <1>3. asset' \in [Media!Assets -> Media!AssetRows] /\ file' \in [Media!Assets -> Contents]
    BY <1>1
  <1>4. MediaRows'
    BY <1>3 DEF MediaInv, MediaRows
  <1>5. \A b \in Media!Assets : asset'[b].live => asset[b].live
    BY <1>2
  <1>6. \A b \in Media!Assets : Media!Made(b)' <=> Media!Made(b)
    BY <1>2 DEF Media!Made
  <1>7. LiveIsMade' /\ OneLive'
    BY <1>5, <1>6 DEF MediaInv, LiveIsMade, OneLive
  <1>8. OneHand'
    <2>1. ASSUME NEW b \in Media!Assets, HasFile(b) PROVE HasFile(b)'
      <3>1. CASE b = a
        BY <1>2, <1>6, <2>1, <3>1 DEF HasFile
      <3>2. CASE b # a
        BY <1>2, <1>6, <2>1, <3>2 DEF HasFile
      <3>q. QED BY <3>1, <3>2
    <2>2. ASSUME NEW k \in Keys PROVE InHand(k)'
      <3>1. InHand(k) /\ k \in Media!Assets
        BY InHandParts
      <3>2. k \notin met => HasFile(k)'
        BY <2>1, <3>1 DEF InHand
      <3>3. CASE k = a
        BY <1>6, <3>1, <3>2, <3>3 DEF InHand
      <3>4. CASE k # a
        <4>1. file'[k] = file[k]
          BY <1>2, <3>1, <3>4
        <4>q. QED BY <1>6, <3>1, <3>2, <4>1 DEF InHand
      <3>q. QED BY <3>3, <3>4
    <2>q. QED BY <2>1, <2>2 DEF MediaInv, OneHand, Media!Assets
  <1>9. PromotedIsMade'
    BY <1>6 DEF MediaInv, PromotedIsMade, Media!Assets
  <1>q. QED BY <1>4, <1>7, <1>8, <1>9 DEF MediaInv

LEMMA OthersKeep ==
  ASSUME MediaSetup, MediaInv, NEW a \in Media!Assets,
         Media!Delete(a) \/ Media!Restore(a) \/ Media!Purge(a)
  PROVE  MediaInv'
  <1> DEFINE Change(storage) == [asset[a] EXCEPT !.version = asset[a].version + 1, !.storage = storage]
             Dead == [asset[a] EXCEPT !.live = FALSE, !.version = asset[a].version + 1]
  <1>1. /\ asset \in [Media!Assets -> Media!AssetRows] /\ file \in [Media!Assets -> Contents]
        /\ asset[a] \in Media!AssetRows /\ file[a] \in Contents /\ Image[a] \in Contents
        /\ "NONE" \in Contents
        /\ season \in [status : {"PUBLISHED", "ARCHIVED"}, version : Nat]
    BY DEF MediaInv, MediaRows, Contents
  <1>2. Media!Bumped \in [status : {"PUBLISHED", "ARCHIVED"}, version : Nat]
    BY <1>1, SeasonBumps
  <1>3. \A storage \in {"ONLINE", "PURGED", "MISSING"} :
          /\ Change(storage) \in Media!AssetRows /\ Change(storage).storage = storage
          /\ Change(storage).live = asset[a].live /\ Change(storage).version > 0
    <2>1. /\ asset[a].version \in Nat /\ asset[a].version + 1 \in Nat
          /\ asset[a].version + 1 > 0
      BY <1>1 DEF Media!AssetRows
    <2>q. QED BY <1>1, <2>1 DEF Media!AssetRows
  <1>4. /\ Dead \in Media!AssetRows /\ ~Dead.live /\ Dead.storage = asset[a].storage
        /\ Dead.version > 0
    BY <1>1, DeletionChanges
  <1>5. /\ Media!Made(a)
        /\ UNCHANGED <<published, staging, expects, call, answered, tries, sweep, met>>
    BY DEF MediaInv, LiveIsMade, Media!Delete, Media!Restore, Media!Restorable, Media!Purge
  <1>6. CASE Media!Delete(a)
    <2>1. /\ asset' = [asset EXCEPT ![a] = Dead] /\ file' = [file EXCEPT ![a] = file[a]]
          /\ season' = Media!Bumped
      BY <1>1, <1>6 DEF Media!Delete
    <2> HIDE DEF Dead
    <2>2. Dead.storage = "ONLINE" => asset[a].storage = "ONLINE"
      BY <1>4
    <2>q. QED BY <1>1, <1>2, <1>4, <1>5, <2>1, <2>2, AssetMoves
  <1>7. CASE Media!Restore(a)
    <2>1. CASE /\ asset' = [asset EXCEPT ![a].storage = "ONLINE", ![a].version = @ + 1]
               /\ season' = Media!Bumped
      <3>1. asset' = [asset EXCEPT ![a] = [asset[a] EXCEPT !.storage = "ONLINE",
                                                           !.version = asset[a].version + 1]]
        BY <1>1, <2>1
      <3>2. [asset[a] EXCEPT !.storage = "ONLINE", !.version = asset[a].version + 1]
              = Change("ONLINE")
        BY <1>1 DEF Media!AssetRows
      <3>3. asset' = [asset EXCEPT ![a] = Change("ONLINE")]
        BY <3>1, <3>2
      <3>4. file' = [file EXCEPT ![a] = Image[a]]
        BY <1>7 DEF Media!Restore
      <3> HIDE DEF Change
      <3>q. QED BY <1>1, <1>2, <1>3, <1>5, <2>1, <3>3, <3>4, AssetMoves
    <2>2. CASE UNCHANGED <<asset, season>>
      <3>1. /\ asset' = [asset EXCEPT ![a] = asset[a]] /\ file' = [file EXCEPT ![a] = Image[a]]
            /\ asset[a].version > 0
        BY <1>1, <1>5, <1>7, <2>2 DEF Media!Restore, Media!Made
      <3>q. QED BY <1>1, <1>5, <2>2, <3>1, AssetMoves
    <2>q. QED BY <1>7, <2>1, <2>2 DEF Media!Restore
  <1>8. CASE Media!Purge(a)
    <2>1. PICK storage \in {"PURGED", "MISSING"}, f \in Contents :
            asset' = [asset EXCEPT ![a] = Change(storage)] /\ file' = [file EXCEPT ![a] = f]
      <3>1. file' = [file EXCEPT ![a] = IF file[a] = Image[a] THEN "NONE" ELSE file[a]]
        BY <1>8 DEF Media!Purge
      <3>2. CASE file[a] = Image[a]
        <4>1. asset' = [asset EXCEPT ![a] = Change("PURGED")]
          BY <1>1, <1>8, <3>2 DEF Media!Purge
        <4>q. QED BY <1>1, <3>1, <3>2, <4>1
      <3>3. CASE file[a] # Image[a]
        <4>1. asset' = [asset EXCEPT ![a] = Change("MISSING")]
          BY <1>1, <1>8, <3>3 DEF Media!Purge
        <4>q. QED BY <1>1, <3>1, <3>3, <4>1
      <3>q. QED BY <3>2, <3>3
    <2>2. season' = season
      BY <1>8 DEF Media!Purge
    <2> HIDE DEF Change
    <2>3. storage # "ONLINE" /\ storage \in {"ONLINE", "PURGED", "MISSING"}
      OBVIOUS
    <2>q. QED BY <1>1, <1>3, <1>5, <2>1, <2>2, <2>3, AssetMoves
  <1>q. QED BY <1>6, <1>7, <1>8

LEMMA MediaStep ==
  ASSUME MediaSetup, MediaInv, [Media!Next]_Media!vars
  PROVE  MediaInv'
  <1>1. ASSUME NEW k \in Keys,
               Media!Begin(k) \/ Media!RequestStep(k) \/ Media!Crash(k) \/ Media!SweepStep(k)
        PROVE  MediaInv'
    BY <1>1, BeginKeeps, RequestWorks, EndingKeeps, PromotingKeeps, SweepKeeps
       DEF Media!RequestStep, Media!SweepStep
  <1>2. ASSUME Media!Archive \/ Media!Publish \/ UNCHANGED Media!vars
        PROVE  MediaInv'
    <2>1. /\ UNCHANGED <<staging, expects, asset, file, call, answered, tries, sweep, met>>
          /\ published' \in BOOLEAN
      BY <1>2 DEF MediaInv, MediaRows, Media!Archive, Media!Publish, Media!vars
    <2>2. season' \in [status : {"PUBLISHED", "ARCHIVED"}, version : Nat]
      <3>1. season.version + 1 \in Nat
        BY DEF MediaInv, MediaRows
      <3>q. QED BY <1>2, <3>1 DEF MediaInv, MediaRows, Media!Archive, Media!Publish, Media!vars
    <2>3. MediaRows'
      BY <2>1, <2>2 DEF MediaInv, MediaRows
    <2>4. \A a : HasFile(a)' <=> HasFile(a)
      BY <2>1 DEF HasFile, Media!Made
    <2>5. OneHand' <=> OneHand
      BY <2>1, <2>4 DEF OneHand, InHand, Media!Made
    <2>q. QED BY <2>1, <2>3, <2>5 DEF MediaInv, LiveIsMade, OneLive, PromotedIsMade, Media!Made
  <1>q. QED BY <1>1, <1>2, OthersKeep DEF Media!Next

LEMMA MediaInit ==
  ASSUME MediaSetup, Media!Init
  PROVE  MediaInv
  <1>1. MediaRows
    <2>1. \A a \in Media!Assets :
            (IF a \in Old THEN [live |-> TRUE, storage |-> "ONLINE", version |-> 1]
                          ELSE Media!NoRow) \in Media!AssetRows
      BY DEF Media!NoRow, Media!AssetRows
    <2>2. asset \in [Media!Assets -> Media!AssetRows]
      BY <2>1 DEF Media!Init
    <2>3. file \in [Media!Assets -> Contents]
      BY DEF Media!Init, Contents
    <2>4. tries \in [Keys -> [sent : Nat, left : Nat]]
      <3>1. PICK b \in Budgets : tries = [k \in Keys |-> [sent |-> 0, left |-> b[k]]]
        BY DEF Media!Init
      <3>2. b \in [Keys -> Nat]
        BY DEF MediaSetup
      <3>q. QED BY <3>1, <3>2
    <2>5. /\ season \in [status : {"PUBLISHED", "ARCHIVED"}, version : Nat] /\ published \in BOOLEAN
          /\ staging \in [Keys -> Media!StagingStatus] /\ expects \in [Keys -> Nat]
          /\ call \in [Keys -> Steps] /\ answered \subseteq Keys /\ sweep \in SweepRows
          /\ met \subseteq Keys
      BY DEF Media!Init, Media!StagingStatus, Steps, SweepRows
    <2>q. QED BY <2>2, <2>3, <2>4, <2>5 DEF MediaRows
  <1>2. \A a \in Media!Assets :
          /\ a \in Old => asset[a].storage = "ONLINE" /\ asset[a].version = 1 /\ file[a] = Image[a]
          /\ a \notin Old => asset[a].storage = "NONE" /\ asset[a].version = 0 /\ ~asset[a].live
    BY DEF Media!Init, Media!NoRow
  <1>3. LiveIsMade /\ OneLive
    BY <1>2 DEF LiveIsMade, OneLive, Media!Made, MediaSetup
  <1>4. OneHand
    <2>1. \A a \in Media!Assets : HasFile(a)
      BY <1>2 DEF HasFile
    <2>2. ASSUME NEW k \in Keys PROVE InHand(k)
      <3>1. /\ k \in Media!Assets /\ k \notin Old /\ k # NoAsset /\ call[k] = "IDLE"
            /\ staging[k] = "NONE" /\ sweep.row = NoAsset
        BY DEF MediaSetup, Media!Assets, Media!Init
      <3>q. QED BY <1>2, <2>1, <3>1 DEF InHand, Media!Made
    <2>q. QED BY <2>1, <2>2 DEF OneHand, Media!Assets
  <1>5. PromotedIsMade
    BY DEF PromotedIsMade, Media!Init
  <1>q. QED BY <1>1, <1>3, <1>4, <1>5 DEF MediaInv, Media!Init

LEMMA MediaInduction ==
  /\ MediaSetup /\ Media!Init => MediaInv
  /\ MediaSetup /\ MediaInv /\ [Media!Next]_Media!vars => MediaInv'
  /\ MediaSetup => MediaSetup'
  <1>1. MediaSetup => MediaSetup'
    BY DEF MediaSetup, Media!Assets, Media!Unique
  <1>q. QED BY <1>1, MediaInit, MediaStep

LEMMA SameCardinality ==
  \A S : Media!Cardinality(S) = Cardinality(S)
  BY DEF Cardinality, Media!Cardinality

LEMMA AtMostOne ==
  ASSUME MediaInv
  PROVE  Media!OneOfAKind
  <1> SUFFICES ASSUME NEW kind \in Media!Unique
               PROVE  Cardinality(Media!LiveOfKind(kind)) <= 1
    BY SameCardinality DEF Media!OneOfAKind
  <1>1. \A a, b \in Media!LiveOfKind(kind) : a = b
    BY DEF MediaInv, OneLive, Media!LiveOfKind
  <1>2. CASE Media!LiveOfKind(kind) = {}
    BY <1>2, FS_EmptySet
  <1>3. CASE Media!LiveOfKind(kind) # {}
    <2>1. PICK a \in Media!LiveOfKind(kind) : TRUE
      BY <1>3
    <2>2. Media!LiveOfKind(kind) = {a}
      BY <1>1, <2>1
    <2>3. Cardinality({a}) = 1
      BY FS_Singleton
    <2>q. QED BY <2>2, <2>3
  <1>q. QED BY <1>2, <1>3

(* A file holds what its own upload wrote.                                  *)
OwnContents == \A a \in Media!Assets : file[a] \in {"NONE", "PARTIAL", Image[a]}

LEMMA ContentsStayOwn ==
  ASSUME MediaInv, OwnContents, [Media!Next]_Media!vars
  PROVE  OwnContents'
  <1>1. CASE file' = file
    BY <1>1 DEF OwnContents
  <1>2. ASSUME NEW k \in Media!Assets, NEW c \in {"NONE", "PARTIAL", Image[k]},
               file' = [file EXCEPT ![k] = c]
        PROVE  OwnContents'
    BY <1>2 DEF MediaInv, MediaRows, OwnContents
  <1>3. Keys \subseteq Media!Assets
    BY DEF Media!Assets
  <1>4. ASSUME NEW k \in Keys,
               \/ Media!Begin(k) \/ Media!Resume(k) \/ Media!MarkStored(k)
               \/ Media!RequestPromotes(k) \/ Media!Failing(k) \/ Media!Fail(k)
               \/ Media!Record(k) \/ Media!Crash(k)
               \/ Media!CompareFile(k) \/ Media!SweepFinds(k) \/ Media!SweepCompares(k)
               \/ Media!SweepMarks(k) \/ Media!SweepPromotes(k)
        PROVE  OwnContents'
    BY <1>1, <1>4 DEF Media!Begin, Media!Resume, Media!MarkStored, Media!RequestPromotes,
       Media!Failing, Media!Fail, Media!Record, Media!Crash, Media!CompareFile, Media!SweepFinds,
       Media!SweepCompares, Media!SweepMarks, Media!SweepPromotes
  <1>5. ASSUME NEW k \in Keys,
               \/ Media!OpenFile(k) \/ Media!WriteFile(k) \/ Media!Discard(k)
               \/ Media!SweepChecks(k) \/ Media!SweepFails(k)
        PROVE  OwnContents'
    BY <1>1, <1>2, <1>3, <1>5 DEF Media!OpenFile, Media!WriteFile, Media!Discard, Media!SweepChecks,
       Media!SweepFails
  <1>6. ASSUME NEW a \in Media!Assets, Media!Delete(a) \/ Media!Restore(a) \/ Media!Purge(a)
        PROVE  OwnContents'
    <2>1. CASE Media!Delete(a) \/ Media!Restore(a)
      BY <1>1, <1>2, <2>1 DEF Media!Delete, Media!Restore
    <2>2. CASE Media!Purge(a)
      <3>1. PICK c : c = IF file[a] = Image[a] THEN "NONE" ELSE file[a]
        OBVIOUS
      <3>2. c \in {"NONE", "PARTIAL", Image[a]}
        BY <3>1 DEF OwnContents
      <3>3. file' = [file EXCEPT ![a] = c]
        BY <2>2, <3>1 DEF Media!Purge
      <3>q. QED BY <1>2, <3>2, <3>3
    <2>q. QED BY <1>6, <2>1, <2>2
  <1>7. ASSUME Media!Archive \/ Media!Publish \/ UNCHANGED Media!vars
        PROVE  OwnContents'
    BY <1>1, <1>7 DEF Media!Archive, Media!Publish, Media!vars
  <1>q. QED BY <1>4, <1>5, <1>6, <1>7 DEF Media!Next, Media!RequestStep, Media!SweepStep

(* A game shows at most one group photo and one scoresheet at a time,      *)
(* whatever requests, replacements, sweeps and deletions interleave, even  *)
(* when the sweep works on an upload in progress                           *)
(* (promote_game_media_staging, reconcile_staged_game_media).              *)
THEOREM OnePictureOfAKind == MediaSetup /\ MediaSteps => [](Media!TypeOK /\ Media!OneOfAKind)
  <1>1. MediaInv => Media!OneOfAKind
    BY AtMostOne
  <1>2. MediaInv /\ OwnContents => Media!TypeOK
    BY DEF MediaInv, MediaRows, SweepRows, Steps, OwnContents, Media!TypeOK
  <1>3. Media!Init => OwnContents
    BY DEF Media!Init, OwnContents
  <1>q. QED BY <1>1, <1>2, <1>3, ContentsStayOwn, MediaInduction, PTL DEF MediaSteps

(* A photograph that the database calls online loses its file, or its      *)
(* staging row the answer it gave, only if a request and the reconciler    *)
(* worked on its upload at the same time.  However many uploads and        *)
(* replacements die anywhere and are sent again, and whatever the sweep    *)
(* does with what they left, nothing else takes a file                     *)
(* (_store_or_resume_staging, _mark_staging_failed,                        *)
(* reconcile_staged_game_media of game_media.py).                          *)
THEOREM PhotographsHaveFiles == MediaSetup /\ MediaSteps => []Media!LostOnlyToSweep
  <1>1. MediaInv => Media!LostOnlyToSweep
    <2> SUFFICES ASSUME MediaInv
                 PROVE  Media!LostOnlyToSweep
      OBVIOUS
    <2>1. /\ \A a \in Old : HasFile(a)
          /\ \A k \in Keys \ met : HasFile(k) /\ (staging[k] = "PROMOTED" <=> Media!Made(k))
          /\ \A k \in Keys : staging[k] = "PROMOTED" => Media!Made(k)
      BY DEF MediaInv, OneHand, InHand, PromotedIsMade
    <2>q. QED BY <2>1, AtMostOne DEF Media!LostOnlyToSweep, Media!Whole, Media!Assets, HasFile
  <1>q. QED BY <1>1, MediaInduction, PTL DEF MediaSteps
=============================================================================
