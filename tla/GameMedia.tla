----------------------------- MODULE GameMedia -----------------------------
(***************************************************************************)
(* The photographs of one game: services/game_media.py behind the views of  *)
(* api_game_media.py and the reconciler that the expiry worker runs.        *)
(*                                                                          *)
(* An upload is not one transaction.  Under a session lock on its           *)
(* idempotency key it creates a staging row, writes the file, marks the row *)
(* STORED, promotes it to an asset and records its answer; a crash may end  *)
(* it after any of these, and a retry with the same key takes up the same   *)
(* staging row.  The reconciler finishes or discards what was left behind.  *)
(*                                                                          *)
(* A command is named by its key, and so are the staging row, the asset and *)
(* the file it makes: the asset's id and the file's key are chosen when the *)
(* staging row is created.  Old assets are there from the start.            *)
(***************************************************************************)
EXTENDS Integers, FiniteSets

CONSTANTS Keys,      \* commands, each with its own Idempotency-Key
          Old,       \* assets the game starts with
          Kind,      \* [Keys \cup Old -> kinds of picture]
          Image,     \* [Keys \cup Old -> contents], what the file must hold
          Target,    \* [Keys -> the asset a replacement replaces, or NoAsset]
          Web,       \* commands a superadmin sends to the administration site
          NoAsset,
          Budgets,   \* bound: how often each command may be sent, one of these
          MaxSeason  \* bound: the season's version up to which it is purged

Assets == Keys \cup Old

VARIABLES season,     \* [status, version] of the game's season
          published,  \* whether the game's scoresheet was ever published
          staging,    \* status of each command's staging row
          expects,    \* the version a replacement saw of its target
          asset,      \* the rows of GameMediaAsset
          file,       \* what the storage holds under each file key
          call,       \* the step each command's request is at
          answered,   \* commands with an idempotency record
          tries,      \* how often each command was sent and may be sent
          sweep,      \* the step the reconciler is at and its staging row
          met         \* history: commands a request and the reconciler worked on at once

vars == <<season, published, staging, expects, asset, file, call, answered, tries, sweep, met>>

Unique == {"SCORESHEET", "GROUP_PHOTO"}
Pending(k) == staging[k] \in {"STAGING", "STORED"}
NoRow == [live |-> FALSE, storage |-> "NONE", version |-> 0]
Made(a) == asset[a].version > 0

AssetRows == [live : BOOLEAN, version : Nat, storage : {"NONE", "ONLINE", "PURGED", "MISSING"}]
StagingStatus == {"NONE", "STAGING", "STORED", "PROMOTED", "FAILED"}

TypeOK ==
    /\ season \in [status : {"PUBLISHED", "ARCHIVED"}, version : Nat]
    /\ published \in BOOLEAN
    /\ staging \in [Keys -> StagingStatus]
    /\ expects \in [Keys -> Nat]
    /\ asset \in [Assets -> AssetRows]
    /\ \A a \in Assets : file[a] \in {"NONE", "PARTIAL", Image[a]}
    /\ call \in [Keys -> {"IDLE", "STORE", "WRITE", "WRITING", "COMPARE", "STORED",
                          "PROMOTE", "FAILING", "DISCARD", "FAIL", "RECORD"}]
    /\ answered \subseteq Keys
    /\ tries \in [Keys -> [sent : Nat, left : Nat]]
    /\ sweep.at \in {"IDLE", "FOUND", "COMPARE", "MARK", "PROMOTE", "FAILING", "DISCARD", "FAIL"}
    /\ met \subseteq Keys

Init ==
    /\ season = [status |-> "PUBLISHED", version |-> 1]
    /\ published \in BOOLEAN
    /\ staging = [k \in Keys |-> "NONE"]
    /\ expects = [k \in Keys |-> 0]
    /\ asset = [a \in Assets |->
                  IF a \in Old THEN [live |-> TRUE, storage |-> "ONLINE", version |-> 1]
                               ELSE NoRow]
    /\ file = [a \in Assets |-> IF a \in Old THEN Image[a] ELSE "NONE"]
    /\ call = [k \in Keys |-> "IDLE"]
    /\ answered = {}
    /\ \E b \in Budgets : tries = [k \in Keys |-> [sent |-> 0, left |-> b[k]]]
    /\ sweep = [at |-> "IDLE", row |-> NoAsset, seen |-> "NONE"]
    /\ met = {}

(***************************************************************************)
(* Who may change what.                                                     *)
(***************************************************************************)
Mutable(k) == season.status = "PUBLISHED" \/ k \in Web

SourceAllowed(k) ==
    IF season.status = "ARCHIVED" THEN k \in Web /\ published
                                  ELSE k \in Web \/ ~published

\* The mini program shows games of a published season only.
Served(k) == Target[k] = NoAsset => Mutable(k)

Permitted(k) == Mutable(k) /\ (Kind[k] = "SCORESHEET" => SourceAllowed(k))

LiveOfKind(kind) == {a \in Assets : asset[a].live /\ Kind[a] = kind}

\* The partial unique constraints on staging rows that are STAGING or STORED.
PendingClash(k) ==
    \E other \in Keys \ {k} :
        /\ Pending(other)
        /\ IF Target[k] # NoAsset
             THEN Target[other] = Target[k]
             ELSE /\ Target[other] = NoAsset
                  /\ Kind[other] = Kind[k]
                  /\ Kind[k] \in Unique

TargetAsSeen(k, version) ==
    Target[k] # NoAsset => asset[Target[k]].live /\ asset[Target[k]].version = version

PlaceFree(k) == Target[k] = NoAsset /\ Kind[k] \in Unique => LiveOfKind(Kind[k]) = {}

Creatable(k) ==
    /\ Permitted(k)
    /\ Target[k] # NoAsset => asset[Target[k]].live
    /\ PlaceFree(k)
    /\ Target[k] = NoAsset => \A a \in LiveOfKind(Kind[k]) : Image[a] # Image[k]
    /\ ~PendingClash(k)

\* Archived seasons carry a new version after every change of their pictures.
Bumped == IF season.status = "ARCHIVED" THEN [season EXCEPT !.version = @ + 1] ELSE season

(***************************************************************************)
(* One request.  Its session lock admits one request per key at a time, so  *)
(* call[k] is the request that holds it.                                    *)
(***************************************************************************)
Goto(k, step) == call' = [call EXCEPT ![k] = step]

Creates(k) ==
    /\ staging[k] = "NONE" /\ Creatable(k)
    /\ staging' = [staging EXCEPT ![k] = "STAGING"]
    /\ Goto(k, "STORE")

CreateUpload(k) == Target[k] = NoAsset /\ Creates(k) /\ UNCHANGED expects

CreateReplacement(k) ==
    /\ Target[k] # NoAsset /\ Creates(k)
    /\ expects' = [expects EXCEPT ![k] = asset[Target[k]].version]

\* What an earlier request with this key left is taken up; a replacement only
\* while its target is what that request saw.
TakesUp(k) ==
    /\ staging[k] \in {"STAGING", "STORED", "FAILED"}
    /\ Mutable(k)
    /\ Target[k] # NoAsset /\ Kind[k] = "SCORESHEET" => k \in Web \/ ~published
    /\ TargetAsSeen(k, expects[k])
    /\ Goto(k, "STORE")
    /\ UNCHANGED <<staging, expects>>

Begin(k) ==
    /\ call[k] = "IDLE" /\ Served(k)
    /\ k \notin answered /\ tries[k].left > 0
    /\ tries' = [tries EXCEPT ![k] = [sent |-> @.sent + 1, left |-> @.left - 1]]
    /\ \/ /\ staging[k] = "PROMOTED"
          /\ Goto(k, "RECORD")
          /\ UNCHANGED <<staging, expects>>
       \/ TakesUp(k)
       \/ CreateUpload(k)
       \/ CreateReplacement(k)
    /\ met' = met \cup {j \in {k} : sweep.row = j}
    /\ UNCHANGED <<season, published, asset, file, answered, sweep>>

\* First transaction of _store_or_resume_staging: a failed row leaves FAILED.
Resume(k) ==
    /\ call[k] = "STORE"
    /\ \/ /\ staging[k] = "PROMOTED"
          /\ Goto(k, "PROMOTE") /\ UNCHANGED staging
       \/ /\ staging[k] = "FAILED" /\ PendingClash(k)
          /\ Goto(k, "FAILING") /\ UNCHANGED staging
       \/ /\ staging[k] = "FAILED" /\ ~PendingClash(k)
          /\ staging' = [staging EXCEPT ![k] = "STAGING"]
          /\ Goto(k, "WRITE")
       \/ /\ Pending(k)
          /\ Goto(k, "WRITE") /\ UNCHANGED staging
    /\ UNCHANGED <<season, published, expects, asset, file, answered, tries, sweep, met>>

FileExists(k) == file[k] # "NONE"
FileMatches(k) == file[k] = Image[k]

\* The storage opens the file under its final name before it is written.
OpenFile(k) ==
    /\ call[k] = "WRITE"
    /\ \/ /\ ~FileExists(k)
          /\ file' = [file EXCEPT ![k] = "PARTIAL"]
          /\ Goto(k, "WRITING")
       \/ /\ FileExists(k)
          /\ Goto(k, "COMPARE")
          /\ UNCHANGED file
    /\ UNCHANGED <<season, published, staging, expects, asset, answered, tries, sweep, met>>

\* A file that is gone by now does not match.
CompareFile(k) ==
    /\ call[k] = "COMPARE"
    /\ Goto(k, IF FileMatches(k) THEN "STORED" ELSE "FAILING")
    /\ UNCHANGED <<season, published, staging, expects, asset, file, answered, tries, sweep, met>>

\* What is written to a file somebody deleted meanwhile is lost.
WriteFile(k) ==
    /\ call[k] = "WRITING"
    /\ \/ /\ file' = [file EXCEPT ![k] = IF @ = "NONE" THEN @ ELSE Image[k]]
          /\ Goto(k, "STORED")
       \/ file' = [file EXCEPT ![k] = "NONE"] /\ Goto(k, "FAILING")
    /\ UNCHANGED <<season, published, staging, expects, asset, answered, tries, sweep, met>>

MarkStored(k) ==
    /\ call[k] = "STORED"
    /\ \/ /\ staging[k] = "PROMOTED"
          /\ Goto(k, "PROMOTE") /\ UNCHANGED staging
       \/ /\ staging[k] = "FAILED" /\ PendingClash(k)
          /\ Goto(k, "FAILING") /\ UNCHANGED staging
       \/ /\ Pending(k) \/ (staging[k] = "FAILED" /\ ~PendingClash(k))
          /\ staging' = [staging EXCEPT ![k] = "STORED"]
          /\ Goto(k, "PROMOTE")
    /\ UNCHANGED <<season, published, expects, asset, file, answered, tries, sweep, met>>

(***************************************************************************)
(* promote_game_media_staging: one transaction, used by the request and by  *)
(* the reconciler.  A scoresheet may also be refused by the scoresheet      *)
(* service, which rolls everything back.                                    *)
(***************************************************************************)
Promotable(k) ==
    /\ staging[k] = "STORED"
    /\ Permitted(k)
    /\ TargetAsSeen(k, expects[k])
    /\ PlaceFree(k)
    /\ ~Made(k)
    /\ \A a \in LiveOfKind(Kind[k]) \ {Target[k]} : Image[a] # Image[k]

Promote(k) ==
    /\ Promotable(k)
    /\ asset' = [a \in Assets |->
          CASE a = k -> [live |-> TRUE, storage |-> "ONLINE", version |-> 1]
            [] a = Target[k] -> [asset[a] EXCEPT !.live = FALSE, !.version = @ + 1]
            [] OTHER -> asset[a]]
    /\ season' = Bumped
    /\ staging' = [staging EXCEPT ![k] = "PROMOTED"]

PromoteRefused(k) ==
    /\ staging[k] # "PROMOTED"
    /\ Promotable(k) => Kind[k] = "SCORESHEET"

RequestPromotes(k) ==
    /\ call[k] = "PROMOTE"
    /\ \/ staging[k] = "PROMOTED" /\ Goto(k, "RECORD") /\ UNCHANGED <<asset, season, staging>>
       \/ Promote(k) /\ Goto(k, "RECORD")
       \/ PromoteRefused(k) /\ Goto(k, "FAILING") /\ UNCHANGED <<asset, season, staging>>
    /\ UNCHANGED <<published, expects, file, answered, tries, sweep, met>>

(***************************************************************************)
(* _mark_staging_failed: a look at the row without a lock, the deletion of  *)
(* the file, and the locked transaction that marks the row.                 *)
(***************************************************************************)
Failing(k) ==
    /\ call[k] = "FAILING"
    /\ Goto(k, IF staging[k] = "PROMOTED" THEN "IDLE" ELSE "DISCARD")
    /\ UNCHANGED <<season, published, staging, expects, asset, file, answered, tries, sweep, met>>

Discard(k) ==
    /\ call[k] = "DISCARD"
    /\ file' = [file EXCEPT ![k] = "NONE"]
    /\ Goto(k, "FAIL")
    /\ UNCHANGED <<season, published, staging, expects, asset, answered, tries, sweep, met>>

Failed(k) == IF staging[k] = "PROMOTED" THEN staging ELSE [staging EXCEPT ![k] = "FAILED"]

Fail(k) ==
    /\ call[k] = "FAIL"
    /\ staging' = Failed(k)
    /\ Goto(k, "IDLE")
    /\ UNCHANGED <<season, published, expects, asset, file, answered, tries, sweep, met>>

\* The idempotency record is a transaction of its own, after the command's.
Record(k) ==
    /\ call[k] = "RECORD"
    /\ answered' = answered \cup {k}
    /\ Goto(k, "IDLE")
    /\ UNCHANGED <<season, published, staging, expects, asset, file, tries, sweep, met>>

\* The process dies; its locks go with its database session.
Crash(k) ==
    /\ call[k] # "IDLE"
    /\ Goto(k, "IDLE")
    /\ UNCHANGED <<season, published, staging, expects, asset, file, answered, tries, sweep, met>>

(***************************************************************************)
(* reconcile_staged_game_media, one staging row at a time.  It takes neither *)
(* the lock of the command's key nor, before promote_game_media_staging, of *)
(* the row, so a request may be at work on the row or begin meanwhile.  A   *)
(* row that is STAGING must be old: nobody has worked on it for long, or it *)
(* was taken up again, which leaves it its age.  A FAILED row is of concern *)
(* while it has a file or a request that may write one.                     *)
(***************************************************************************)
SweepTo(step) == sweep' = [sweep EXCEPT !.at = step]
SweepDone == sweep' = [at |-> "IDLE", row |-> NoAsset, seen |-> "NONE"]

Candidate(k) ==
    \/ staging[k] = "STORED"
    \/ staging[k] = "STAGING" /\ (call[k] = "IDLE" \/ tries[k].sent > 1)
    \/ staging[k] = "FAILED" /\ (FileExists(k) \/ call[k] # "IDLE")

SweepFinds(k) ==
    /\ sweep.at = "IDLE" /\ Candidate(k)
    /\ sweep' = [at |-> "FOUND", row |-> k, seen |-> staging[k]]
    /\ met' = met \cup {j \in {k} : call[j] # "IDLE"}
    /\ UNCHANGED <<season, published, staging, expects, asset, file, call, answered, tries>>

\* The file of a row that was FAILED when it was read is discarded.
SweepChecks(k) ==
    /\ sweep.at = "FOUND" /\ sweep.row = k
    /\ \/ /\ sweep.seen = "FAILED"
          /\ file' = [file EXCEPT ![k] = "NONE"]
          /\ SweepDone
       \/ /\ sweep.seen # "FAILED"
          /\ SweepTo(IF FileExists(k) THEN "COMPARE" ELSE "FAIL")
          /\ UNCHANGED file
    /\ UNCHANGED <<season, published, staging, expects, asset, call, answered, tries, met>>

\* A file that is gone by now does not match, or its opening ends the sweep.
SweepCompares(k) ==
    /\ sweep.at = "COMPARE" /\ sweep.row = k
    /\ \/ /\ FileMatches(k)
          /\ SweepTo(IF sweep.seen = "STAGING" THEN "MARK" ELSE "PROMOTE")
       \/ ~FileMatches(k) /\ SweepTo("FAILING")
       \/ ~FileExists(k) /\ SweepDone
    /\ UNCHANGED <<season, published, staging, expects, asset, file, call, answered, tries, met>>

\* An update without a condition on the status; a clash ends the sweep.
SweepMarks(k) ==
    /\ sweep.at = "MARK" /\ sweep.row = k
    /\ IF PendingClash(k)
         THEN SweepDone /\ UNCHANGED staging
         ELSE SweepTo("PROMOTE") /\ staging' = [staging EXCEPT ![k] = "STORED"]
    /\ UNCHANGED <<season, published, expects, asset, file, call, answered, tries, met>>

SweepPromotes(k) ==
    /\ sweep.at = "PROMOTE" /\ sweep.row = k
    /\ \/ staging[k] = "PROMOTED" /\ SweepDone /\ UNCHANGED <<asset, season, staging>>
       \/ Promote(k) /\ SweepDone
       \/ PromoteRefused(k) /\ SweepTo("FAILING") /\ UNCHANGED <<asset, season, staging>>
    /\ UNCHANGED <<published, expects, file, call, answered, tries, met>>

SweepFails(k) ==
    /\ sweep.row = k
    /\ \/ /\ sweep.at = "FAILING"
          /\ IF staging[k] = "PROMOTED" THEN SweepDone ELSE SweepTo("DISCARD")
          /\ UNCHANGED <<staging, file>>
       \/ /\ sweep.at = "DISCARD"
          /\ file' = [file EXCEPT ![k] = "NONE"]
          /\ SweepTo("FAIL")
          /\ UNCHANGED staging
       \/ /\ sweep.at = "FAIL"
          /\ staging' = Failed(k)
          /\ SweepDone
          /\ UNCHANGED file
    /\ UNCHANGED <<season, published, expects, asset, call, answered, tries, met>>

(***************************************************************************)
(* The other operations on assets.                                          *)
(***************************************************************************)
\* By somebody who still may: an administrator, or a superadmin's correction.
Delete(a) ==
    /\ asset[a].live /\ Kind[a] # "SCORESHEET"
    /\ asset' = [asset EXCEPT ![a].live = FALSE, ![a].version = @ + 1]
    /\ season' = Bumped
    /\ UNCHANGED <<published, staging, expects, file, call, answered, tries, sweep, met>>

Restorable(a) ==
    /\ season.status = "ARCHIVED"
    /\ asset[a].live /\ asset[a].storage \in {"PURGED", "MISSING"}

\* A crash after the file is back leaves the file and rolls the row back.
Restore(a) ==
    /\ Restorable(a)
    /\ file[a] \in {"NONE", Image[a]}
    /\ file' = [file EXCEPT ![a] = Image[a]]
    /\ \/ /\ asset' = [asset EXCEPT ![a].storage = "ONLINE", ![a].version = @ + 1]
          /\ season' = Bumped
       \/ file[a] = "NONE" /\ UNCHANGED <<asset, season>>
    /\ UNCHANGED <<published, staging, expects, call, answered, tries, sweep, met>>

\* What the archive worker does with a picture of an archived season.
Purge(a) ==
    /\ season.status = "ARCHIVED" /\ season.version < MaxSeason
    /\ Made(a) /\ asset[a].storage = "ONLINE" /\ \A k \in Keys : ~Pending(k)
    /\ asset' = [asset EXCEPT ![a].version = @ + 1,
                    ![a].storage = IF file[a] = Image[a] THEN "PURGED" ELSE "MISSING"]
    /\ file' = [file EXCEPT ![a] = IF @ = Image[a] THEN "NONE" ELSE @]
    /\ UNCHANGED <<season, published, staging, expects, call, answered, tries, sweep, met>>

\* Archiving does not look at staging rows.
Archive ==
    /\ season.status = "PUBLISHED"
    /\ season' = [status |-> "ARCHIVED", version |-> season.version + 1]
    /\ UNCHANGED <<published, staging, expects, asset, file, call, answered, tries, sweep, met>>

Publish ==
    /\ ~published /\ season.status = "PUBLISHED" /\ LiveOfKind("SCORESHEET") # {}
    /\ published' = TRUE
    /\ UNCHANGED <<season, staging, expects, asset, file, call, answered, tries, sweep, met>>

RequestStep(k) ==
    \/ Resume(k) \/ OpenFile(k) \/ CompareFile(k) \/ WriteFile(k) \/ MarkStored(k)
    \/ RequestPromotes(k) \/ Failing(k) \/ Discard(k) \/ Fail(k) \/ Record(k)

SweepStep(k) ==
    \/ SweepFinds(k) \/ SweepChecks(k) \/ SweepCompares(k)
    \/ SweepMarks(k) \/ SweepPromotes(k) \/ SweepFails(k)

Next ==
    \/ \E k \in Keys : Begin(k) \/ RequestStep(k) \/ Crash(k) \/ SweepStep(k)
    \/ \E a \in Assets : Delete(a) \/ Restore(a) \/ Purge(a)
    \/ Archive \/ Publish

Fairness == \A k \in Keys : WF_vars(RequestStep(k)) /\ WF_vars(SweepStep(k))
Spec == Init /\ [][Next]_vars /\ Fairness

-----------------------------------------------------------------------------
Whole(a) == asset[a].storage = "ONLINE" => file[a] = Image[a]
OneOfAKind == \A kind \in Unique : Cardinality(LiveOfKind(kind)) <= 1

(* What the recovery promises (the comment in _store_or_resume_staging, the *)
(* help of reconcile_game_media_uploads.py): a picture that the database    *)
(* calls online has its file, whole and with the contents that were         *)
(* uploaded, whatever crashed and whoever finished the upload.              *)
LivePhotosHaveFiles == \A a \in Assets : Made(a) => Whole(a)

(* What game_media.py does guarantee: a picture loses its file, or its      *)
(* staging row forgets it, only if a request and the reconciler worked on   *)
(* its upload at the same time.  Requests that crash anywhere, retries, the *)
(* sweep over what they left, replacements, deletions, purges and           *)
(* restorations lose nothing, and of a kind that a game shows once there is *)
(* at most one live picture even when the two meet.                         *)
LostOnlyToSweep ==
    /\ \A a \in Assets : Made(a) /\ ~Whole(a) => a \in met
    /\ \A k \in Keys : staging[k] = "PROMOTED" => Made(k)
    /\ \A k \in Keys : Made(k) /\ staging[k] # "PROMOTED" => k \in met
    /\ OneOfAKind
=============================================================================
