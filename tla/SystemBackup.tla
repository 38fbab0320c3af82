---------------------------- MODULE SystemBackup ----------------------------
(***************************************************************************)
(* The full backup of database and media, the write fence it is taken       *)
(* under, and its restoration: services/system_write_fence.py, the          *)
(* middleware that puts every writing request behind it, _build_system_raw  *)
(* of services/archive_exports.py and the command restore_system_backup.    *)
(*                                                                          *)
(* The fence is one PostgreSQL advisory lock.  Writers hold it shared and   *)
(* never wait for it; the backup takes it exclusively and waits; ordering a *)
(* package or a purge takes the same lock exclusively while the request     *)
(* that does so holds it shared.  The worker that purges photographs does   *)
(* not pass the fence at all.                                               *)
(*                                                                          *)
(* A writing session stands for the upload of one photograph: the staging   *)
(* row, then the file, then the asset row.                                  *)
(***************************************************************************)
EXTENDS Integers, FiniteSets

CONSTANTS Uploads,   \* sessions that upload, each its own photograph
          Orders,    \* sessions that order a package or a purge
          Old        \* photographs that are there from the start

Sessions == Uploads \cup Orders
Pictures == Uploads \cup Old

VARIABLES at,       \* what each session does, the backup worker's in backup
          row,      \* the asset or staging row of each photograph
          file,     \* photographs whose file is there
          backup,   \* the step of the backup
          dump,     \* the rows in its database dump
          listed,   \* the media files captured with the dump
          target    \* the environment a backup is restored into

vars == <<at, row, file, backup, dump, listed, target>>

Rows == [Pictures -> {"NONE", "STAGED", "ONLINE", "PURGE_PENDING", "PURGED"}]
Empty == [step |-> "EMPTY", rows |-> [p \in Pictures |-> "NONE"], files |-> {},
          job |-> "NONE"]

TypeOK ==
    /\ at \in [Sessions -> {"OUT", "SHARED", "STAGED", "FILED", "WAITING", "DONE", "ERROR"}]
    /\ row \in Rows
    /\ file \subseteq Pictures
    /\ backup \in {"IDLE", "WAITING", "FENCED", "DUMPED", "CAPTURED", "READY", "FAILED"}
    /\ dump \in Rows
    /\ listed \subseteq Pictures
    /\ target \in [step : {"EMPTY", "DATABASE", "MEDIA", "RESTORED"}, rows : Rows,
                   files : SUBSET Pictures, job : {"NONE", "BUILDING", "DISCARDED"}]

Init ==
    /\ at = [s \in Sessions |-> "OUT"]
    /\ row = [p \in Pictures |-> IF p \in Old THEN "ONLINE" ELSE "NONE"]
    /\ file = Old
    /\ backup = "IDLE"
    /\ dump = [p \in Pictures |-> "NONE"]
    /\ listed = {}
    /\ target = Empty

(***************************************************************************)
(* The lock.  A shared request does not wait: it fails while somebody holds *)
(* or waits for the exclusive lock.                                         *)
(***************************************************************************)
Sharing == {s \in Sessions : at[s] \in {"SHARED", "STAGED", "FILED", "WAITING"}}
ExcludingUntilSnapshot == backup = "FENCED"
Excluding == backup \in {"FENCED", "DUMPED"}
WantedByOrders == \E s \in Orders : at[s] = "WAITING"
Wanted == backup = "WAITING" \/ \E s \in Orders : at[s] = "WAITING"

Move(s, step) == at' = [at EXCEPT ![s] = step]

\* 503 when the fence is up or wanted; the client tries again.
Enter(s) ==
    /\ at[s] = "OUT"
    /\ ~Excluding /\ ~Wanted
    /\ Move(s, "SHARED")
    /\ UNCHANGED <<row, file, backup, dump, listed, target>>

(***************************************************************************)
(* Sessions behind the fence.                                               *)
(***************************************************************************)
Stage(u) ==
    /\ at[u] = "SHARED" /\ row[u] = "NONE"
    /\ row' = [row EXCEPT ![u] = "STAGED"]
    /\ Move(u, "STAGED")
    /\ UNCHANGED <<file, backup, dump, listed, target>>

StoreFile(u) ==
    /\ at[u] = "STAGED"
    /\ file' = file \cup {u}
    /\ Move(u, "FILED")
    /\ UNCHANGED <<row, backup, dump, listed, target>>

StoreRow(u) ==
    /\ at[u] = "FILED"
    /\ row' = [row EXCEPT ![u] = "ONLINE"]
    /\ Move(u, "DONE")
    /\ UNCHANGED <<file, backup, dump, listed, target>>

\* A session that dies loses its locks and leaves what it has written.
Die(s) ==
    /\ s \in Sharing
    /\ Move(s, "ERROR")
    /\ UNCHANGED <<row, file, backup, dump, listed, target>>

\* The reconciler, behind the fence itself, ends what a dead upload left.
Reconcile(u) ==
    /\ at[u] = "ERROR" /\ row[u] = "STAGED" /\ ~Excluding /\ ~Wanted
    /\ \/ u \in file /\ row' = [row EXCEPT ![u] = "ONLINE"] /\ UNCHANGED file
       \/ row' = [row EXCEPT ![u] = "NONE"] /\ file' = file \ {u}
    /\ UNCHANGED <<at, backup, dump, listed, target>>

AskExclusive(s) ==
    /\ at[s] = "SHARED"
    /\ Move(s, "WAITING")
    /\ UNCHANGED <<row, file, backup, dump, listed, target>>

\* The order, here that of a purge, is one transaction under the exclusive lock.
PlaceOrder(s) ==
    /\ at[s] = "WAITING" /\ Sharing = {s} /\ ~Excluding
    /\ row' \in {row, [p \in Pictures |-> IF row[p] = "ONLINE" THEN "PURGE_PENDING" ELSE row[p]]}
    /\ Move(s, "DONE")
    /\ UNCHANGED <<file, backup, dump, listed, target>>

\* Two orders hold the lock shared and each waits for the other: one is aborted.
Deadlocked(s) ==
    /\ at[s] = "WAITING"
    /\ \E other \in Orders \ {s} : at[other] = "WAITING"
    /\ Move(s, "ERROR")
    /\ UNCHANGED <<row, file, backup, dump, listed, target>>

\* Administrators order again and again.
OrderAgain(s) ==
    /\ at[s] \in {"DONE", "ERROR"}
    /\ Move(s, "OUT")
    /\ UNCHANGED <<row, file, backup, dump, listed, target>>

\* The purge worker deletes the file and then writes the row, outside the fence.
PurgeFile(p) ==
    /\ row[p] = "PURGE_PENDING" /\ p \in file
    /\ file' = file \ {p}
    /\ UNCHANGED <<at, row, backup, dump, listed, target>>

PurgeRow(p) ==
    /\ row[p] = "PURGE_PENDING" /\ p \notin file
    /\ row' = [row EXCEPT ![p] = "PURGED"]
    /\ UNCHANGED <<at, file, backup, dump, listed, target>>

(***************************************************************************)
(* The backup.                                                              *)
(***************************************************************************)
Blocked == \E p \in Pictures : row[p] = "STAGED"
Becomes(step) == backup' = step

StartBackup ==
    /\ backup = "IDLE"
    /\ Becomes(IF Blocked THEN "FAILED" ELSE "WAITING")
    /\ UNCHANGED <<at, row, file, dump, listed, target>>

RaiseFence ==
    /\ backup = "WAITING" /\ Sharing = {}
    /\ Becomes("FENCED")
    /\ UNCHANGED <<at, row, file, dump, listed, target>>

\* The blockers once more, then the snapshot all queries and pg_dump share.
Snapshot ==
    /\ backup = "FENCED"
    /\ IF Blocked THEN Becomes("FAILED") /\ UNCHANGED dump
                  ELSE Becomes("DUMPED") /\ dump' = row
    /\ UNCHANGED <<at, row, file, listed, target>>

\* The files are listed after the snapshot began and before the fence falls.
ListMedia ==
    /\ backup = "DUMPED"
    /\ listed' = file
    /\ Becomes("CAPTURED")
    /\ UNCHANGED <<at, row, file, dump, target>>

\* Hashing and packing happen without the fence; a listed file must still be there.
Pack ==
    /\ backup = "CAPTURED"
    /\ Becomes(IF listed \subseteq file THEN "READY" ELSE "FAILED")
    /\ UNCHANGED <<at, row, file, dump, listed, target>>

BackupFails ==
    /\ backup \in {"WAITING", "FENCED", "DUMPED", "CAPTURED"}
    /\ Becomes("FAILED")
    /\ UNCHANGED <<at, row, file, dump, listed, target>>

NextBackup ==
    /\ backup = "FAILED"
    /\ Becomes("IDLE")
    /\ dump' = [p \in Pictures |-> "NONE"] /\ listed' = {}
    /\ UNCHANGED <<at, row, file, target>>

(***************************************************************************)
(* restore_system_backup, into an empty database and an empty directory.    *)
(* The dump holds the backup's own job as it was then: BUILDING.            *)
(***************************************************************************)
RestoreDatabase ==
    /\ backup = "READY" /\ target.step = "EMPTY"
    /\ target' = [target EXCEPT !.step = "DATABASE", !.rows = dump, !.job = "BUILDING"]
    /\ UNCHANGED <<at, row, file, backup, dump, listed>>

RestoreMedia ==
    /\ target.step = "DATABASE"
    /\ target' = [target EXCEPT !.step = "MEDIA", !.files = listed]
    /\ UNCHANGED <<at, row, file, backup, dump, listed>>

Finalize ==
    /\ target.step = "MEDIA"
    /\ target.rows = dump /\ target.files = listed
    /\ target' = [target EXCEPT !.step = "RESTORED", !.job = "DISCARDED"]
    /\ UNCHANGED <<at, row, file, backup, dump, listed>>

SessionStep(s) ==
    \/ s \in Uploads /\ (Stage(s) \/ StoreFile(s) \/ StoreRow(s))
    \/ s \in Orders /\ (AskExclusive(s) \/ PlaceOrder(s) \/ Deadlocked(s))

BackupStep == StartBackup \/ RaiseFence \/ Snapshot \/ ListMedia \/ Pack

Next ==
    \/ \E s \in Sessions : Enter(s) \/ SessionStep(s) \/ Die(s)
    \/ \E s \in Orders : OrderAgain(s)
    \/ \E p \in Pictures : PurgeFile(p) \/ PurgeRow(p)
    \/ \E u \in Uploads : Reconcile(u)
    \/ BackupStep \/ BackupFails \/ NextBackup
    \/ RestoreDatabase \/ RestoreMedia \/ Finalize

Fairness == WF_vars(BackupStep) /\ \A s \in Sessions : WF_vars(SessionStep(s))

Spec == Init /\ [][Next]_vars /\ Fairness

-----------------------------------------------------------------------------
(* A restored system is whole, though dump and files are taken one after    *)
(* the other and the purge worker does not pass the fence: every photograph *)
(* its database calls online has its file, every file has its row, no       *)
(* upload is half done, and the backup's own job is finished                *)
(* (_build_system_raw, restore_system_backup.py).                           *)
BackupIsWhole ==
    target.step = "RESTORED" =>
        /\ \A p \in Pictures : target.rows[p] = "ONLINE" => p \in target.files
        /\ \A p \in target.files : target.rows[p] # "NONE"
        /\ \A p \in Pictures : target.rows[p] # "STAGED"
        /\ target.job = "DISCARDED"
=============================================================================
