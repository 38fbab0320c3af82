# Verification of the PKUBA tournament service

TLA+ modules, TLC configurations and TLAPS proofs kept beside the back end of
the PKUBA basketball tournament service (`apps/api`, Django on PostgreSQL). All
paths in this document and in `PROJECT.json` are those of the repository.

    cd tla
    tlc -workers 2 -config ReschedulingRivals.cfg MCRescheduling.tla
    tlapm ReschedulingProofs.tla

`PROJECT.json` lists the runs with their properties, the mutation of the code
that breaks each property, the source lines behind every definition, the
hazards, the findings and the theorems.

## 1. The system

A season has divisions, groups, teams and games. A game has a *place*: a slot (a
date and a period) and a court. Team leaders bind a WeChat account to a team and
may ask to move a game; administrators review, recognise and publish
scoresheets; superadmins manage the season, correct it, archive it and export
it. Everything authoritative is in one PostgreSQL database. Several web workers
run commands as transactions at READ COMMITTED; four worker processes
(`expire_reschedules`, `process_outbox`, `process_scoresheets`,
`process_archives`) poll the same tables. Commands lock rows with
`SELECT ... FOR UPDATE`, slots with transaction advisory locks, and are guarded
by an expected version that the client saw. There is no other shared state: the
clients (mini program, admin web) only repeat commands and send them late.

### Inventory

| component | state | operations | interacts with | hard behaviour | correct when |
|---|---|---|---|---|---|
| Rescheduling service `services/rescheduling.py` | `RescheduleRequest`, `SlotReservation`, `TeamConfirmation`; lock, place and version of `Game` | submit, opponent and team answers, withdraw, review, final decision, cancel, expire | bindings (who may answer), capacity, outbox and inbox (same transaction), results | interleaved commands on shared slots, clocks read before locks, checks made at submission and not repeated at approval | no court or team is promised twice, nobody is overruled, every request ends and gives back what it does not use |
| Expiry worker `commands/expire_reschedules.py` | none | list due requests, expire each; sweep staged uploads | rescheduling, media | races with late answers | no decision is overtaken by an expiry and no team wait lasts for ever |
| Game edits `api_mobile_admin.py` | `Game`, allocation rows | edit, cancel the running request, override the rules | rescheduling | errors returned after writes, no row of a team is locked | an edit respects the same rules, a refused edit changes nothing |
| Schedule capacity `services/schedule_capacity.py` | capacities by period and date | count, compare, override | all that place games | counts without the edited game | only an override overfills a slot |
| Scoresheet recognition `services/scoresheet_recognition.py` | `ScoresheetRecognitionRun`: status, attempt, lease | enqueue, claim, heartbeat, complete, supersede, retry | scoresheets, games | leases that run out, late results, changed documents | a stale result is never applied, every run ends |
| Scoresheet editing `services/scoresheets.py` | `GameScoresheet`, revisions, publications, edit lease | lease, save, review, validate, publish, retry | recognition, results, corrections | two editors, version conflicts, a game forfeited meanwhile | the public result is the checked draft, no edit is lost |
| Email outbox `services/email_outbox.py`, `commands/process_outbox.py` | `EmailOutbox` rows | enqueue, claim, record, recover | every command, inbox | senders that overtake each other, a crash between sending and recording | every mail is sent or reported, SENT is true, copies are counted |
| Inbox tasks `services/inbox_tasks.py`, `reconcile_inbox_tasks.py` | `InboxTask` rows by account and key | synchronise, close, reconcile | rescheduling, recognition, accounts, bindings | people change while a task is open | whoever has to act is told, nobody is asked for what is done |
| Game media `services/game_media.py` | staging rows, assets, files | upload in five steps, replace, delete, restore, sweep | storage, idempotency, seasons, archives | crashes between row and file, two hands on one upload | what the database calls online has its file |
| Archive exports `services/archive_exports.py`, `archive_invalidation.py` | `ArchiveJob`, `MediaPurgeJob`, package files | order, claim, build, confirm, purge, resume, discard | media, seasons | leases that lapse, corrections of an archive, results written by id | nothing is purged that is not in a confirmed package |
| Full backup `archive_exports.py`, `restore_system_backup.py`; write fence `system_write_fence.py`, `middleware.py` | advisory locks, dump and files | fence, snapshot, list, pack, restore | every writing request, media | dump and files are not of one instant; lock waits | a restored system is whole |
| Competition corrections `services/competition_corrections.py` with draws `services/draw_assignments.py`, `brackets.py`, `game_results.py` | `CompetitionCorrection`, revisions, `DrawAssignment` | preview, create, apply, cancel, publish; draw | games, scoresheets, requests, edits | a preview that is stale when applied | results, slots, winners and statistics agree with the games |
| Season setup `services/season_management.py`, `season_lifecycle.py` | `Season`, divisions, courts | create, configure, publish, archive | requests, leases, recognitions | users read the season without its row | what is in use stays, an archive is quiet |
| Rosters and leaders `services/roster_management.py`, `leader_bindings.py`, claims in `api_auth.py` | batches, teams, players, bindings | upload, resolve, confirm, save, transfer, release, claim | draws, seasons, requests | order of rows against unique indexes, stale previews | teams in use stay active, one leader each |
| Administrators' accounts `services/admin_accounts.py`, `superadmin_command_lock.py`, `api_auth.py`, `api_security.py` | accounts, sessions, login codes | register, promote, demote, suspend, reset, log in, change password | every command | superadmins act on each other; a password changes under a request | a superadmin remains, an ended session stays ended |
| Schedule imports `services/schedule_imports_v3.py`, `schedule_drafts.py` | drafts, batches, games | edit the draft, check, confirm, withdraw | seasons, games, draws | checked long before confirmed | imports are whole and fit |
| Standings `services/standings.py` | none | rank a group | results, draws | level teams, forfeits | the ranking the rules ask for |
| Idempotency `services/idempotency.py` | key, fingerprint, answer | replay, run, record | every command | a crash between commit and record | a repeated command does no harm |

`PROJECT.json` lists the remaining components with the reason why each is left
out, see section 5.

## 2. Modules

| module | models | role |
|---|---|---|
| `CourtBooking` | nothing in the code: the promise | abstract specification: a game owns one place and may hold an option on one other |
| `Rescheduling`, `MCRescheduling` | `services/rescheduling.py`, the worker, the rows they share with results and bindings | the core, and small tournaments for TLC |
| `AdminGameEdit`, `MCAdminGameEdit` | `update_admin_game`, composed with `Rescheduling` | superadmins edit the same games |
| `Scoresheets`, `MCScoresheets` | `services/scoresheets.py`, `scoresheet_recognition.py`, `scoresheet_workflow.py`, the worker `process_scoresheets` | one game's sheet: recognition, editing, publication, and the game that changes underneath |
| `EmailOutbox` | `services/email_outbox.py`, the worker `process_outbox` | mails, their senders and the mail server |
| `GameMedia` | `services/game_media.py`, `api_game_media.py`, `idempotency.py` | the photographs of a game |
| `ArchiveExports` | `services/archive_exports.py`, `archive_invalidation.py`, `api_admin_archives.py` | packages and purges of a season |
| `SystemBackup` | the full backup of `archive_exports.py`, `system_write_fence.py`, `middleware.py`, `restore_system_backup.py` | fence, snapshot and restore |
| `CompetitionCorrections` | `services/competition_corrections.py`, `draw_assignments.py`, `brackets.py`, `game_results.py` | games put right after the fact |
| `SeasonSetup` | `services/season_management.py`, `season_lifecycle.py` | seasons against the flows of users |
| `Rosters` | `services/roster_management.py`, `leader_bindings.py`, `claim_leader_team` | teams, players and leaders |
| `AdminAccounts` | `services/admin_accounts.py`, `superadmin_command_lock.py`, `api_auth.py` | administrators and their sessions |
| `ScheduleImports` | `services/schedule_imports_v3.py`, `schedule_drafts.py` | how games come to be |
| `Inbox` | `services/inbox_tasks.py`, `reconcile_inbox_tasks.py` | who is told what waits |
| `Standings` | `services/standings.py` | the table of a group, against the rules as a reference |
| `MCServices` | fifteen small instances of the last eleven components | values for TLC |
| `ReschedulingProofs` | | proofs about `Rescheduling`: types and negotiation; places, rows, previews and the refinement |
| `AdminGameEditProofs` | | the same rows when superadmins edit games |
| `ScoresheetProofs` | | proofs about `Scoresheets`: recognition; drafts and publications |
| `EmailOutboxProofs` | | proofs about the outbox |
| `PhotographProofs` | | proofs about `ArchiveExports`, `SystemBackup` and `GameMedia` |
| `AdministrationProofs` | | proofs about `AdminAccounts`, `SeasonSetup`, `Rosters`, `ScheduleImports`, `Inbox` and `CompetitionCorrections` |
| `StandingsProofs` | | proofs about `Standings`: sums, sorting, ranks, columns |
| `ServicesProofs` | | the theorems about the services, for the run `Services` |

### Rescheduling

The variables are the tables: `game` (place, status, `active_reschedule_request`
as `lock`, `version`), `request`, `reservation`, `confirmation` (one per request
and team), `leader` (the active bindings) and the clock `now`. Each action is
the transaction of one service function:

| action | code |
|---|---|
| `Submit` | `submit_reschedule` |
| `RespondToOpponent` | `respond_to_opponent` |
| `RespondAsSelectedTeam` | `respond_as_selected_team` |
| `Withdraw` | `withdraw_request` |
| `AdminApproves`, `AdminRejects`, `AdminCallsVote` | `admin_decide_review_route` |
| `AdminFinallyApproves`, `AdminFinallyRejects` | `admin_final_decision` |
| `AdminCancels` | `admin_cancel_request` |
| `ExpireRequest` | `expire_request` for a request listed by `expire_due_confirmations` |
| `PublishResult`, `TransferLeader`, `ReleaseLeader`, `Tick` | the environment: a result is published, a binding changes, time passes |

`Release`, `Approve` and `MoveOn` are the helpers `_release_request`,
`_approve_request` and the status change every other command ends in.

*Atomicity.* A command is one step because it holds, until it commits, the row
locks of the request, the game and the reservation it decides on and, when it
books, the advisory lock of the target slot; two commands that share none of
these touch different rows. What is *not* covered by a lock is kept: the clock
is read before the locks are taken, so a command uses a reading up to `LockWait`
days old (`Readings`).

*Failures.* A command whose guard fails raises and is rolled back, so it is no
step. A command carries the version its caller saw; in a step that succeeds it
equals the current one, so versions appear in the rows and not as parameters;
`DecisionsStand` and `FingerprintIdentifies` say that they do their work.

*Time.* `now = d` is the midnight at which day `d` starts; day 0 is a Monday; a
game starts later on its day. The deadlines of the code ("24:00, N days before")
are midnights, so nothing between two midnights can change a guard.

*Abstractions.* Courts are ranked (`VenueRank` for `sort_order`, name); leaders
are bound from a given set of pairs (`Appointments`); a reservation is named by
the request it was made for or, if a superadmin's edit made it, by its game; scores, reasons,
audit entries, mails and inbox tasks are left out here; columns that only rows
from older releases leave empty are taken as filled; who may vote is given by
`VoterScope` (the group of the game, or its division).

*Bounds.* `MaxGameVersion` limits republication, `Horizon` the clock, `LockWait`
the wait for locks, `Request` the number of requests. `CHECK_DEADLOCK FALSE`
appears because these bounds let everything be decided and the system then rests.

### AdminGameEdit

`EditGame` is `update_admin_game` from its first check to its last write, in the
order of the code: the early checks, the cancellation of the running request
(through `admin_cancel_request`), the conflicts on court, team and capacity
(skipped by `override_rules`), and the allocation rewritten, created or released.
Its two outcomes are `EditApplied` and `EditRefusedLate`: the latter is an error
answer given after the cancellation, and the transaction commits because the
view returns instead of raising. `EditSpec` composes it with all of
`Rescheduling`. `Edited` names the games edited, `MaxEditVersion` bounds edits,
`Overrides` says whether `override_rules` is used.

### Scoresheets

One game and its sheet; sheets of different games share nothing but the workers.
The variables are the rows: `game` (its status), `sheet` (`GameScoresheet`),
`run` (`ScoresheetRecognitionRun`, by source version and cycle), `editor` (the
holder of a lease that has not run out), `revision` and `publication`, and what
is not in the database, `claim`: the run and lease token each worker process
remembers between its transactions.

| action | code |
|---|---|
| `UploadSource`, `UploadAttachment` | `register_scoresheet_source`, the latter for a forfeited game |
| `Acquire`, `TakeOver`, `LeaseEnds` | `acquire_edit_lease`, `force_takeover_edit_lease`, release or lapse |
| `Save`, `ReviewRegion`, `ReviewContext`, `ApplyRegions` | `save_draft_changes`, `review_region`, `review_scoresheet_game_context`, `apply_recognition_regions` |
| `Validate`, `Publish`, `RetryRecognition` | `validate_scoresheet`, `publish_scoresheet`, `retry_recognition` |
| `ReconcileGame`, `CorrectGame` | a change of the game's status, with `reconcile_scoresheet_game_status` or `_withdraw_publication` |
| `ClaimRun`, `CloseRun` | `claim_next_run`, for a run to be called or only to be closed |
| `StartCall`, `Finish` | the check in `execute_claim`; then, after the provider has answered, `_complete_success` or `_complete_failure` |
| `Crash`, `WorkerLeaseLapses`, `Renew` | a worker dies; five minutes without a heartbeat; the heartbeat thread |

*Atomicity.* Every transaction above locks the game's sheet, hence one step
each. The provider is called between two transactions, so anything may happen
between `StartCall` and `Finish`.

*Data.* A draft is the set of what went into it: recognition results by run and
edits by the version they made. `resultOnly` is the column `result_only`; a
worker token is the number of the attempt it was issued for, unique in a run as
the UUID is. Retry delays, the provider's payload, tasks, events, priors and
rosters, the acknowledgement of warnings, archived seasons and corrections that
wait for a publication are left out. The branch of `_complete_success` that only
stores a result because the draft changed is modelled but, since nobody can edit
during a recognition and a reconciliation makes the run evidence-only, no run
reaches it: it is the code's second line of defence.

*Bounds.* `MaxSource` uploads, `MaxCycle` recognitions of one photograph,
`MaxVersion` for the version a change may start from, `MaxPublication`
publications, and `MaxAttempts`, four in the code, two or one in the runs.

### EmailOutbox

Commands queue mails inside their own transactions, so to the outbox a mail
appears in one step. The variables are `mail` (the rows, in the order of their
creation), `worker` (what a process remembers between its transactions: the
mail it claimed and how the call ended), `delivered` (what the mail server did,
which the database never learns) and the counter `crashes`.

| action | code |
|---|---|
| `Enqueue` | `enqueue_public_mail`; the event key makes a second call do nothing |
| `Claim` | `claim_one`: rows abandoned for fifteen minutes become PENDING (`Recovered`), then the oldest due row is claimed (`Claimed`) |
| `Send` | `send_mail` in `process_one`: the server takes the mail or not, and the call may fail although it did |
| `RecordSuccess`, `RecordFailure` | `record_success`, `record_failure` (`Refused`), which write whatever the status has become |
| `Crash` | the process ends between two transactions; its row stays SENDING |
| `WaitEnds`, `GoesStale` | `next_attempt_at` comes; fifteen minutes pass after `updated_at` |

*Atomicity.* Each transaction locks its row; `skip_locked` lets a claim pass over
a row that another worker is recording. The call lies between two transactions.

*Data.* Times are the flags `due` and `stale`: the code compares them with the
clock and with nothing else. A row may go stale while its worker is alive: the
call is limited to fifteen seconds (`EMAIL_TIMEOUT`), the process is not. Worker
heartbeats, the write fence that pauses all workers, and superadmins who edit rows
by hand are left out.

*Bounds.* `MaxMail`, `MaxCrashes`, and `MaxAttempts`, eight in the code and two in
the runs: one attempt that is retried and one that is the last.

### GameMedia

An upload is several transactions under a session lock on its idempotency key:
`Begin` (the staging row, or `Resume` where an earlier request left it), `OpenFile` and
`WriteFile`, `MarkStored`, `Promote`, `Record` (the answer); a `Crash` ends a request after any of them, and a retry with the same
key goes on where the row is. `SweepStep` is the reconciler, which takes up what
was left behind. Replacement, deletion, restoration, purge and archival are
actions of their own. A key names its command, staging row, asset and file.
`Budgets` bounds how often each command is sent.

*Atomicity.* The session lock keeps requests for one key apart, and nothing keeps the
sweep from them: it reads a row without a lock (`SweepFinds`), in whatever step its
request is, and a retry may `Begin` while the sweep is on the row. The removal of a
file (`Discard`, `SweepFails`) and the change of its row are two steps, as are the comparison with a
file that is there (`CompareFile`, `SweepCompares`) and what follows from it. `met` is a history
variable: the uploads on which a request and the sweep ever were at the same time.
Everything that does not need the two to meet is claimed of all other uploads.

### ArchiveExports

`season` carries the version that packages record and that every change of an
archived season raises (`Corrected`); `pack` and `purge` are the job rows,
`artifact` and `onDisk` the files. Workers claim (`Claim`), build, and write
their results by the job's id; `Die` and `Respawn` let a lease lapse under a
worker that still runs. A purge removes one photograph a step and may be
resumed. `MaxVersion` bounds the season's version.

### SystemBackup

The fence is an advisory lock in `at`: sessions hold it shared (`Enter` to the
end of their request), the snapshot asks for it alone and waits, and an order for
a package asks for it alone while its own request holds it shared, so that two
such orders wait for each other until PostgreSQL ends one (`Deadlocked`). The dump and
the list of files are two steps. `RestoreDatabase`, `RestoreMedia` and
`Finalize` are the restore command.

### CompetitionCorrections

A correction is a draft with the versions it was made for. `CreateCorrection`
computes conflicts and the impacts on the bracket, `ApplyCorrection` compares
versions only, `PublishCorrected` applies one that waited for its scoresheet.
`Submit`, `Approve`, `EndRequest`, `UpdateGame`, `Publish`, `DrawGroups`,
`DrawGame` and `Archive` are what happens to the same games in between, each
as its own module or service has it but without the parts that concern no
correction. A score is the side that won, a place stands for date, period and court.
`MaxWork` bounds the sum of all versions.

Reservations follow `_update_reservation`: `allocated` holds the place of a game that
was moved to a court chosen from the season's (`standard`), and nothing for a game moved
to a place in words, a special hall (`Halls`) or a court written by its name (`Named`). The
unique constraint (`Reservable`) knows reservations only, `CourtFree` looks at
games and kept slots when a correction is made, and `Approve` looks at
reservations only. A game starts without a reservation, as the schedule import leaves it.

### SeasonSetup

A command of an administrator holds the season's row and is one step; a preview
(`PreviewLifecycle`, `PreviewConfiguration`) and its application are two, tied
by a token or version. A user's flow is two steps, `CheckFlow` (it reads the season
without its row) and `CommitFlow`. Of a configuration the divisions and courts
are kept.

### Rosters

`UploadRoster`, `ResolveNames`, `ConfirmImport` are the first import;
`CreateTeam`, `SaveTeam` later changes. `SaveTeam` keeps the order in which rows are
written, since the index on active numbers is checked after each
(`Renumbered`, `ReleasedFirst`, `Midway`, `IndexRefuses`).
`PreviewTransfer`, `TransferLeader`, `ReleaseLeader`, `ClaimTeam` change bindings.

### AdminAccounts

A superadmin's command is `Authenticate` and `RunCommand`: between them it waits
for the one lock all commands share. A login is `LoginByPassword` or `ConsumeCode`,
then `OpenSession`; a change of password `StartChange`, `ChangePassword`. A
password is the number of times it was set, and a session carries the one it was
opened with, which is what the session hash does. `revoked` is a history variable.

### ScheduleImports, Inbox, Standings

`ScheduleImports`: `DraftCommand` edits and empties the draft, `ImportCommand`
checks, confirms, rejects and withdraws batches; games are edited, drawn and
published and the configuration changes in between. `Inbox`: every command on a
request or a recognition ends in the synchronisation of its tasks, which is part
of the action; leaders and staff change without being told, `Reconcile` is the
nightly command. `Standings`: `OfficialKeys` and `RankGroup` are the code's sort
keys and ranks, where `Ordered` is a sequence of the teams in which each is `Ahead`
of those after it; `Fair` and `Balanced` say independently of them what the rules ask for.

## 3. Runs

| run | question | instance |
|---|---|---|
| `ReschedulingRivals` | Are courts, capacity, locks, allocations and versions kept when two games compete? Does the service implement `CourtBooking`? | two games without a common team, two requests, two courts, a slot with room for both and one for one, one game possibly void, republication |
| `ReschedulingShared` | Is a team ever due twice? Is the preview of targets exact? | two games of one team, three slots |
| `ReschedulingVote` | Are answers respected on every route, do decisions last, does each team wait end? | one game, four teams, all of the other two may vote, leaders change, commands up to a day late, fairness |
| `AdminEditOverride` | Do edits, even with `override_rules`, keep locks, allocations and the unique constraint; does only an override overfill a slot or a court; is a game under a running request left where it is? | one edited game, its rival, one request, a non-standard hall |
| `AdminEditPartial` | *violated*: a refused edit changes nothing | |
| `AdminEditTwice` | *violated*: no team is due twice | |
| `ScoresheetWorkers` | Is there one recognition at a time, read-only editors meanwhile, no unfinished result in the draft, no call for a run kept as evidence? Does every recognition end? | two fair workers, a superadmin, two photographs, two attempts, five versions |
| `ScoresheetEditing` | Is the public result the checked draft; does every edit survive retries? | one worker, administrator and superadmin, two photographs, two cycles, a publication |
| `ScoresheetExhausted` | *violated*: after the last attempt the sheet is released | one worker |
| `MediaSweep` | *violated*: what is online has its file | the uploads of `Services` |
| `Services` | Do the other services keep their promises, listed below? | fifteen instances in one run, each behaviour runs the one named by `focus` |
| `CorrectionStatistics` | *violated*: statistics are of the participants | the corrections of `Services` |

The services of `MCServices` share no state in the model, so that one run over their
disjoint union explores the same states as fifteen runs would:

| instance | property | size |
|---|---|---|
| `mail` | `MailIsAccountedFor`, `ServicesSettle` | two fair workers that stall, two crashes, one mail of two attempts |
| `media` | `LostOnlyToSweep`, `ServicesSettle` | two group photos for one place, or one sent twice, or the replacement of a scoresheet sent twice; crashes, the sweep |
| `archives` | `PurgedWasPackaged` | a photograph, two packages, a purge, a worker whose lease may lapse |
| `backup` | `BackupIsWhole`, `ServicesSettle` | an upload, two orders, a backup and its restore |
| `corrections` | `RecordsAgree`, `MeetOnlyUnreserved`, `CorrectionsSettleWinners` | a group game, a semifinal and a final, four places at three times, one of them a hall, three teams, one correction; two games may be one batch |
| `seasons` | `InUseIsKept` | two seasons, a small and a large configuration, one flow |
| `squads` | `ValidRostersAreSaved` | two teams, two players, two numbers |
| `leaders` | `TeamsInUseStay` | two teams, two accounts |
| `superadmins`, `sessions` | `AccountsAreGoverned` | two superadmins with two commands under way; one superadmin, one account with two browsers |
| `imports` | `ImportsAreWhole` | three matchups, three places at two times, two batches |
| `tasks`, `turnover`, `reviews` | `InboxFollows` | a request with two voters; staff that come and go; two recognitions |
| `group` | `StandingsAreFair` | three teams that play each other once, six outcomes |

*Why the bounds are enough.* The properties relate at most two games, two
requests and two teams of each; a third court or slot only adds choices that
`FirstAvailableVenue` makes the same way. Two requests allow a game to be moved
twice in succession, which is the shortest history with an old allocation to
release, and allow two requests to compete. Requests are interchangeable
(`SYMMETRY` in the safety runs only). The clock runs from before the closing of
requests to after the last deadline. In the services, two of whatever competes (uploads
for a place, orders for the lock, batches for a court, superadmins, candidates for
a team) and versions high enough for one change between the look and the write,
and one more after it. An upload that is sent twice is the retry of one that failed, which
is what the sweep can meet. Three teams are the smallest group with a circle of wins. What is
proved holds for any size, see below.

*Deadlock.* `CHECK_DEADLOCK FALSE` appears because versions, attempts and the
number of requests are bounded and everything may have been decided; the
system then rests. That nobody waits for ever where the code waits for locks is the third part of
`ServicesSettle`.

*Fairness.* `TeamWaitEnds` assumes weak fairness of the clock and of the expiry
worker for each request: `expire_reschedules` loops every 30 seconds for as long
as it is deployed and retries what failed; row locks are held only for the
length of a transaction. Nothing makes a person act: an administrator may leave
a request undecided for ever, and the model says so (`AdminWaiting` states have
no liveness property).

`RecognitionsEnd` assumes that `process_scoresheets` keeps polling (weak
fairness of claiming or closing each run), that a worker that claimed goes on and
a call returns (an HTTP timeout of 180 seconds bounds it), and that a lease nobody
renews runs out. A crash is never assumed and never excluded. People and the
renewal of a lease have no fairness.

`ServicesSettle` has three parts. Mail: some `process_outbox` keeps polling (every
ten seconds), a call returns and is recorded unless the worker dies, and time
passes. Uploads: a request that is being served goes on unless its server
crashes, and the sweep, which `expire_reschedules` runs in its loop, comes to every staged row;
as a sweep looks at the hundred oldest rows (`game_media.py:1056`) and FAILED rows are never
removed, that assumes fewer than a hundred older FAILED rows. `MaxCrashes` bounds the
crashes of mail workers, so a recovery that only ends because nobody crashes again is
not told from one that ends.
Backup: the worker goes on, and a request that holds the fence ends or dies; that the waiting
snapshot gets its turn although requests keep coming is not assumed but follows from the
queue of the advisory lock, behind which later requests wait (`Wanted`).

### Findings

* `AdminEditPartial`: `update_admin_game` cancels the running request and then
  answers `VENUE_CONFLICT`, `TEAM_CONFLICT` or `SLOT_CAPACITY_CONFLICT` from
  inside the transaction, which commits. The documents promise that a failed
  command leaves no partial write.
* `AdminEditTwice`: the team conflict of an edit looks at games and not at
  the slots kept for running requests, so an edit without `override_rules`
  followed by an approval puts one team on two courts at once.
* `ScoresheetExhausted`: a worker that dies in the fourth attempt leaves the run
  RUNNING for ever, because `claim_next_run` only offers runs with fewer than
  four attempts; the sheet stays read-only although `docs/SCORESHEETS.md`
  promises that administrators can fill it in by hand once four attempts are
  used up. `RecognitionsEnd` states the part that does hold.
* `CorrectionStatistics`: a correction of the participants of a published game
  keeps the statistics of the team it takes out; the repository's own audit then
  counts an error, and a full backup of that database cannot be restored.
* `MediaSweep`: the sweep reads a FAILED row without a lock and deletes its file without
  looking again; a retry that began in between has set the row to STAGING, stored the
  file and marked it STORED, and the promotion does not look at the file. `_mark_staging_failed`
  has the same order. The comment in `_store_or_resume_staging` (`game_media.py:442`) says that
  the row leaves FAILED first so that recovery does not discard the file.
  `LostOnlyToSweep` states what does hold.

## 4. Proofs

Each theorem holds for any number of rows, users and workers, under named
assumptions on the constants.

* `Spec` of `Rescheduling` (games, requests, teams, slots, courts): `IdentityAssumption`
  (the null values are not rows), `SeasonAssumption` (shape of the season),
  `CalendarAssumption` (shape of the calendar and the bounds), `FiniteAssumption`
  (finitely many games and requests, for counting). `PreviewsAreHonest` also asks
  that there is a request, since `PreviewHonest` speaks of one that could be made.
* `EditSpec` of `AdminGameEdit`: these and `EditAssumption`, which adds its bounds
  and that the value for "no request" is not a game, as a reservation made by an
  edit is named by its game.
* `Spec` of `Scoresheets` (workers, administrators, attempts, uploads, retries):
  `AttemptAssumption`, `BoundAssumption` (natural bounds, at least one attempt).
* `Spec` of `EmailOutbox`, where workers may stall: `OutboxAssumption` (natural
  bounds, finitely many workers).
* `Spec` of `ArchiveExports`: `Setup` (packages and purges are different jobs, any
  set of ids has a first one because ids are numbers, the null value is none of them).
* `BackupSteps`, the steps of `SystemBackup` without its fairness: nothing.
* `MediaSteps`, the steps of `GameMedia` without its fairness: `MediaSetup` (new uploads are not old pictures, a
  replacement is of the kind of what it replaces, the game starts with at most one
  picture of a kind it shows once).
* `Spec` of `AdminAccounts`: `Setup` (finitely many accounts, at least one founding
  superadmin, which `bootstrap_first_superadmin` provides, the null value is no account).
* `Lifecycle!Spec` of `SeasonSetup`: `SeasonAssumptions` (configurations ask for
  divisions and courts there are).
* `Squads!Spec` of `Rosters`: `RosterAssumptions` (rows never run out: for every file
  there are enough teams and players).
* `Imports!Spec` of `ScheduleImports`: `ImportAssumptions` (finitely many places and
  matchups, natural capacities, a grid puts matchups on places, the null value is no game).
* `Tasks!Spec` of `Inbox`: `InboxAssumptions` (the opponent is not among those who vote,
  which `eligible_reschedule_voter_teams` sees to, and the null value is no account).
* `Repairs!Spec` of `CompetitionCorrections`: `CompetitionAssumptions` (finitely many
  games, numbered by their ids; every slot of the bracket belongs to one side of one
  game, and a game is either of the groups or of the bracket; a competition starts in order,
  with sound rows and slots that say what the games say; games may share courts at the start).
* `Spec` of `Standings`: `StandingsAssumptions` (finitely many games, each between two different
  teams of finitely many, which have an order as names do; scores are whole numbers).
* `ServicesSpec` of `MCServices`, the run itself: `NothingAssumption` (the null value of
  the schedule is not a game) and `OutboxAssumption`. What the theorems about the services
  assume is not assumed again: it is proved of the run's values.

`PhotographProofs`, `AdministrationProofs` and `ServicesProofs` hold several systems each, as instances;
that two of them have a variable of the same name relates nothing, because every
theorem is about one specification.

| theorem | module | statement |
|---|---|---|
| `TypeCorrect` | `ReschedulingProofs` | `Spec => []TypeOK` |
| `DecisionsStandForEver` | | `Spec => DecisionsStand` |
| `SchemaNeverRefuses` | | `Spec => []SchemaConstraints` |
| `NobodyIsOverruled` | | `Spec => []NobodyOverruled` |
| `LocksHeld` | | `Spec => []LockHeld` |
| `CourtsExclusive` | | `Spec => []VenueExclusive` |
| `TeamsExclusive` | | `Spec => []TeamExclusive` |
| `CapacityRespected` | | `Spec => []WithinCapacity` |
| `AllocationsFollowGames` | | `Spec => []AllocationFollowsGame` |
| `DatabaseNeverRefuses` | | `Spec => []DatabaseAgrees` |
| `PlacesStayInOrder` | | `Spec => []PlacesInOrder`: courts, capacities and kept slots together |
| `LedgerStaysTrue` | | `Spec => []LedgerAgrees`: locks, allocations and the unique constraint together |
| `FingerprintsIdentify` | | `Spec => []FingerprintIdentifies` |
| `MovesByConsent` | | `Spec => GameMovesByConsent` |
| `PreviewsAreHonest` | | `(Request # {}) /\ Spec => []PreviewHonest` |
| `Implementation` | | `Spec => BookingImplemented` |
| `EditsKeepRows` | `AdminGameEditProofs` | `EditSpec => []EditKeepsRows` |
| `NoGameIsPulledAway` | | `EditSpec => GameNotPulledAway` |
| `OverridesAlone` | | `EditSpec => OnlyOverridesOverfill` |
| `ScoresheetTyped` | `ScoresheetProofs` | `Spec => []TypeOK` |
| `OneCallAtATimeHolds` | | `Spec => []OneCallAtATime` |
| `ReadOnlyHolds` | | `Spec => []ReadOnlyWhileRecognising` |
| `DraftIsFromItsSource` | | `Spec => []DraftIsOfItsSource` |
| `PublicationsWereKept` | | `Spec => PublishedAsChecked` |
| `NoEditIsLost` | | `Spec => HumanWorkKept` |
| `EvidenceIsNeverSent` | | `Spec => EvidenceStaysEvidence` |
| `PublicReadsWhatWasChecked` | | `Spec => []PublicIsChecked` |
| `OutboxTyped` | `EmailOutboxProofs` | `Spec => []TypeOK` |
| `SentWasDeliveredHolds` | | `Spec => []SentWasDelivered` |
| `CopiesAreCountedHolds` | | `Spec => []CopiesAreCounted` |
| `MailAccounted` | | `Spec => MailIsAccountedFor` |
| `ArchivesTyped` | `PhotographProofs` | `Setup /\ Spec => []TypeOK` |
| `RemovedWasPackaged` | | `Setup /\ Spec => []PurgedWasPackaged` |
| `RestoredSystemsAreWhole` | | `BackupSteps => [](Backup!TypeOK /\ Backup!BackupIsWhole)` |
| `OnePictureOfAKind` | | `MediaSetup /\ MediaSteps => [](Media!TypeOK /\ Media!OneOfAKind)` |
| `PhotographsHaveFiles` | | `MediaSetup /\ MediaSteps => []Media!LostOnlyToSweep` |
| `GovernedCorrect` | `AdministrationProofs` | `Setup /\ Spec => [](TypeOK /\ AccountsAreGoverned)` |
| `SeasonsKeepWhatIsInUse` | | `SeasonAssumptions /\ Lifecycle!Spec => [](Lifecycle!TypeOK /\ Lifecycle!InUseIsKept)` |
| `NoOrderIsRefused` | | `Squads!ValidRostersAreSaved`, in every state |
| `TeamsStay` | | `RosterAssumptions /\ Squads!Spec => [](Squads!TypeOK /\ Squads!TeamsInUseStay) /\ [][Squads!AsShown]_Squads!vars` |
| `ImportsStayWhole` | | `ImportAssumptions /\ Imports!Spec => [](Imports!TypeOK /\ Imports!ImportsAreWhole) /\ [][Imports!UsedUpAsGames]_Imports!vars` |
| `TasksFollow` | | `InboxAssumptions /\ Tasks!Spec => [](Tasks!TypeOK /\ Tasks!TasksAreCurrent) /\ [][Tasks!WaitReachesSomebody]_Tasks!vars` |
| `CorrectionsStayTrue` | | `CompetitionAssumptions /\ Repairs!Spec => [](Repairs!TypeOK /\ Repairs!RecordsAgree) /\ Repairs!CorrectionsSettleWinners /\ Repairs!MeetOnlyUnreserved` |
| `TablesAreFair` | `StandingsProofs` | `StandingsAssumptions /\ Spec => [](TypeOK /\ StandingsAreFair)` |
| `ServicesStayTyped` | `ServicesProofs` | `ServicesSpec => []ServicesTyped` |
| `PhotographsStayWhole` |  | `ServicesSpec => []LostOnlyToSweep` |
| `PurgesFollowPackages` |  | `ServicesSpec => []PurgedWasPackaged` |
| `BackupsAreWhole` |  | `ServicesSpec => []BackupIsWhole` |
| `RecordsStayInAgreement` |  | `ServicesSpec => []RecordsAgree` |
| `ReservedCourtsStayApart` |  | `ServicesSpec => MeetOnlyUnreserved` |
| `WinnersAreSettled` |  | `ServicesSpec => CorrectionsSettleWinners` |
| `UsedSeasonsStay` |  | `ServicesSpec => []InUseIsKept` |
| `RostersAreSaved` |  | `ServicesSpec => []ValidRostersAreSaved` |
| `LedTeamsStay` |  | `ServicesSpec => TeamsInUseStay` |
| `AccountsStayGoverned` |  | `ServicesSpec => []AccountsAreGoverned` |
| `ImportsAreKeptWhole` |  | `ServicesSpec => ImportsAreWhole` |
| `InboxesFollow` |  | `ServicesSpec => InboxFollows` |
| `StandingsStayFair` |  | `ServicesSpec => []StandingsAreFair` |

*The argument for rescheduling.* The next-state relation has fourteen commands but only six
effects on the tables, the *shapes* of `ReschedulingProofs`: `Submitting`,
`Releasing`, `Approving`, `MovingOn`, `Publishing` and `Idle`. `StepShape` shows
once that every step has a shape; from there each invariant is proved one shape
at a time, and the lemmas `SubmitEffect`, `ReleaseEffect`, `ApproveEffect`,
`MoveOnEffect` and `PublishEffect` say row by row what a shape changes.

*Strengthening.* `LockHeld` is inductive with `TypeOK`. The exclusion of courts
is not: approval moves a game into the kept place without looking again, so one
needs that places are unique over games *and* kept slots together
(`PlacesUnique`) and that a kept slot is that of the request that locks the game
(`KeptForRequests`). That an approval finds a scheduled game, and that an
allocation lies under a game still to be played, needs `LockedIsPlayed`: a
locked game is not void. Capacity is the counting form: an approval takes away a
game from one slot and replaces a reservation by a game in the other, so
`Occupancy` never grows except in `Submit`, which checked it; the proof works on the
cardinalities of `GamesAt` and `ReservedAt` with `FiniteSetTheorems`.
`DatabaseAgrees` needs `AllocationFollowsGame`: a CONVERTED row, which the choice
of a court does not look at, is always under a game, which it does look at. The
refinement maps a game's booking to its place and its option to the place of the
request that locks it; the six shapes become `TakeOption`, `DropOption`,
`ExerciseOption` and stutters.

*The argument for the negotiation.* What a request may do next depends on its own row and
votes, so `StepMoves` shows that every step makes one of eight moves of each request,
most often none, and each property is proved one move at a time. That
nobody is overruled is not inductive: a final approval looks at the status only, so
`Negotiated` adds which answers each waiting status stands for. The preview
takes the first court that is free and a submission looks again; both are a least
element of the same set (`LeastNatural`), as long as the unique constraint does not
refuse what the choice accepts, which is `DatabaseAgrees`.

*The argument for edits.* An edit has the reservation of a special court named by its game, frees the
slot of the request it cancels, and may commit half of this with an error. The
steps of the negotiation are covered by the lemmas of `Rescheduling`, whose invariants
speak of all reservations whoever made them; what remains is that `EditApplied` and
`EditRefusedLate` keep `Ledger` (types, locks, unique places, allocations). For
`OverridesAlone` only the ledger may be assumed of the state before, since earlier
overrides may have left courts and slots overfull: it is proved from one step, where
an edit that keeps to the rules gives up what the game and its request had and
finds room for one.

*The argument for scoresheets.* A step does one of three things to the runs: some
proceed or end (`Proceeding`), a photograph is only kept while nothing is pending
(`Attaching`), or a run is created while none is active (`Starting`); `StepKind`
shows it for every action. `OneCallAtATime` says nothing about why no active run is
left when a run is created: the guards of an upload only look at the newest run of
the present photograph and at running ones. So the invariant adds that a run which
may still change the draft is that newest one (`PendingIsLatest`), that one kept for
evidence is never queued (`EvidenceOnlyRuns`), and that runs belong to photographs
that exist. For the second half, claims carry tokens, and a token counts the attempts
of its run: `ClaimInv` says that no token exceeds the attempts made and that two
workers never hold the same one, which a takeover keeps because it takes the next
number. `ReadOnlyWhileRecognising` then follows by cases: editing needs that nothing
is pending; what creates, sends or delays a run writes the status that shows it; and
of the changes of a game only a forfeit may meet a pending run, which it stops.

*The argument for drafts.* `StepMoves` sorts the steps by what they do to the draft and
to the runs at once. A result enters the draft late, so `DraftOfRuns` adds that
its run is recorded as applied, which no later step takes back. A publication reads
a flag, not the draft, so `CleanIsKept` says that a draft flagged as free of errors
was kept as a revision; a retry replaces the draft long after it was asked for, so
`RetryIsSafe` says that the draft it may replace was kept then and, because editing
is closed meanwhile (`ReadOnlyWhileRecognising`), is still that draft.
`PublicIsChecked` is proved with what a game's status allows a sheet to show.

*The argument for the outbox.* A mail is recorded as sent by a worker whose call was
answered, so `SentInv` adds that such a worker's mail was delivered
(`AcceptedWasDelivered`). Copies are counted because an attempt is counted when it
is claimed: the calls still open together with the copies delivered never exceed
the attempts on record (`Counted`), a sum over the finite set of workers that a
claim raises on both sides and a crash lowers on one.

*The argument for archives.* A purge reads its package long after it was ordered, and
workers write their results by id. `ArchInv` adds that a package used by a purge
is finished for good and nobody builds it (`UsedIsFinished`), that a final package of
the season's present version holds every photograph online, that one worker alone builds a
package, and that whatever was ever marked is held by the package of its purge even
if it was restored since (`MarkedIsHeld`).

*The argument for the backup.* While the snapshot holds the fence no session is inside, and
only a purge that began before it still writes; so the dump is recent, up to what a
purge removes, until the files are listed (`BackupInv`), and what was captured
stays whole however long it is packed (`CaptureIsWhole`).

*The types.* The theorems of the services state the type invariant of their module with what
they are about; where the inductive invariant leaves a part of it out, a lemma of its own
adds it (`ContentsStayOwn`, `ShownStaysTyped`, `SeasonStaysTyped`, `InboxStaysTyped`).
`ServicesStayTyped` puts them together.

*The argument for uploads.* Nothing keeps the sweep and a request apart, so the
invariant is about the uploads on which they never met (`InHand`): such an upload is in the hand of
one of the two, its file is complete before its row is promoted and its row is
promoted exactly when its asset was made. Of the others `PromotedIsMade` says what is left:
a row that says PROMOTED has its asset. A step that brings the two together puts the
upload into `met` in that same step, so the proof has one case where `InHand` has nothing to show and
one where the other party is known to be away. That a game shows one picture of a kind
does not depend on this, since the promotion looks again in its own transaction
(`OneOfAKind`). So a file is lost to that meeting only, to no crash, retry, replacement,
purge or restoration; that it can be lost there shows the run `MediaSweep`.

*The argument for the accounts.* A command trusts what it looked up about its actor only
after it has the lock all commands share, so each is one step in which the actor is
a superadmin: a demotion never takes the actor, a suspension of a superadmin leaves
somebody because there are two (`SomebodyElse`). That nobody's ended session
comes back is not inductive by itself: a change of password writes the new
password into the session that made it, and one has to know that this session was not an ended one. The
invariant says that no session knows a later password than its account
(`PasswordsTrail`) and the ended ones know an earlier one (`RevokedTrail`); the
second look at the password (`StillCurrent`) then excludes them. `ActorsExist` keeps the null
value out of the commands.

*The argument for seasons.* A flow checked its season and commits later, so
`CreatedInUse` adds that the season it checked was created, that a season still to come has
nothing scheduled, and that versions count from one. A removal of courts cancels the requests
on them in its own transaction, and a flow that comes later finds its court gone.

*The argument for rosters.* Half written, a row of `save_team_roster` is what it was or what
it will be, and it is as it was only if it stays so or was released first
(`MidwayIsDistinct`): this needs no invariant. `RosterInv` adds that whoever leads
a team has it counted among those that were ever led, which is all an import and
the end of a team look at, and that players are on rosters of teams there are, so that a fresh
team starts with none.

*The argument for imports.* Confirmation looks at the version of the draft, not at its
cells, so `Dated` says that a batch validated from the draft at its present version
holds the cells the draft shows. Games are those of confirmed imports, and a confirmed
import has all of its games (`GamesOfImports`), which is why a reset that looks at the
batches takes back every game. A confirmation counts its own grid together with the
games there, a matchup enters at one place only (`ConfirmationEnters`), and so
the capacity is kept by counting the games of a time before and after.

*The argument for tasks.* A task is never opened twice, so a key that was closed before
it is wanted would wait in vain: `NothingAhead` says that no task belongs to a stage
still to come, because stages never return and a key is first wanted when its stage
begins. With it a synchronisation opens what is wanted, and closes the rest
(`RequestSynced`, `SheetSynced`), so that open tasks are those of the state.

*The argument for corrections.* A correction is checked when it is made and applied days
later, and nothing looks for conflicts again. What keeps games apart then is the unique
constraint alone, and it protects reserved courts only. The invariant says that a
reservation is for the court its own game is on and that no other game has the same
(`KeptApart`); an application and an approval keep it because they write against the
constraint (`CourtsCorrected`). So two games with reservations never share a court,
and for `MeetOnlyUnreserved` it remains to show that every other step looks: a game that is
touched stays where it is, or looked for others, or is moved by one of the two
(`Settles`), and a game nobody touched neither moves nor stops being forced. A game at a hall or a
court written in words has no reservation; there `CourtsExclusive` fails (section 5).
A waiting correction is published with the game it names (`Awaited`). A slot that
was confirmed by a game names the version it saw, and a winner never changes without the
version (`WonAsSaid`). That the bracket is not left behind needs a second invariant,
`PlansForesee`: as long as every version a correction expects is still there, it knows
all slots whose winner it changes. `Proceeding` says of every step that games change only
with their version and slots only with the season's, from which it follows.

*The argument for standings.* That a table is fair is not about steps: it holds for any
results at all, so `TypeOK` is the invariant and the work is in the operators. Sums
are folds that take elements out in an order of their own choice; as the library's
induction is out of reach, each fact about them is proved by a smallest set that
refutes it. The first says that a fold is well defined (`AddingExists`), the next that
the element taken out first does not matter (`SumTake`); that sums add up over unions,
parts and columns follows (`SumPlus`, `SumUnion`, `SumParts`). Keys of one length are
ordered by the first place they differ at, and names decide between equal keys, so a team's
place is one more than those ahead of it, which proves that the sorting exists
(`OrderExists`, `OrderedIsInOrder`). A rank is one more than the teams with a greater key
(`RanksCount`), from which the clauses of `Fair` follow by the entry of the key that
decides each. Among level teams the code adds up the games played among them, and the rules
speak of the margins against each opponent: sums over the same games taken by side and by opponent
(`MarginsAddUp`).

*The argument for the run.* Every behaviour of `Services` is one of the service that
`focus` names, with the variables shared. For each service one lemma says that the instance
in the proofs is the one of the run (`...Same`), one that a behaviour of the run is one of
the service or never is (`...Run`), one that the run's values meet the assumptions of the
theorem (`...Setup`), and `...Hold` concludes. So no hypothesis of a theorem about a service
is empty: the values of the run fulfil it.

*Only model-checked.* Liveness, which is out of the prover's reach: `TeamWaitEnds`,
`RecognitionsEnd`, `ServicesSettle`; and the refuted properties of section 3. Every
invariant and every other action property of a passing run is a theorem.
## 5. Not modelled

* **Advanced data** (`advanced_data.py`): edits any row of any table of a season in
  SETUP; a model of it would be every table at once.
* **Recognition pipeline, scoresheet rules, rendering** (`scoresheet_v2/`,
  `scoresheet_renderer.py`): functions of one document without state that another
  part decides on; many documents test them.
* **WeChat login, worker health, public API and settings, deployment checks**:
  calls to an external service, rows nobody decides on, read-only listings, offline audits.
* **Clients, shared packages, infrastructure**: no authoritative state. Commands
  that are repeated, late or made from a stale page are in the modules.
* **Parts of modelled components**: periods, capacities and slot families of a
  configuration, capacity overrides by date, the explicit backfill of historical
  draws, leaderboards (sums of statistics), read marks and listing of tasks, rate
  limits, the expiry of idempotency records, parsing of workbooks. `PROJECT.json`
  names them per component.

### Two more statements that are false

`MCServices` states them and no run repeats them; either is refuted within seconds by
`MediaSweep.cfg` with it in the place of `LivePhotosHaveFiles` and the service named here
in `Running`.

* `CourtsExclusive`, of `"corrections"`: conflicts are looked for when a correction is made,
  not when it is applied (`competition_corrections.py:897`, `:1318`), and a game at a special
  hall or at a court written in words holds no reservation (`:1172`). So an unforced edit of
  another game onto that place is not noticed, and the application puts two games there,
  although `docs/USER_GUIDE.md:533` says that conflicts are checked again before saving.
  `MeetOnlyUnreserved` states what does hold and is proved.
* `ArchivedSeasonIsQuiet`, of `"seasons"`: a request or lease whose command read the season
  before it was archived commits after the archival counted none
  (`season_lifecycle.py:34`), although `docs/USER_GUIDE.md:403` asks that none is left.

### Further hazards

Real, but not in the list of `PROJECT.json`, because a listed one covers them,
nothing is at stake but a refusal, or no module reaches them:

* Lock order: `api_mobile_admin.py:415` locks game and then request, the answers
  request and then game; `schedule_imports_v3.py:1939` batch and then draft,
  `replace_schedule_draft` the reverse. PostgreSQL aborts one command, no row is wrong.
* `api_mobile_admin.py:489` reads the teams it puts into a game without locking them.
* `season_management.py:411` lowers a capacity after counting, without the slot's
  lock: a submission that read the old one leaves a game too many; the
  configuration page shows it. `:811` removes a court that still has CONVERTED
  rows: the foreign key refuses it with an unhandled error.
* `scoresheets.py:607`: a photograph for a VOID game queues a run that the worker
  closes as evidence and leaves a status that nobody acts on. `:918`: a lease lapses
  while a command is on its way (covered by `HumanWorkKept`).
* `process_outbox.py:48`: a worker that dies in the eighth attempt gets a mail
  tried a ninth time, although `docs/USER_GUIDE.md` says eight at the most.
* `game_media.py:1056`: a sweep looks at the hundred oldest rows, of which FAILED ones are never
  removed; behind a hundred of them an interrupted upload is never taken up.
* `game_media.py:1085`: the sweep reads STAGING and later writes STORED by id, whatever
  became of the row. The promotion that follows looks again at the place and not at the row's
  asset: a promoted row may so be left FAILED (third part of `LostOnlyToSweep`).
* `archive_exports.py:866` writes the result of a package by id, without the
  worker's token; `:1013` lets a purge be ordered while an export runs, and the workers
  queue them; `archive_invalidation.py:9` expires a package and leaves its file.
* `competition_corrections.py:1172`: two games cannot swap courts in one
  correction, since rows are saved one by one against a unique constraint. `:1089`:
  KEEP_OVERRIDE for a slot the same correction empties can never be applied. `:1045`:
  correcting one game of a group rewrites the slot other games read (`RecordsAgree`).
* `schedule_imports_v3.py:1349`: a voided game keeps its code and refuses the same
  matchup for good.
* `inbox_tasks.py:70`: a leader who was released and appointed again while his team is
  asked finds his old task CLOSED, and nothing opens it. `reconcile_inbox_tasks.py:54` tells a new
  administrator of a failed recognition although the sheet was published by hand.
* `advanced_data.py:401` judges a row by the season its new values name; `:480`
  does not lock the season.

### What is left

Configurations with capacities, so that `season_management.py:411` has its run, and the
expiry of idempotency records. What is proved of a service is proved with those
steps of the others that its module includes; their composition has no module.
