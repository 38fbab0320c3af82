----------------------------- MODULE Scoresheets -----------------------------
(***************************************************************************)
(* The scoresheet of one game (core/services/scoresheets.py and            *)
(* scoresheet_recognition.py): administrators upload a photograph, workers *)
(* have it recognised by an external service, administrators edit, check   *)
(* and publish the draft, and superadmins change the game underneath.      *)
(*                                                                         *)
(* Every action is one transaction that holds the lock of the sheet.  The  *)
(* call of the recognition service runs between two of them, so a worker   *)
(* keeps a claim: the run and the lease token it was given.  A command     *)
(* that is refused is rolled back and is not a step; commands carry the    *)
(* draft version their editor saw, which a step finds to be the current.   *)
(***************************************************************************)
EXTENDS Integers, Sequences, FiniteSets

CONSTANTS
  Worker,          \* processes of process_scoresheets
  Editor,          \* administrators, each with one client
  Superadmin,      \* those of them who may correct what is published
  Nobody, Idle,
  MaxAttempts,     \* calls of one run (four)
  MaxSource,       \* bound on uploads
  MaxCycle,        \* bound on recognitions of one source
  MaxVersion,      \* bound on the draft version an editor starts from
  MaxPublication   \* bound on publications

ASSUME EditorAssumption == Nobody \notin Editor /\ Superadmin \subseteq Editor
ASSUME AttemptAssumption == MaxAttempts \in Nat \ {0}
ASSUME BoundAssumption ==
  /\ MaxSource \in Nat /\ MaxCycle \in Nat
  /\ MaxVersion \in Nat /\ MaxPublication \in Nat

VARIABLES
  game,         \* the status of the game
  sheet,        \* the GameScoresheet row
  run,          \* the ScoresheetRecognitionRun rows
  editor,       \* who holds a valid edit lease
  claim,        \* what each worker process remembers
  revision,     \* the drafts kept as ScoresheetRevision rows
  publication   \* the ScoresheetPublication rows, in order

vars == <<game, sheet, run, editor, claim, revision, publication>>

-----------------------------------------------------------------------------
(* A run is named by its source version and cycle, which are unique.  What *)
(* a draft is made of is a set of contributions: the results merged into   *)
(* it and the versions at which somebody edited it.                        *)
Run == (1..MaxSource) \X (1..MaxCycle)
HumanEdit(version) == <<0, version>>
Edits(draft) == {c \in draft : c[1] = 0}
Results(draft) == draft \ Edits(draft)

Active == {"QUEUED", "RUNNING", "RETRY_WAIT"}
NoRun == [status |-> "NONE", resultOnly |-> FALSE]
NotRequired == {"FORFEIT", "VOID"}

RunRow ==
  [status : Active \cup {"SUCCEEDED", "FAILED", "STOPPED", "SUPERSEDED"},
   trigger : {"UPLOAD", "REUPLOAD", "MANUAL_RETRY"},
   base : Nat, attempts : 0..MaxAttempts, token : 0..MaxAttempts,
   live : BOOLEAN, resultOnly : BOOLEAN, applied : Nat, sourceError : BOOLEAN]

SheetRow ==
  [source : Nat, version : Nat, validated : Nat, clean : BOOLEAN, current : Nat,
   draft : SUBSET (Int \X Int),
   status : {"NO_SOURCE", "RECOGNITION_QUEUED", "RECOGNIZING", "RETRY_WAIT", "DRAFT",
             "RECOGNITION_FAILED", "READY", "PUBLISHED"}]

ClaimRow == [run : Run, token : 1..MaxAttempts, calling : BOOLEAN]

TypeOK ==
  /\ game \in {"SCHEDULED", "COMPLETED"} \cup NotRequired
  /\ sheet \in SheetRow
  /\ run \in [Run -> RunRow \cup {NoRun}]
  /\ editor \in Editor \cup {Nobody}
  /\ claim \in [Worker -> ClaimRow \cup {Idle}]
  /\ revision \subseteq SUBSET (Int \X Int)
  /\ publication \in Seq([source : Nat, draft : SUBSET (Int \X Int)])

Init ==
  /\ game = "SCHEDULED"
  /\ sheet = [source |-> 0, version |-> 1, validated |-> 0, clean |-> FALSE, current |-> 0,
              draft |-> {}, status |-> "NO_SOURCE"]
  /\ run = [r \in Run |-> NoRun]
  /\ editor = Nobody
  /\ claim = [w \in Worker |-> Idle]
  /\ revision = {}
  /\ publication = <<>>

-----------------------------------------------------------------------------
(* What the commands read. *)

Cycles == {c \in 1..MaxCycle : run[<<sheet.source, c>>] # NoRun}
IsLatest(r) ==
  /\ r[1] = sheet.source /\ run[r] # NoRun
  /\ \A c \in Cycles : c <= r[2]
Pending(row) == row.status \in Active /\ ~ row.resultOnly

InactiveUnlessRetry == \A r \in Run : IsLatest(r) => ~ (Pending(run[r]) /\ run[r].status # "RETRY_WAIT")
RecognitionInactive == \A r \in Run : IsLatest(r) => ~ Pending(run[r])
NoneRunningForReview == \A r \in Run : run[r].status = "RUNNING" => run[r].resultOnly
NoneRunning == \A r \in Run : run[r].status # "RUNNING"
Operable == game \notin NotRequired
MayCorrect(e) == sheet.current # 0 => e \in Superadmin

(* The holder of the edit lease may change the draft. *)
MayEdit(e) == editor = e /\ Operable /\ MayCorrect(e) /\ RecognitionInactive

(* _targets_current_document *)
Targets(r) ==
  /\ IsLatest(r) /\ Operable
  /\ IF run[r].trigger = "MANUAL_RETRY"
     THEN publication = <<>>
     ELSE \A n \in DOMAIN publication : publication[n].source # r[1]

(* The run may still be sent, and its outcome may change the sheet. *)
MayCallTargeted(r) == Targets(r)
MayCall(r) == ~ run[r].resultOnly /\ Targets(r)

-----------------------------------------------------------------------------
(* What the transactions make of a row. *)

NewRun(trigger, version) ==
  [status |-> "QUEUED", trigger |-> trigger, base |-> version, attempts |-> 0, token |-> 0,
   live |-> FALSE, resultOnly |-> FALSE, applied |-> 0, sourceError |-> FALSE]
Ended(row, status) == [row EXCEPT !.status = status, !.token = 0, !.live = FALSE]
Superseded(row) == IF Pending(row) THEN Ended(row, "SUPERSEDED") ELSE row

(* _finish_result_only: keep the outcome as evidence, touch nothing else. *)
EvidenceOnly(row, status) == [Ended(row, status) EXCEPT !.resultOnly = TRUE]

(* reconcile_scoresheet_game_status, for a game that needs no scoresheet.  *)
Stopped(row) ==
  IF row.status \notin Active THEN row
  ELSE IF row.status = "RUNNING" THEN [row EXCEPT !.resultOnly = TRUE]
  ELSE [row EXCEPT !.status = "STOPPED", !.resultOnly = TRUE]

(* A new draft: nothing that was checked of the old one holds any more. *)
Redrafted(draft, status) ==
  [sheet EXCEPT !.draft = draft, !.version = sheet.version + 1, !.status = status,
                !.validated = 0, !.clean = FALSE]

-----------------------------------------------------------------------------
(* Uploading and editing. *)

(* can_upload_scoresheet_source and the checks of the registration. *)
MayUpload(e) ==
  /\ publication = <<>> \/ e \in Superadmin
  /\ RecognitionInactive
  /\ game # "FORFEIT" => NoneRunning
  /\ sheet.source < MaxSource

(* register_scoresheet_source.  For a forfeited game the photograph is     *)
(* only kept; otherwise a run is created, queued or already failed.        *)
UploadAttachment(e) ==
  /\ game = "FORFEIT" /\ MayUpload(e)
  /\ sheet' = [Redrafted({}, "DRAFT") EXCEPT !.source = sheet.source + 1]
  /\ run' = [r \in Run |-> Superseded(run[r])]
  /\ revision' = revision \cup {sheet.draft, {}}
  /\ editor' = Nobody
  /\ UNCHANGED <<game, claim, publication>>

UploadSource(e, ready, sourceError) ==
  LET new == NewRun(IF sheet.source = 0 THEN "UPLOAD" ELSE "REUPLOAD", sheet.version + 1)
  IN /\ game # "FORFEIT" /\ MayUpload(e)
     /\ sheet' = [Redrafted({}, IF ready THEN "RECOGNITION_QUEUED" ELSE "RECOGNITION_FAILED")
                   EXCEPT !.source = sheet.source + 1]
     /\ run' = [r \in Run |->
          IF r # <<sheet.source + 1, 1>> THEN Superseded(run[r])
          ELSE IF ready THEN new
          ELSE [new EXCEPT !.status = "FAILED", !.sourceError = sourceError]]
     /\ revision' = revision \cup {{}}
     /\ editor' = Nobody
     /\ UNCHANGED <<game, claim, publication>>

(* acquire_edit_lease, when nobody holds a valid lease. *)
Acquire(e) ==
  /\ sheet.source # 0 /\ editor = Nobody
  /\ Operable /\ MayCorrect(e) /\ RecognitionInactive
  /\ \A r \in Run : IsLatest(r) => ~ (run[r].status = "FAILED" /\ run[r].sourceError)
  /\ editor' = e
  /\ UNCHANGED <<game, sheet, run, claim, revision, publication>>

(* force_takeover_edit_lease *)
TakeOver(e) ==
  /\ sheet.source # 0 /\ e \in Superadmin /\ editor # e
  /\ Operable /\ RecognitionInactive
  /\ editor' = e
  /\ UNCHANGED <<game, sheet, run, claim, revision, publication>>

(* The lease is released, or runs out without a heartbeat. *)
LeaseEnds ==
  /\ editor # Nobody
  /\ editor' = Nobody
  /\ UNCHANGED <<game, sheet, run, claim, revision, publication>>

(* save_draft_changes, autosaved or saved explicitly. *)
Save(e, explicit) ==
  LET draft == sheet.draft \cup {HumanEdit(sheet.version + 1)}
  IN /\ MayEdit(e) /\ sheet.version < MaxVersion
     /\ sheet' = Redrafted(draft, "DRAFT")
     /\ revision' = IF explicit THEN revision \cup {draft} ELSE revision
     /\ UNCHANGED <<game, run, editor, claim, publication>>

(* review_region *)
ReviewRegion(e) ==
  /\ MayEdit(e)
  /\ sheet' = [sheet EXCEPT !.status = "DRAFT"]
  /\ UNCHANGED <<game, run, editor, claim, revision, publication>>

(* review_scoresheet_game_context: the draft is bound to the present game. *)
ReviewContext(e) ==
  LET draft == sheet.draft \cup {HumanEdit(sheet.version + 1)}
  IN /\ MayEdit(e) /\ sheet.version < MaxVersion
     /\ sheet' = Redrafted(draft, "DRAFT")
     /\ revision' = revision \cup {sheet.draft, draft}
     /\ UNCHANGED <<game, run, editor, claim, publication>>

(* apply_recognition_regions: an editor takes a kept result over.  A       *)
(* result that changes nothing is only marked as applied.                  *)
MayApplyFailed(r) ==
  /\ r[1] = sheet.source
  /\ run[r].status \in {"SUCCEEDED", "FAILED"} /\ run[r].applied = 0
MayApply(r) ==
  /\ r[1] = sheet.source
  /\ run[r].status = "SUCCEEDED" /\ run[r].applied = 0
ApplyRegions(e, r) ==
  /\ MayEdit(e) /\ sheet.version < MaxVersion /\ MayApply(r)
  /\ \/ /\ sheet' = Redrafted(sheet.draft \cup {r}, "DRAFT")
        /\ revision' = revision \cup {sheet'.draft}
     \/ UNCHANGED <<sheet, revision>>
  /\ run' = [run EXCEPT ![r].applied = sheet'.version]
  /\ UNCHANGED <<game, editor, claim, publication>>

(* validate_scoresheet, with or without errors. *)
Validate(e, clean) ==
  /\ MayEdit(e)
  /\ sheet' = [sheet EXCEPT !.validated = sheet.version, !.clean = clean,
                            !.status = IF clean THEN "READY" ELSE "DRAFT"]
  /\ revision' = IF clean THEN revision \cup {sheet.draft} ELSE revision
  /\ UNCHANGED <<game, run, editor, claim, publication>>

PublishableNoErrors == sheet.validated # 0 => sheet.clean
Publishable == sheet.validated = sheet.version /\ sheet.clean

(* publish_scoresheet *)
Publish(e) ==
  /\ MayEdit(e) /\ Publishable /\ Len(publication) < MaxPublication
  /\ publication' = Append(publication, [source |-> sheet.source, draft |-> sheet.draft])
  /\ sheet' = [sheet EXCEPT !.current = Len(publication) + 1, !.status = "PUBLISHED"]
  /\ game' = "COMPLETED"
  /\ revision' = revision \cup {sheet.draft}
  /\ editor' = Nobody
  /\ UNCHANGED <<run, claim>>

(* retry_recognition: a new cycle of a failed recognition, never after a   *)
(* publication; the draft it may replace is kept as a revision.            *)
KeptNothing(draft) == revision
Kept(draft) == revision \cup {draft}
RetryRecognition(e) ==
  /\ MayEdit(e) /\ publication = <<>>
  /\ NoneRunning
  /\ \E r \in Run :
       /\ IsLatest(r) /\ r[2] < MaxCycle
       /\ run[r].status = "FAILED" /\ ~ run[r].sourceError
       /\ run' = [run EXCEPT ![<<r[1], r[2] + 1>>] = NewRun("MANUAL_RETRY", sheet.version)]
  /\ sheet' = [sheet EXCEPT !.status = "RECOGNITION_QUEUED"]
  /\ revision' = Kept(sheet.draft)
  /\ editor' = Nobody
  /\ UNCHANGED <<game, claim, publication>>

-----------------------------------------------------------------------------
(* Superadmins change the status of the game, in the schedule or through a *)
(* correction (update_admin_game, _apply_game_change).  Into or out of a   *)
(* forfeit, and into VOID, the sheet is reconciled; any other change of a  *)
(* published result withdraws the publication.                             *)

MayChangeGame(status) ==
  /\ status # game
  /\ status # "FORFEIT" => \A r \in Run : ~ Pending(run[r])
Reconciles(status) == "FORFEIT" \in {game, status} \/ status = "VOID"

ReconcileGame(status) ==
  /\ MayChangeGame(status) /\ Reconciles(status) /\ sheet.source # 0
  /\ sheet.version < MaxVersion
  /\ game' = status
  /\ sheet' = [Redrafted(sheet.draft, "DRAFT") EXCEPT
                 !.current = IF status \in NotRequired THEN 0 ELSE sheet.current]
  /\ run' = IF status \in NotRequired THEN [r \in Run |-> Stopped(run[r])] ELSE run
  /\ editor' = Nobody
  /\ revision' = revision \cup {sheet.draft}
  /\ UNCHANGED <<claim, publication>>

WithdrawnNever == sheet
Withdrawn == [sheet EXCEPT !.current = 0, !.status = "DRAFT"]
CorrectGame(status) ==
  /\ MayChangeGame(status) /\ (Reconciles(status) => sheet.source = 0)
  /\ game' = status
  /\ sheet' = IF sheet.current = 0 THEN sheet ELSE Withdrawn
  /\ UNCHANGED <<run, editor, claim, revision, publication>>

-----------------------------------------------------------------------------
(* The workers. *)

OtherRunning(r) == \E q \in Run \ {r} : run[q].status = "RUNNING"
MayBeSentAlways(r) == TRUE
MayBeSent(r) == run[r].attempts < MaxAttempts \/ run[r].resultOnly
ClaimableWaiting(r) ==
  /\ run[r] # NoRun /\ MayBeSent(r)
  /\ run[r].status \in {"QUEUED", "RETRY_WAIT"} /\ ~ OtherRunning(r)
Claimable(r) ==
  /\ run[r] # NoRun /\ MayBeSent(r)
  /\ \/ run[r].status \in {"QUEUED", "RETRY_WAIT"} /\ ~ OtherRunning(r)
     \/ run[r].status = "RUNNING" /\ ~ run[r].live

(* claim_next_run, for a run that can be called. *)
ClaimRun(w, r) ==
  /\ claim[w] = Idle /\ Claimable(r)
  /\ MayCall(r)
  /\ run' = [run EXCEPT ![r] =
       [run[r] EXCEPT !.status = "RUNNING", !.attempts = run[r].attempts + 1,
                      !.token = run[r].attempts + 1, !.live = TRUE]]
  /\ sheet' = [sheet EXCEPT !.status = "RECOGNIZING"]
  /\ claim' = [claim EXCEPT ![w] =
       [run |-> r, token |-> run[r].attempts + 1, calling |-> FALSE]]
  /\ UNCHANGED <<game, editor, revision, publication>>

(* claim_next_run, for a run that is only to be closed. *)
CloseRun(w, r) ==
  /\ claim[w] = Idle /\ Claimable(r)
  /\ \/ /\ run[r].resultOnly \/ ~ Operable
        /\ run' = [run EXCEPT ![r] = EvidenceOnly(run[r], "FAILED")]
     \/ /\ ~ run[r].resultOnly /\ Operable /\ ~ Targets(r)
        /\ run' = [run EXCEPT ![r] = Ended(run[r], "SUPERSEDED")]
  /\ UNCHANGED <<game, sheet, editor, claim, revision, publication>>

(* The worker's claim still stands. *)
Holds(w) ==
  /\ claim[w] # Idle
  /\ run[claim[w].run].status = "RUNNING"
  /\ run[claim[w].run].token = claim[w].token

(* execute_claim checks the claim again before it calls the service. *)
StartCall(w) ==
  LET r == claim[w].run IN
  /\ claim[w] # Idle /\ ~ claim[w].calling
  /\ IF Holds(w) /\ ~ run[r].resultOnly /\ Operable
     THEN claim' = [claim EXCEPT ![w].calling = TRUE] /\ UNCHANGED run
     ELSE /\ claim' = [claim EXCEPT ![w] = Idle]
          /\ run' = IF Holds(w) THEN [run EXCEPT ![r] = EvidenceOnly(run[r], "FAILED")] ELSE run
  /\ UNCHANGED <<game, sheet, editor, revision, publication>>

(* The outcome of the call that only concerns the run. *)
CallIsMoot(w, status) ==
  LET r == claim[w].run IN
  /\ \/ ~ Holds(w) /\ UNCHANGED run
     \/ /\ Holds(w) /\ (run[r].resultOnly \/ ~ Operable)
        /\ run' = [run EXCEPT ![r] = EvidenceOnly(run[r], status)]
     \/ /\ Holds(w) /\ ~ run[r].resultOnly /\ Operable /\ ~ Targets(r)
        /\ run' = [run EXCEPT ![r] = Ended(run[r], "SUPERSEDED")]
  /\ UNCHANGED <<sheet, revision>>

CallMatters(w) == Holds(w) /\ MayCall(claim[w].run)
Untouched(r) == sheet.version = run[r].base

(* _complete_success: the result is merged into the draft, or only stored  *)
(* if somebody changed the draft meanwhile.  A confirmed retry starts from *)
(* a clean document.                                                       *)
Succeed(w) ==
  LET r == claim[w].run
      draft == (IF run[r].trigger = "MANUAL_RETRY" THEN {} ELSE sheet.draft) \cup {r}
  IN IF Untouched(r)
     THEN /\ sheet' = Redrafted(draft, "DRAFT")
          /\ run' = [run EXCEPT ![r] = [Ended(run[r], "SUCCEEDED") EXCEPT !.applied = sheet'.version]]
          /\ revision' = revision \cup {draft}
     ELSE /\ sheet' = [sheet EXCEPT !.status = "DRAFT"]
          /\ run' = [run EXCEPT ![r] = Ended(run[r], "SUCCEEDED")]
          /\ UNCHANGED revision

(* _complete_failure *)
Fail(w, retryable, sourceError) ==
  LET r == claim[w].run IN
  /\ IF retryable /\ run[r].attempts < MaxAttempts
     THEN /\ run' = [run EXCEPT ![r] = Ended(run[r], "RETRY_WAIT")]
          /\ sheet' = [sheet EXCEPT !.status = "RETRY_WAIT"]
     ELSE /\ run' = [run EXCEPT ![r] =
               [Ended(run[r], "FAILED") EXCEPT !.sourceError = sourceError]]
          /\ sheet' = [sheet EXCEPT !.status = "RECOGNITION_FAILED"]
  /\ UNCHANGED revision

Finish(w) ==
  /\ claim[w] # Idle /\ claim[w].calling
  /\ \/ CallIsMoot(w, "SUCCEEDED")
     \/ CallIsMoot(w, "FAILED")
     \/ CallMatters(w) /\ Succeed(w)
     \/ \E retryable, sourceError \in BOOLEAN :
          CallMatters(w) /\ (retryable => ~ sourceError) /\ Fail(w, retryable, sourceError)
  /\ claim' = [claim EXCEPT ![w] = Idle]
  /\ UNCHANGED <<game, editor, publication>>

(* The process dies; its run stays as it is. *)
Crash(w) ==
  /\ claim[w] # Idle
  /\ claim' = [claim EXCEPT ![w] = Idle]
  /\ UNCHANGED <<game, sheet, run, editor, revision, publication>>

(* Five minutes pass without a heartbeat that reached the database. *)
WorkerLeaseLapses(r) ==
  /\ run[r].status = "RUNNING" /\ run[r].live
  /\ run' = [run EXCEPT ![r].live = FALSE]
  /\ UNCHANGED <<game, sheet, editor, claim, revision, publication>>

(* _renew_worker_lease, which may be late. *)
Renew(w) ==
  /\ Holds(w) /\ claim[w].calling /\ ~ run[claim[w].run].live
  /\ run' = [run EXCEPT ![claim[w].run].live = TRUE]
  /\ UNCHANGED <<game, sheet, editor, claim, revision, publication>>

-----------------------------------------------------------------------------
(* What the endpoints of api_scoresheets.py offer an editor: each runs one  *)
(* command of the service, and an error changes nothing.                    *)
LeaseCommand(e) == Acquire(e) \/ TakeOver(e)
DraftCommand(e) ==
  \/ \E explicit \in BOOLEAN : Save(e, explicit)
  \/ ReviewRegion(e) \/ ReviewContext(e)
  \/ \E clean \in BOOLEAN : Validate(e, clean)
PublicationCommand(e) == Publish(e) \/ RetryRecognition(e)

EditorStep ==
  \E e \in Editor :
    \/ UploadAttachment(e)
    \/ \E ready, sourceError \in BOOLEAN : UploadSource(e, ready, sourceError)
    \/ LeaseCommand(e) \/ DraftCommand(e) \/ PublicationCommand(e)
    \/ \E r \in Run : ApplyRegions(e, r)

GameStep ==
  \E status \in {"SCHEDULED", "COMPLETED"} \cup NotRequired :
    ReconcileGame(status) \/ CorrectGame(status)

WorkerStep(w) ==
  \/ \E r \in Run : ClaimRun(w, r) \/ CloseRun(w, r)
  \/ StartCall(w) \/ Finish(w) \/ Crash(w) \/ Renew(w)

Next ==
  \/ EditorStep \/ LeaseEnds \/ GameStep
  \/ \E w \in Worker : WorkerStep(w)
  \/ \E r \in Run : WorkerLeaseLapses(r)

(* A worker polls every two seconds; a call returns or times out; a lease  *)
(* that nobody renews runs out.                                            *)
Abandoned(r) == \A w \in Worker : ~ (Holds(w) /\ claim[w].run = r)
Fairness ==
  /\ \A w \in Worker : WF_vars(StartCall(w)) /\ WF_vars(Finish(w))
  /\ \A r \in Run :
       /\ WF_vars(\E w \in Worker : ClaimRun(w, r) \/ CloseRun(w, r))
       /\ WF_vars(Abandoned(r) /\ WorkerLeaseLapses(r))

Spec == Init /\ [][Next]_vars
FairSpec == Spec /\ Fairness

-----------------------------------------------------------------------------
(* Safety. *)

(* No second recognition of a game is started, not even queued, before the *)
(* first has ended, whatever uploads, retries and forfeits happened, and   *)
(* only one worker's claim stands (docs/SCORESHEETS.md: no second round,   *)
(* by a new photograph or by a retry, before the external call has ended). *)
OneCallAtATime ==
  /\ \A q, r \in Run : run[q].status \in Active /\ run[r].status \in Active => q = r
  /\ \A v, w \in Worker : Holds(v) /\ Holds(w) => v = w

(* While a recognition that may still change the draft is under way nobody *)
(* can edit (docs/SCORESHEETS.md: everybody is read-only), and the sheet   *)
(* shows it.                                                               *)
ReadOnlyWhileRecognising ==
  \A r \in Run : IsLatest(r) /\ Pending(run[r]) =>
    /\ editor = Nobody
    /\ sheet.status = CASE run[r].status = "QUEUED" -> "RECOGNITION_QUEUED"
                        [] run[r].status = "RUNNING" -> "RECOGNIZING"
                        [] run[r].status = "RETRY_WAIT" -> "RETRY_WAIT"

(* What the draft contains was recognised from the current photograph, by  *)
(* a run that is recorded as applied (late results are isolated).          *)
DraftIsOfItsSource ==
  \A r \in Results(sheet.draft) :
    r[1] = sheet.source /\ run[r].status = "SUCCEEDED" /\ run[r].applied # 0

(* What the public reads is what was checked: while the sheet is PUBLISHED *)
(* its draft is the newest publication, and a publication is only shown    *)
(* for a completed game (publish_scoresheet, _withdraw_publication and     *)
(* reconcile_scoresheet_game_status keep the pointer).                     *)
PublicIsChecked ==
  /\ sheet.status = "PUBLISHED" => sheet.current # 0
  /\ sheet.current # 0 =>
       /\ sheet.current = Len(publication)
       /\ game = "COMPLETED"
       /\ sheet.status = "PUBLISHED" =>
            publication[sheet.current] = [source |-> sheet.source, draft |-> sheet.draft]

(* What a step may do. *)

(* Nobody's work is lost: an edit leaves the draft only when a new         *)
(* photograph replaces everything, or after a confirmed retry, and then    *)
(* the draft it was in is kept (models.py: a late result can never         *)
(* overwrite newer human edits).                                           *)
HumanWorkKept ==
  [][\A edit \in Edits(sheet.draft) \ sheet'.draft :
       \/ sheet'.source # sheet.source
       \/ \E draft \in revision : Edits(sheet.draft) \subseteq draft]_vars

(* A run kept for evidence stays so: it is never sent again, and its       *)
(* result enters the draft only by the hand of an editor.                  *)
EvidenceStaysEvidence ==
  [][\A r \in Run : run[r].resultOnly =>
       /\ run'[r].resultOnly /\ run'[r].attempts = run[r].attempts
       /\ r \in sheet'.draft \ sheet.draft => editor # Nobody]_vars

(* What is published is a draft that was kept as it was checked: nothing   *)
(* slips in between the validation, which keeps a revision of a draft free *)
(* of errors, and the publication.                                         *)
PublishedAsChecked ==
  [][publication' # publication => sheet.draft \in revision]_vars

-----------------------------------------------------------------------------
(* Liveness. *)

(* A recognition ends, or its last call was lost with the worker that made *)
(* it.                                                                     *)
LostAtLast(r) == run[r].attempts = MaxAttempts /\ Abandoned(r)
RecognitionEnds ==
  \A r \in Run : Pending(run[r]) ~> (~ Pending(run[r]) \/ LostAtLast(r))

(* A run kept for evidence is closed, even if its worker died.             *)
EvidenceIsClosed ==
  \A r \in Run :
    (run[r].status \in Active /\ run[r].resultOnly) ~> (run[r].status \notin Active)

(* Nothing is left running: neither for a draft nor for evidence.          *)
RecognitionsEnd == RecognitionEnds /\ EvidenceIsClosed

(* After the last attempt administrators get the draft back to fill it in  *)
(* by hand (docs/SCORESHEETS.md: when four attempts are used up ordinary   *)
(* and super administrators can take the lease).                           *)
ExhaustedIsReleased ==
  \A r \in Run :
    (Pending(run[r]) /\ run[r].attempts = MaxAttempts) ~> ~ Pending(run[r])
=============================================================================
