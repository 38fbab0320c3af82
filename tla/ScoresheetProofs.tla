--------------------------- MODULE ScoresheetProofs ---------------------------
(***************************************************************************)
(* Proofs about the scoresheet, for any number of workers, administrators, *)
(* attempts and uploads: its types, that there is one recognition at a     *)
(* time, and that nobody edits while it is under way; then what becomes of *)
(* the draft: where its contents come from, what is never lost of it, and  *)
(* what of it the public sees.                                             *)
(***************************************************************************)
EXTENDS Scoresheets, TLAPS

Started(r) == run[r] # NoRun

-----------------------------------------------------------------------------
(* Rows. *)

LEMMA NoRunIsNoRow == NoRun \notin RunRow
  BY DEF NoRun, RunRow, Active

LEMMA RunIsPair == \A r \in Run : r \in Int \X Int /\ r[1] \in 1..MaxSource /\ r[2] \in 1..MaxCycle
  BY BoundAssumption DEF Run

LEMMA EndedRow ==
  ASSUME NEW row \in RunRow,
         NEW status \in {"SUCCEEDED", "FAILED", "STOPPED", "SUPERSEDED", "RETRY_WAIT"}
  PROVE  /\ Ended(row, status) \in RunRow
         /\ Ended(row, status).status = status
         /\ Ended(row, status).resultOnly = row.resultOnly
         /\ Ended(row, status).attempts = row.attempts
  <1>1. 0 \in 0..MaxAttempts /\ status \in Active \cup {"SUCCEEDED", "FAILED", "STOPPED", "SUPERSEDED"}
    BY AttemptAssumption DEF Active
  <1>2. Ended(row, status) \in RunRow
    BY <1>1 DEF Ended, RunRow
  <1>q. QED BY <1>2 DEF Ended, RunRow

LEMMA EvidenceRow ==
  ASSUME NEW row \in RunRow, NEW status \in {"SUCCEEDED", "FAILED"}
  PROVE  /\ EvidenceOnly(row, status) \in RunRow
         /\ EvidenceOnly(row, status).status = status
         /\ EvidenceOnly(row, status).attempts = row.attempts
  <1>1. /\ Ended(row, status) \in RunRow
        /\ Ended(row, status).status = status
        /\ Ended(row, status).attempts = row.attempts
    BY EndedRow
  <1>q. QED BY <1>1 DEF EvidenceOnly, RunRow

LEMMA StoppedRow ==
  ASSUME NEW row \in RunRow \cup {NoRun}
  PROVE  /\ row = NoRun => Stopped(row) = NoRun
         /\ row # NoRun =>
              /\ Stopped(row) \in RunRow
              /\ Stopped(row).attempts = row.attempts
              /\ Stopped(row).status \in Active => row.status = "RUNNING" /\ Stopped(row).status = "RUNNING"
              /\ Stopped(row).status \in Active => Stopped(row).resultOnly
  <1>1. CASE row = NoRun
    BY <1>1 DEF Stopped, Active, NoRun
  <1>2. CASE row \in RunRow
    <2>1. row # NoRun
      BY <1>2, NoRunIsNoRow
    <2>2. CASE row.status \notin Active
      BY <1>2, <2>1, <2>2 DEF Stopped
    <2>3. CASE row.status = "RUNNING"
      <3>1. Stopped(row) = [row EXCEPT !.resultOnly = TRUE]
        BY <2>3 DEF Stopped, Active
      <3>q. QED BY <1>2, <2>1, <2>3, <3>1 DEF RunRow
    <2>4. CASE row.status \in Active \ {"RUNNING"}
      <3>1. Stopped(row) = [row EXCEPT !.status = "STOPPED", !.resultOnly = TRUE]
        BY <2>4 DEF Stopped
      <3>2. "STOPPED" \notin Active
        BY DEF Active
      <3>q. QED BY <1>2, <2>1, <3>1, <3>2 DEF RunRow
    <2>q. QED BY <2>2, <2>3, <2>4 DEF Active
  <1>q. QED BY <1>1, <1>2

LEMMA SupersededRow ==
  ASSUME NEW row \in RunRow \cup {NoRun}
  PROVE  /\ row = NoRun => Superseded(row) = NoRun
         /\ row # NoRun =>
              /\ Superseded(row) \in RunRow
              /\ Superseded(row).attempts = row.attempts
              /\ ~ Pending(row) => Superseded(row) = row
  <1>1. CASE row = NoRun
    BY <1>1 DEF Superseded, Pending, Active, NoRun
  <1>2. CASE row \in RunRow
    BY <1>2, EndedRow, NoRunIsNoRow DEF Superseded
  <1>q. QED BY <1>1, <1>2

LEMMA NewRow ==
  ASSUME NEW trigger \in {"UPLOAD", "REUPLOAD", "MANUAL_RETRY"}, NEW version \in Nat
  PROVE  /\ NewRun(trigger, version) \in RunRow
         /\ NewRun(trigger, version).status = "QUEUED"
         /\ NewRun(trigger, version).resultOnly = FALSE
  BY AttemptAssumption DEF NewRun, RunRow, Active

LEMMA RedraftedRow ==
  ASSUME sheet \in SheetRow, NEW draft \in SUBSET (Int \X Int),
         NEW status \in {"RECOGNITION_QUEUED", "DRAFT", "RECOGNITION_FAILED"}
  PROVE  /\ Redrafted(draft, status) \in SheetRow
         /\ Redrafted(draft, status).source = sheet.source
         /\ Redrafted(draft, status).status = status
         /\ Redrafted(draft, status).version \in Nat
         /\ Redrafted(draft, status).version # 0
         /\ Redrafted(draft, status).draft = draft
  <1>1. sheet.version + 1 \in Nat /\ sheet.version + 1 # 0
    BY DEF SheetRow
  <1>q. QED BY <1>1 DEF Redrafted, SheetRow

LEMMA StartedRow ==
  ASSUME TypeOK, NEW r \in Run, run[r].status # "NONE"
  PROVE  run[r] \in RunRow /\ Started(r)
  BY DEF TypeOK, NoRun, Started

-----------------------------------------------------------------------------
(* Type correctness. *)

LEMMA InitTyped == Init => TypeOK
  <1> SUFFICES ASSUME Init PROVE TypeOK
    OBVIOUS
  <1>1. sheet \in SheetRow
    BY DEF Init, SheetRow
  <1>2. run \in [Run -> RunRow \cup {NoRun}] /\ claim \in [Worker -> ClaimRow \cup {Idle}]
    BY DEF Init
  <1>3. publication \in Seq([source : Nat, draft : SUBSET (Int \X Int)])
    BY DEF Init
  <1>q. QED BY <1>1, <1>2, <1>3 DEF Init, TypeOK

LEMMA UploadTyped ==
  ASSUME TypeOK, NEW e \in Editor, NEW ready \in BOOLEAN, NEW sourceError \in BOOLEAN,
         UploadAttachment(e) \/ UploadSource(e, ready, sourceError)
  PROVE  TypeOK'
  <1>1. sheet \in SheetRow /\ sheet.source \in Nat /\ sheet.version + 1 \in Nat
    BY DEF TypeOK, SheetRow
  <1>2. \A status \in {"RECOGNITION_QUEUED", "DRAFT", "RECOGNITION_FAILED"} :
          [Redrafted({}, status) EXCEPT !.source = sheet.source + 1] \in SheetRow
    <2> TAKE status \in {"RECOGNITION_QUEUED", "DRAFT", "RECOGNITION_FAILED"}
    <2>1. Redrafted({}, status) \in SheetRow
      BY <1>1, RedraftedRow
    <2>q. QED BY <1>1, <2>1 DEF SheetRow
  <1>3. sheet' \in SheetRow
    BY <1>2 DEF UploadAttachment, UploadSource
  <1>4. \A r \in Run : Superseded(run[r]) \in RunRow \cup {NoRun}
    BY SupersededRow DEF TypeOK
  <1>5. run' \in [Run -> RunRow \cup {NoRun}]
    <2>1. CASE UploadAttachment(e)
      BY <2>1, <1>4 DEF UploadAttachment
    <2>2. CASE UploadSource(e, ready, sourceError)
      <3> DEFINE new == NewRun(IF sheet.source = 0 THEN "UPLOAD" ELSE "REUPLOAD", sheet.version + 1)
      <3>1. new \in RunRow
        BY <1>1, NewRow
      <3>2. [new EXCEPT !.status = "FAILED", !.sourceError = sourceError] \in RunRow
        <4> HIDE DEF new
        <4>q. QED BY <3>1 DEF RunRow
      <3>q. QED BY <2>2, <3>1, <3>2, <1>4 DEF UploadSource
    <2>q. QED BY <2>1, <2>2
  <1>6. revision' \subseteq SUBSET (Int \X Int)
    BY <1>1 DEF UploadAttachment, UploadSource, TypeOK, SheetRow
  <1>q. QED BY <1>3, <1>5, <1>6 DEF UploadAttachment, UploadSource, TypeOK

LEMMA LeaseTyped ==
  ASSUME TypeOK, NEW e \in Editor, Acquire(e) \/ TakeOver(e) \/ LeaseEnds
  PROVE  TypeOK'
  BY DEF TypeOK, Acquire, TakeOver, LeaseEnds

LEMMA DraftWithEdit ==
  ASSUME TypeOK
  PROVE  sheet.draft \cup {HumanEdit(sheet.version + 1)} \in SUBSET (Int \X Int)
  BY DEF TypeOK, SheetRow, HumanEdit

LEMMA EditTyped ==
  ASSUME TypeOK, NEW e \in Editor, NEW explicit \in BOOLEAN,
         Save(e, explicit) \/ ReviewRegion(e) \/ ReviewContext(e)
  PROVE  TypeOK'
  <1>1. sheet \in SheetRow /\ sheet.draft \in SUBSET (Int \X Int)
    BY DEF TypeOK, SheetRow
  <1>2. CASE Save(e, explicit)
    <2>1. sheet' \in SheetRow
      BY <1>1, <1>2, DraftWithEdit, RedraftedRow DEF Save
    <2>2. revision' \subseteq SUBSET (Int \X Int)
      BY <1>2, DraftWithEdit DEF Save, TypeOK
    <2>q. QED BY <1>2, <2>1, <2>2 DEF Save, TypeOK
  <1>3. CASE ReviewRegion(e)
    <2>1. sheet' \in SheetRow
      BY <1>1, <1>3 DEF ReviewRegion, SheetRow
    <2>q. QED BY <1>3, <2>1 DEF ReviewRegion, TypeOK
  <1>4. CASE ReviewContext(e)
    <2>1. sheet' \in SheetRow
      BY <1>1, <1>4, DraftWithEdit, RedraftedRow DEF ReviewContext
    <2>2. revision' \subseteq SUBSET (Int \X Int)
      BY <1>1, <1>4, DraftWithEdit DEF ReviewContext, TypeOK
    <2>q. QED BY <1>4, <2>1, <2>2 DEF ReviewContext, TypeOK
  <1>q. QED BY <1>2, <1>3, <1>4

LEMMA ApplyTyped ==
  ASSUME TypeOK, NEW e \in Editor, NEW r \in Run, ApplyRegions(e, r)
  PROVE  TypeOK'
  <1>1. sheet \in SheetRow /\ sheet.draft \cup {r} \in SUBSET (Int \X Int)
    BY RunIsPair DEF TypeOK, SheetRow
  <1>2. run[r] \in RunRow
    BY StartedRow DEF ApplyRegions, MayApply
  <1>3. sheet' \in SheetRow /\ revision' \subseteq SUBSET (Int \X Int)
    <2>1. CASE UNCHANGED <<sheet, revision>>
      BY <1>1, <2>1 DEF TypeOK
    <2>2. CASE sheet' = Redrafted(sheet.draft \cup {r}, "DRAFT") /\ revision' = revision \cup {sheet'.draft}
      BY <1>1, <2>2, RedraftedRow DEF TypeOK
    <2>q. QED BY <2>1, <2>2 DEF ApplyRegions
  <1>4. [run[r] EXCEPT !.applied = sheet'.version] \in RunRow
    BY <1>2, <1>3 DEF RunRow, SheetRow
  <1>5. run' = [run EXCEPT ![r] = [run[r] EXCEPT !.applied = sheet'.version]]
    BY DEF ApplyRegions, TypeOK
  <1>6. run' \in [Run -> RunRow \cup {NoRun}]
    BY <1>4, <1>5 DEF TypeOK
  <1>q. QED BY <1>3, <1>6 DEF ApplyRegions, TypeOK

LEMMA ValidateTyped ==
  ASSUME TypeOK, NEW e \in Editor, NEW clean \in BOOLEAN, Validate(e, clean)
  PROVE  TypeOK'
  <1>1. sheet \in SheetRow /\ sheet.draft \in SUBSET (Int \X Int)
    BY DEF TypeOK, SheetRow
  <1>2. sheet' \in SheetRow
    BY <1>1 DEF Validate, SheetRow
  <1>3. revision' \subseteq SUBSET (Int \X Int)
    BY <1>1 DEF Validate, TypeOK
  <1>q. QED BY <1>2, <1>3 DEF Validate, TypeOK

LEMMA PublishTyped ==
  ASSUME TypeOK, NEW e \in Editor, Publish(e)
  PROVE  TypeOK'
  <1>1. /\ sheet \in SheetRow /\ sheet.draft \in SUBSET (Int \X Int) /\ sheet.source \in Nat
        /\ Len(publication) + 1 \in Nat
    BY DEF TypeOK, SheetRow
  <1>2. sheet' \in SheetRow
    BY <1>1 DEF Publish, SheetRow
  <1>3. revision' \subseteq SUBSET (Int \X Int)
    BY <1>1 DEF Publish, TypeOK
  <1>4. publication' \in Seq([source : Nat, draft : SUBSET (Int \X Int)])
    BY <1>1 DEF Publish, TypeOK
  <1>q. QED BY <1>2, <1>3, <1>4 DEF Publish, TypeOK

LEMMA RetryTyped ==
  ASSUME TypeOK, NEW e \in Editor, RetryRecognition(e)
  PROVE  TypeOK'
  <1>1. sheet \in SheetRow /\ sheet.draft \in SUBSET (Int \X Int) /\ sheet.version \in Nat
    BY DEF TypeOK, SheetRow
  <1>2. sheet' \in SheetRow
    BY <1>1 DEF RetryRecognition, SheetRow
  <1>3. run' \in [Run -> RunRow \cup {NoRun}]
    BY <1>1, NewRow DEF RetryRecognition, TypeOK
  <1>4. revision' \subseteq SUBSET (Int \X Int)
    BY <1>1 DEF RetryRecognition, Kept, TypeOK
  <1>q. QED BY <1>2, <1>3, <1>4 DEF RetryRecognition, TypeOK

LEMMA GameTyped ==
  ASSUME TypeOK, NEW status \in {"SCHEDULED", "COMPLETED"} \cup NotRequired,
         ReconcileGame(status) \/ CorrectGame(status)
  PROVE  TypeOK'
  <1>1. sheet \in SheetRow /\ sheet.draft \in SUBSET (Int \X Int) /\ sheet.current \in Nat
    BY DEF TypeOK, SheetRow
  <1>2. CASE ReconcileGame(status)
    <2>1. Redrafted(sheet.draft, "DRAFT") \in SheetRow
      BY <1>1, RedraftedRow
    <2>2. sheet' \in SheetRow
      BY <1>1, <1>2, <2>1 DEF ReconcileGame, SheetRow
    <2>3. \A r \in Run : Stopped(run[r]) \in RunRow \cup {NoRun}
      BY StoppedRow DEF TypeOK
    <2>4. run' \in [Run -> RunRow \cup {NoRun}]
      BY <1>2, <2>3 DEF ReconcileGame, TypeOK
    <2>5. revision' \subseteq SUBSET (Int \X Int)
      BY <1>1, <1>2 DEF ReconcileGame, TypeOK
    <2>q. QED BY <1>2, <2>2, <2>4, <2>5 DEF ReconcileGame, TypeOK
  <1>3. CASE CorrectGame(status)
    <2>1. sheet' \in SheetRow
      BY <1>1, <1>3 DEF CorrectGame, Withdrawn, SheetRow
    <2>q. QED BY <1>3, <2>1 DEF CorrectGame, TypeOK
  <1>q. QED BY <1>2, <1>3

LEMMA TypeParts ==
  ASSUME TypeOK
  PROVE  sheet \in SheetRow /\ sheet.draft \in SUBSET (Int \X Int) /\ sheet.version \in Nat
  BY DEF TypeOK, SheetRow

LEMMA OneRowTyped ==
  ASSUME TypeOK, NEW r \in Run, NEW row \in RunRow, run' = [run EXCEPT ![r] = row]
  PROVE  run' \in [Run -> RunRow \cup {NoRun}]
  BY DEF TypeOK

LEMMA ClaimTyped ==
  ASSUME TypeOK, NEW w \in Worker, NEW r \in Run, ClaimRun(w, r) \/ CloseRun(w, r)
  PROVE  TypeOK'
  <1>1. run[r] \in RunRow /\ Started(r)
    BY StartedRow DEF ClaimRun, CloseRun, Claimable, NoRun, TypeOK, Started
  <1>2. CASE ClaimRun(w, r)
    <2>1. run[r].attempts + 1 \in 1..MaxAttempts /\ run[r].attempts + 1 \in 0..MaxAttempts
      <3>1. run[r].attempts < MaxAttempts
        BY <1>2 DEF ClaimRun, Claimable, MayBeSent, MayCall
      <3>2. run[r].attempts \in 0..MaxAttempts
        BY <1>1 DEF RunRow
      <3>q. QED BY <3>1, <3>2, AttemptAssumption
    <2>2. [run[r] EXCEPT !.status = "RUNNING", !.attempts = run[r].attempts + 1,
                         !.token = run[r].attempts + 1, !.live = TRUE] \in RunRow
      BY <1>1, <2>1 DEF RunRow, Active
    <2>3. run' \in [Run -> RunRow \cup {NoRun}]
      BY <1>2, <2>2, OneRowTyped DEF ClaimRun
    <2>4. sheet' \in SheetRow
      BY <1>2, TypeParts DEF ClaimRun, SheetRow
    <2>5. claim' \in [Worker -> ClaimRow \cup {Idle}]
      BY <1>2, <2>1 DEF ClaimRun, ClaimRow, TypeOK
    <2>q. QED BY <1>2, <2>3, <2>4, <2>5 DEF ClaimRun, TypeOK
  <1>3. CASE CloseRun(w, r)
    <2>1. run' \in [Run -> RunRow \cup {NoRun}]
      BY <1>1, <1>3, EvidenceRow, EndedRow, OneRowTyped DEF CloseRun
    <2>q. QED BY <1>3, <2>1 DEF CloseRun, TypeOK
  <1>q. QED BY <1>2, <1>3

(* The run of a standing claim. *)
LEMMA HeldRow ==
  ASSUME TypeOK, NEW w \in Worker, Holds(w)
  PROVE  claim[w].run \in Run /\ run[claim[w].run] \in RunRow /\ Started(claim[w].run)
  <1>1. claim[w] \in ClaimRow
    BY DEF TypeOK, Holds
  <1>2. claim[w].run \in Run
    BY <1>1 DEF ClaimRow
  <1>q. QED BY <1>2, StartedRow DEF Holds

LEMMA StartTyped ==
  ASSUME TypeOK, NEW w \in Worker, StartCall(w)
  PROVE  TypeOK'
  <1>1. claim[w] \in ClaimRow
    BY DEF StartCall, TypeOK
  <1>2. claim' \in [Worker -> ClaimRow \cup {Idle}]
    <2>1. [claim[w] EXCEPT !.calling = TRUE] \in ClaimRow
      BY <1>1 DEF ClaimRow
    <2>2. claim' = [claim EXCEPT ![w] = [claim[w] EXCEPT !.calling = TRUE]] \/ claim' = [claim EXCEPT ![w] = Idle]
      BY DEF StartCall, TypeOK
    <2>q. QED BY <2>1, <2>2 DEF TypeOK
  <1>3. run' \in [Run -> RunRow \cup {NoRun}]
    BY HeldRow, EvidenceRow, OneRowTyped DEF StartCall, TypeOK
  <1>q. QED BY <1>2, <1>3 DEF StartCall, TypeOK

LEMMA FinishTyped ==
  ASSUME TypeOK, NEW w \in Worker, Finish(w)
  PROVE  TypeOK'
  <1> DEFINE r == claim[w].run
  <1>1. claim' \in [Worker -> ClaimRow \cup {Idle}]
    BY DEF Finish, TypeOK
  <1>2. ASSUME NEW status \in {"SUCCEEDED", "FAILED"}, CallIsMoot(w, status)
        PROVE  run' \in [Run -> RunRow \cup {NoRun}] /\ UNCHANGED <<sheet, revision>>
    BY <1>2, HeldRow, EvidenceRow, EndedRow, OneRowTyped DEF CallIsMoot, TypeOK
  <1>3. ASSUME CallMatters(w), Succeed(w)
        PROVE  /\ run' \in [Run -> RunRow \cup {NoRun}]
               /\ sheet' \in SheetRow /\ revision' \subseteq SUBSET (Int \X Int)
    <2>1. r \in Run /\ run[r] \in RunRow
      BY <1>3, HeldRow DEF CallMatters
    <2>2. Ended(run[r], "SUCCEEDED") \in RunRow
      BY <2>1, EndedRow
    <2>3. CASE Untouched(r)
      <3> DEFINE draft == (IF run[r].trigger = "MANUAL_RETRY" THEN {} ELSE sheet.draft) \cup {r}
      <3>1. draft \in SUBSET (Int \X Int)
        BY <2>1, RunIsPair, TypeParts
      <3>2. sheet' = Redrafted(draft, "DRAFT") /\ revision' = revision \cup {draft}
        BY <1>3, <2>3 DEF Succeed
      <3>3. sheet' \in SheetRow /\ sheet'.version \in Nat
        BY <3>1, <3>2, TypeParts, RedraftedRow
      <3>4. [Ended(run[r], "SUCCEEDED") EXCEPT !.applied = sheet'.version] \in RunRow
        BY <2>2, <3>3 DEF RunRow
      <3>5. run' = [run EXCEPT ![r] = [Ended(run[r], "SUCCEEDED") EXCEPT !.applied = sheet'.version]]
        BY <1>3, <2>3 DEF Succeed
      <3>6. run' \in [Run -> RunRow \cup {NoRun}]
        BY <2>1, <3>4, <3>5, OneRowTyped
      <3>7. revision' \subseteq SUBSET (Int \X Int)
        BY <3>1, <3>2 DEF TypeOK
      <3>q. QED BY <3>3, <3>6, <3>7
    <2>4. CASE ~ Untouched(r)
      <3>1. sheet' \in SheetRow
        BY <1>3, <2>4, TypeParts DEF Succeed, SheetRow
      <3>2. run' = [run EXCEPT ![r] = Ended(run[r], "SUCCEEDED")] /\ revision' = revision
        BY <1>3, <2>4 DEF Succeed
      <3>q. QED BY <2>1, <2>2, <3>1, <3>2, OneRowTyped DEF TypeOK
    <2>q. QED BY <2>3, <2>4
  <1>4. ASSUME NEW retryable \in BOOLEAN, NEW sourceError \in BOOLEAN,
               CallMatters(w), Fail(w, retryable, sourceError)
        PROVE  /\ run' \in [Run -> RunRow \cup {NoRun}]
               /\ sheet' \in SheetRow /\ revision' \subseteq SUBSET (Int \X Int)
    <2>1. r \in Run /\ run[r] \in RunRow
      BY <1>4, HeldRow DEF CallMatters
    <2>2. Ended(run[r], "RETRY_WAIT") \in RunRow /\ Ended(run[r], "FAILED") \in RunRow
      BY <2>1, EndedRow
    <2>3. [Ended(run[r], "FAILED") EXCEPT !.sourceError = sourceError] \in RunRow
      BY <2>2 DEF RunRow
    <2>4. run' \in [Run -> RunRow \cup {NoRun}]
      BY <1>4, <2>1, <2>2, <2>3, OneRowTyped DEF Fail
    <2>5. sheet' \in SheetRow
      BY <1>4, TypeParts DEF Fail, SheetRow
    <2>q. QED BY <1>4, <2>4, <2>5 DEF Fail, TypeOK
  <1>5. /\ run' \in [Run -> RunRow \cup {NoRun}]
        /\ sheet' \in SheetRow /\ revision' \subseteq SUBSET (Int \X Int)
    BY <1>2, <1>3, <1>4 DEF Finish, TypeOK
  <1>q. QED BY <1>1, <1>5 DEF Finish, TypeOK

LEMMA LiveTyped ==
  ASSUME TypeOK, NEW r \in Run, run[r].status = "RUNNING", NEW live \in BOOLEAN,
         run' = [run EXCEPT ![r].live = live]
  PROVE  run' \in [Run -> RunRow \cup {NoRun}]
  <1>1. [run[r] EXCEPT !.live = live] \in RunRow
    BY StartedRow DEF RunRow
  <1>2. run' = [run EXCEPT ![r] = [run[r] EXCEPT !.live = live]]
    BY DEF TypeOK
  <1>q. QED BY <1>1, <1>2, OneRowTyped

LEMMA LapseTyped ==
  ASSUME TypeOK, NEW r \in Run, WorkerLeaseLapses(r)
  PROVE  TypeOK'
  BY LiveTyped DEF WorkerLeaseLapses, TypeOK

LEMMA CrashTyped ==
  ASSUME TypeOK, NEW w \in Worker, Crash(w) \/ Renew(w)
  PROVE  TypeOK'
  <1>1. CASE Crash(w)
    BY <1>1 DEF Crash, TypeOK
  <1>2. CASE Renew(w)
    <2>1. run' \in [Run -> RunRow \cup {NoRun}]
      BY <1>2, HeldRow, LiveTyped DEF Renew, Holds
    <2>q. QED BY <1>2, <2>1 DEF Renew, TypeOK
  <1>q. QED BY <1>1, <1>2

(* Every row that a command or a worker writes is one its table can hold;  *)
(* in particular no run is sent more than MaxAttempts times.               *)
THEOREM ScoresheetTyped == Spec => []TypeOK
  <1>1. Init => TypeOK
    BY InitTyped
  <1>2. TypeOK /\ [Next]_vars => TypeOK'
    <2> SUFFICES ASSUME TypeOK, [Next]_vars PROVE TypeOK'
      OBVIOUS
    <2>1. CASE EditorStep
      <3>1. PICK e \in Editor :
              \/ UploadAttachment(e)
              \/ \E ready, sourceError \in BOOLEAN : UploadSource(e, ready, sourceError)
              \/ Acquire(e) \/ TakeOver(e)
              \/ \E explicit \in BOOLEAN : Save(e, explicit)
              \/ ReviewRegion(e) \/ ReviewContext(e)
              \/ \E r \in Run : ApplyRegions(e, r)
              \/ \E clean \in BOOLEAN : Validate(e, clean)
              \/ Publish(e) \/ RetryRecognition(e)
        BY <2>1 DEF EditorStep, LeaseCommand, DraftCommand, PublicationCommand
      <3>2. CASE UploadAttachment(e) \/ \E ready, sourceError \in BOOLEAN : UploadSource(e, ready, sourceError)
        BY <3>2, UploadTyped
      <3>3. CASE Acquire(e) \/ TakeOver(e)
        BY <3>3, LeaseTyped
      <3>4. CASE (\E explicit \in BOOLEAN : Save(e, explicit)) \/ ReviewRegion(e) \/ ReviewContext(e)
        BY <3>4, EditTyped
      <3>5. CASE \E r \in Run : ApplyRegions(e, r)
        BY <3>5, ApplyTyped
      <3>6. CASE \E clean \in BOOLEAN : Validate(e, clean)
        BY <3>6, ValidateTyped
      <3>q. QED BY <3>1, <3>2, <3>3, <3>4, <3>5, <3>6, PublishTyped, RetryTyped
    <2>2. CASE LeaseEnds
      BY <2>2 DEF LeaseEnds, TypeOK
    <2>3. CASE GameStep
      BY <2>3, GameTyped DEF GameStep
    <2>4. ASSUME NEW w \in Worker, WorkerStep(w) PROVE TypeOK'
      BY <2>4, ClaimTyped, StartTyped, FinishTyped, CrashTyped DEF WorkerStep
    <2>5. ASSUME NEW r \in Run, WorkerLeaseLapses(r) PROVE TypeOK'
      BY <2>5, LapseTyped
    <2>6. CASE UNCHANGED vars
      BY <2>6 DEF vars, TypeOK
    <2>q. QED BY <2>1, <2>2, <2>3, <2>4, <2>5, <2>6 DEF Next
  <1>q. QED BY <1>1, <1>2, PTL DEF Spec

-----------------------------------------------------------------------------
(* One recognition at a time. *)

IsActive(r) == run[r].status \in Active

(* A run is of a photograph that was uploaded. *)
RunsOfSources == \A r \in Run : Started(r) => r[1] <= sheet.source
(* A run that may change the draft is the newest of the present photograph. *)
PendingIsLatest == \A r \in Run : Pending(run[r]) => IsLatest(r)
(* A run kept for evidence is only finished, never queued. *)
EvidenceOnlyRuns == \A r \in Run : IsActive(r) /\ run[r].resultOnly => run[r].status = "RUNNING"
OneActive == \A q, r \in Run : IsActive(q) /\ IsActive(r) => q = r

(* Tokens count the attempts of a run, so no two workers have the same.    *)
ClaimsOfAttempts ==
  \A w \in Worker : claim[w] # Idle =>
    /\ Started(claim[w].run)
    /\ claim[w].token <= run[claim[w].run].attempts
ClaimsDiffer ==
  \A v, w \in Worker :
    /\ claim[v] # Idle /\ claim[w] # Idle
    /\ claim[v].run = claim[w].run /\ claim[v].token = claim[w].token
    => v = w

RunInv == RunsOfSources /\ PendingIsLatest /\ EvidenceOnlyRuns /\ OneActive
ClaimInv == ClaimsOfAttempts /\ ClaimsDiffer

-----------------------------------------------------------------------------
(* Two kinds of step change which runs there are and which are active.     *)

(* Runs proceed or end. *)
Proceeded(old, new) ==
  /\ new # NoRun /\ new.attempts >= old.attempts
  /\ new.status \in Active =>
       /\ old.status \in Active
       /\ old.resultOnly => new.resultOnly
       /\ new.resultOnly => new.status = "RUNNING"
Proceeding ==
  /\ sheet'.source = sheet.source
  /\ \A r \in Run : run'[r] = run[r] \/ (Started(r) /\ Proceeded(run[r], run'[r]))

(* A photograph is only kept, and no run is pending. *)
Quiet == \A r \in Run : ~ Pending(run[r])
Attaching ==
  /\ sheet'.source = sheet.source + 1
  /\ Quiet /\ \A r \in Run : run'[r] = run[r]

(* The only active run is created, as the newest of its source. *)
Starting ==
  \E s \in Run :
    /\ sheet'.source = s[1] /\ sheet.source <= s[1]
    /\ ~ Started(s) /\ \A r \in Run : ~ IsActive(r)
    /\ \A r \in Run : Started(r) /\ r[1] = s[1] => r[2] <= s[2]
    /\ run'[s] \in RunRow /\ ~ run'[s].resultOnly
    /\ \A r \in Run \ {s} : run'[r] = run[r]

LEMMA PendingIsActive == \A r \in Run : Pending(run[r]) <=> IsActive(r) /\ ~ run[r].resultOnly
  BY DEF Pending, IsActive

LEMMA ActiveIsStarted == \A r \in Run : IsActive(r) => Started(r)
  BY DEF IsActive, Started, Active, NoRun

LEMMA OnlyLatest ==
  ASSUME PendingIsLatest, RecognitionInactive
  PROVE  Quiet
  BY DEF PendingIsLatest, RecognitionInactive, Quiet

LEMMA NothingActive ==
  ASSUME EvidenceOnlyRuns, Quiet, NoneRunning
  PROVE  \A r \in Run : ~ IsActive(r)
  BY PendingIsActive DEF EvidenceOnlyRuns, Quiet, NoneRunning

(* What the steps do to the inductive invariant. *)

LEMMA LatestKept ==
  ASSUME sheet'.source = sheet.source, \A r \in Run : Started(r)' <=> Started(r)
  PROVE  \A r \in Run : IsLatest(r)' <=> IsLatest(r)
  <1>1. ASSUME NEW c \in 1..MaxCycle, NEW n, n = sheet.source, n \in 1..MaxSource
        PROVE  (run'[<<n, c>>] # NoRun) <=> (run[<<n, c>>] # NoRun)
    BY <1>1 DEF Run, Started
  <1>q. QED BY <1>1, RunIsPair DEF IsLatest, Cycles, Started

LEMMA ProceedingKeeps ==
  ASSUME RunInv, Proceeding
  PROVE  RunInv'
  <1>1. \A r \in Run : Started(r)' <=> Started(r)
    BY DEF Proceeding, Proceeded, Started
  <1>2. RunsOfSources'
    BY <1>1 DEF RunInv, RunsOfSources, Proceeding
  <1>3. \A r \in Run : Pending(run[r])' => Pending(run[r])
    BY DEF Proceeding, Proceeded, Pending
  <1>4. PendingIsLatest'
    BY <1>1, <1>3, LatestKept DEF RunInv, PendingIsLatest, Proceeding
  <1>5. EvidenceOnlyRuns'
    BY DEF RunInv, EvidenceOnlyRuns, IsActive, Proceeding, Proceeded
  <1>6. OneActive'
    BY DEF RunInv, OneActive, IsActive, Proceeding, Proceeded
  <1>q. QED BY <1>2, <1>4, <1>5, <1>6 DEF RunInv

LEMMA AttachingKeeps ==
  ASSUME TypeOK, RunInv, Attaching
  PROVE  RunInv'
  <1>1. sheet.source \in Nat
    BY DEF TypeOK, SheetRow
  <1>2. RunsOfSources'
    BY <1>1, RunIsPair DEF RunInv, RunsOfSources, Attaching, Started
  <1>3. PendingIsLatest'
    BY DEF PendingIsLatest, Attaching, Quiet
  <1>4. EvidenceOnlyRuns' /\ OneActive'
    BY DEF RunInv, EvidenceOnlyRuns, OneActive, IsActive, Attaching
  <1>q. QED BY <1>2, <1>3, <1>4 DEF RunInv

LEMMA StartingKeeps ==
  ASSUME TypeOK, RunInv, Starting
  PROVE  RunInv'
  <1>1. PICK s \in Run :
          /\ sheet'.source = s[1] /\ sheet.source <= s[1]
          /\ ~ Started(s) /\ \A r \in Run : ~ IsActive(r)
          /\ \A r \in Run : Started(r) /\ r[1] = s[1] => r[2] <= s[2]
          /\ run'[s] \in RunRow /\ ~ run'[s].resultOnly
          /\ \A r \in Run \ {s} : run'[r] = run[r]
    BY DEF Starting
  <1>2. sheet.source \in Nat /\ s[1] \in Nat /\ s[2] \in Nat
    BY RunIsPair DEF TypeOK, SheetRow
  <1>3. RunsOfSources'
    BY <1>1, <1>2, RunIsPair DEF RunInv, RunsOfSources, Started
  <1>4. \A r \in Run : IsActive(r)' => r = s
    BY <1>1 DEF IsActive
  <1>5. EvidenceOnlyRuns' /\ OneActive'
    BY <1>1, <1>4 DEF EvidenceOnlyRuns, OneActive
  <1>6. IsLatest(s)'
    <2>1. run'[s] # NoRun
      BY <1>1, NoRunIsNoRow
    <2>2. ASSUME NEW c \in 1..MaxCycle, run'[<<s[1], c>>] # NoRun
          PROVE  c <= s[2]
      <3>1. <<s[1], c>> \in Run /\ s[1] \in 1..MaxSource
        BY RunIsPair DEF Run
      <3>2. CASE <<s[1], c>> = s
        BY <1>2, <3>2, RunIsPair
      <3>3. CASE <<s[1], c>> # s
        BY <1>1, <2>2, <3>1, <3>3 DEF Started
      <3>q. QED BY <3>2, <3>3
    <2>q. QED BY <1>1, <2>1, <2>2 DEF IsLatest, Cycles
  <1>7. PendingIsLatest'
    BY <1>4, <1>6 DEF PendingIsLatest, Pending, IsActive
  <1>q. QED BY <1>3, <1>5, <1>7 DEF RunInv

-----------------------------------------------------------------------------
(* Every step is of one of the kinds. *)

LEMMA SameRunsProceed ==
  ASSUME sheet'.source = sheet.source, run' = run
  PROVE  Proceeding
  BY DEF Proceeding

LEMMA OneRowProceeds ==
  ASSUME TypeOK, NEW r \in Run, Started(r), NEW row, run' = [run EXCEPT ![r] = row],
         Proceeded(run[r], row), sheet'.source = sheet.source
  PROVE  Proceeding
  BY DEF Proceeding, TypeOK

LEMMA EndedProceeds ==
  ASSUME NEW row \in RunRow, NEW status \in {"SUCCEEDED", "FAILED", "SUPERSEDED"}
  PROVE  /\ Proceeded(row, Ended(row, status))
         /\ \A applied, sourceError :
              /\ Proceeded(row, [Ended(row, status) EXCEPT !.applied = applied])
              /\ Proceeded(row, [Ended(row, status) EXCEPT !.sourceError = sourceError])
  <1>1. /\ Ended(row, status) \in RunRow
        /\ Ended(row, status).status = status
        /\ Ended(row, status).attempts = row.attempts
    BY EndedRow
  <1>2. status \notin Active /\ row.attempts \in Nat
    BY AttemptAssumption DEF Active, RunRow
  <1>3. ASSUME NEW new, new.status = status, new.attempts = row.attempts, new # NoRun
        PROVE  Proceeded(row, new)
    BY <1>2, <1>3 DEF Proceeded
  <1>4. ASSUME NEW applied, NEW sourceError
        PROVE  /\ Proceeded(row, [Ended(row, status) EXCEPT !.applied = applied])
               /\ Proceeded(row, [Ended(row, status) EXCEPT !.sourceError = sourceError])
    <2>1. /\ [Ended(row, status) EXCEPT !.applied = applied].status = status
          /\ [Ended(row, status) EXCEPT !.applied = applied].attempts = row.attempts
          /\ [Ended(row, status) EXCEPT !.sourceError = sourceError].status = status
          /\ [Ended(row, status) EXCEPT !.sourceError = sourceError].attempts = row.attempts
      BY <1>1 DEF RunRow
    <2>2. status # "NONE"
      OBVIOUS
    <2>q. QED BY <1>3, <2>1, <2>2 DEF NoRun
  <1>q. QED BY <1>1, <1>3, <1>4, NoRunIsNoRow

LEMMA EvidenceProceeds ==
  ASSUME NEW row \in RunRow, NEW status \in {"SUCCEEDED", "FAILED"}
  PROVE  Proceeded(row, EvidenceOnly(row, status))
  <1>1. /\ EvidenceOnly(row, status) \in RunRow
        /\ EvidenceOnly(row, status).status = status
        /\ EvidenceOnly(row, status).attempts = row.attempts
    BY EvidenceRow
  <1>2. status \notin Active /\ row.attempts \in Nat
    BY AttemptAssumption DEF Active, RunRow
  <1>q. QED BY <1>1, <1>2, NoRunIsNoRow DEF Proceeded

(* A run ends. *)
LEMMA EndingKind ==
  ASSUME TypeOK, NEW r \in Run, run[r].status # "NONE", sheet'.source = sheet.source,
         \/ \E status \in {"SUCCEEDED", "FAILED"} : run' = [run EXCEPT ![r] = EvidenceOnly(run[r], status)]
         \/ \E status \in {"SUCCEEDED", "FAILED", "SUPERSEDED"} :
              \/ run' = [run EXCEPT ![r] = Ended(run[r], status)]
              \/ \E remark : run' = [run EXCEPT ![r] = [Ended(run[r], status) EXCEPT !.applied = remark]]
              \/ \E remark : run' = [run EXCEPT ![r] = [Ended(run[r], status) EXCEPT !.sourceError = remark]]
  PROVE  Proceeding
  <1>1. run[r] \in RunRow /\ Started(r)
    BY StartedRow
  <1>2. PICK row : run' = [run EXCEPT ![r] = row] /\ Proceeded(run[r], row)
    BY <1>1, EvidenceProceeds, EndedProceeds
  <1>q. QED BY <1>1, <1>2, OneRowProceeds

LEMMA SourceKept ==
  ASSUME TypeOK
  PROVE  /\ \A draft, status : Redrafted(draft, status).source = sheet.source
         /\ \A status : [sheet EXCEPT !.status = status].source = sheet.source
  BY DEF TypeOK, SheetRow, Redrafted

LEMMA UploadKind ==
  ASSUME TypeOK, RunInv, NEW e \in Editor, NEW ready \in BOOLEAN, NEW sourceError \in BOOLEAN,
         UploadAttachment(e) \/ UploadSource(e, ready, sourceError)
  PROVE  Attaching \/ Starting
  <1>1. sheet \in SheetRow /\ sheet.source \in Nat /\ sheet.version + 1 \in Nat
    BY DEF TypeOK, SheetRow
  <1>2. \A draft, status : [Redrafted(draft, status) EXCEPT !.source = sheet.source + 1].source = sheet.source + 1
    BY <1>1 DEF Redrafted, SheetRow
  <1>3. sheet'.source = sheet.source + 1
    BY <1>2 DEF UploadAttachment, UploadSource
  <1>4. Quiet
    BY OnlyLatest DEF RunInv, UploadAttachment, UploadSource, MayUpload
  <1>5. \A r \in Run : Superseded(run[r]) = run[r]
    BY <1>4 DEF Quiet, Superseded
  <1>6. CASE UploadAttachment(e)
    <2>1. \A r \in Run : run'[r] = run[r]
      BY <1>5, <1>6 DEF UploadAttachment
    <2>q. QED BY <1>3, <1>4, <2>1 DEF Attaching
  <1>7. CASE UploadSource(e, ready, sourceError)
    <2> DEFINE s == <<sheet.source + 1, 1>>
               new == NewRun(IF sheet.source = 0 THEN "UPLOAD" ELSE "REUPLOAD", sheet.version + 1)
    <2>1. \A r \in Run : run'[r] =
            IF r # s THEN Superseded(run[r])
            ELSE IF ready THEN new
            ELSE [new EXCEPT !.status = "FAILED", !.sourceError = sourceError]
      BY <1>7 DEF UploadSource
    <2>2. \A r \in Run : ~ IsActive(r)
      BY <1>4, <1>7, NothingActive DEF RunInv, UploadSource, MayUpload
    <2>3. CASE s \in Run
      <3>1. new \in RunRow /\ new.resultOnly = FALSE
        BY <1>1, NewRow
      <3>2. run'[s] \in RunRow /\ ~ run'[s].resultOnly
        <4> DEFINE failed == [new EXCEPT !.status = "FAILED", !.sourceError = sourceError]
        <4>1. failed \in RunRow /\ failed.resultOnly = FALSE
          <5> HIDE DEF new
          <5>q. QED BY <3>1 DEF RunRow
        <4>2. run'[s] = IF ready THEN new ELSE failed
          BY <2>1, <2>3
        <4> HIDE DEF new, failed
        <4>q. QED BY <3>1, <4>1, <4>2
      <3>3. ~ Started(s) /\ \A r \in Run : Started(r) => r[1] < s[1]
        BY <1>1, <2>3, RunIsPair DEF RunInv, RunsOfSources
      <3>4. \A r \in Run \ {s} : run'[r] = run[r]
        BY <1>5, <2>1
      <3>q. QED BY <1>1, <1>3, <2>2, <2>3, <3>2, <3>3, <3>4, RunIsPair DEF Starting
    <2>4. CASE s \notin Run
      <3>1. \A r \in Run : run'[r] = run[r]
        BY <1>5, <2>1, <2>4
      <3>q. QED BY <1>3, <1>4, <3>1 DEF Attaching
    <2>q. QED BY <2>3, <2>4
  <1>q. QED BY <1>6, <1>7

LEMMA RetryKind ==
  ASSUME TypeOK, RunInv, NEW e \in Editor, RetryRecognition(e)
  PROVE  Starting
  <1>1. PICK r \in Run :
          /\ IsLatest(r) /\ r[2] < MaxCycle
          /\ run' = [run EXCEPT ![<<r[1], r[2] + 1>>] = NewRun("MANUAL_RETRY", sheet.version)]
    BY DEF RetryRecognition
  <1> DEFINE s == <<r[1], r[2] + 1>>
  <1>2. r[1] \in 1..MaxSource /\ r[2] \in 1..MaxCycle /\ r[1] = sheet.source
    BY <1>1, RunIsPair DEF IsLatest
  <1>3. s \in Run /\ s[1] = sheet.source /\ s[2] = r[2] + 1 /\ sheet.source \in Nat
    BY <1>1, <1>2, BoundAssumption DEF Run
  <1>4. sheet'.source = s[1]
    BY <1>3, SourceKept DEF RetryRecognition
  <1>5. ASSUME NEW q \in Run, Started(q), q[1] = s[1]
        PROVE  q[2] <= r[2]
    <2>1. q = <<sheet.source, q[2]>> /\ q[2] \in 1..MaxCycle
      BY <1>3, <1>5 DEF Run
    <2>2. q[2] \in Cycles
      BY <1>5, <2>1 DEF Cycles, Started
    <2>q. QED BY <1>1, <2>2 DEF IsLatest
  <1>6. ~ Started(s) /\ \A q \in Run : Started(q) /\ q[1] = s[1] => q[2] <= s[2]
    BY <1>2, <1>3, <1>5, RunIsPair
  <1>7. \A q \in Run : ~ IsActive(q)
    BY OnlyLatest, NothingActive DEF RunInv, RetryRecognition, MayEdit
  <1>8. NewRun("MANUAL_RETRY", sheet.version) \in RunRow /\ ~ NewRun("MANUAL_RETRY", sheet.version).resultOnly
    BY NewRow, TypeParts
  <1>9. run'[s] \in RunRow /\ ~ run'[s].resultOnly /\ \A q \in Run \ {s} : run'[q] = run[q]
    BY <1>1, <1>3, <1>8 DEF TypeOK
  <1>q. QED BY <1>3, <1>4, <1>6, <1>7, <1>9 DEF Starting

LEMMA ClaimKind ==
  ASSUME TypeOK, NEW w \in Worker, NEW r \in Run, ClaimRun(w, r) \/ CloseRun(w, r)
  PROVE  Proceeding
  <1>1. run[r] \in RunRow /\ Started(r)
    BY StartedRow DEF ClaimRun, CloseRun, Claimable, NoRun, TypeOK, Started
  <1>2. CASE ClaimRun(w, r)
    <2> DEFINE row == [run[r] EXCEPT !.status = "RUNNING", !.attempts = run[r].attempts + 1,
                                     !.token = run[r].attempts + 1, !.live = TRUE]
    <2>1. run[r].attempts + 1 \in Nat /\ run[r].attempts + 1 >= run[r].attempts
      BY <1>1, AttemptAssumption DEF RunRow
    <2>2. /\ row.status = "RUNNING" /\ row.attempts = run[r].attempts + 1
          /\ row.resultOnly = run[r].resultOnly
      BY <1>1 DEF RunRow
    <2>3. run[r].status \in Active
      BY <1>2 DEF ClaimRun, Claimable, Active
    <2>4. run' = [run EXCEPT ![r] = row] /\ sheet'.source = sheet.source
      BY <1>2, SourceKept DEF ClaimRun
    <2> HIDE DEF row
    <2>5. Proceeded(run[r], row)
      BY <2>1, <2>2, <2>3 DEF Proceeded, NoRun
    <2>q. QED BY <1>1, <2>4, <2>5, OneRowProceeds
  <1>3. CASE CloseRun(w, r)
    BY <1>1, <1>3, EvidenceProceeds, EndedProceeds, OneRowProceeds DEF CloseRun
  <1>q. QED BY <1>2, <1>3

LEMMA StartKind ==
  ASSUME TypeOK, NEW w \in Worker, StartCall(w)
  PROVE  Proceeding
  <1>1. sheet' = sheet
    BY DEF StartCall
  <1>2. CASE UNCHANGED run
    BY <1>1, <1>2, SameRunsProceed
  <1>3. CASE Holds(w) /\ run' = [run EXCEPT ![claim[w].run] = EvidenceOnly(run[claim[w].run], "FAILED")]
    BY <1>1, <1>3, HeldRow, EndingKind DEF Holds
  <1>q. QED BY <1>2, <1>3 DEF StartCall

LEMMA FinishKind ==
  ASSUME TypeOK, NEW w \in Worker, Finish(w)
  PROVE  Proceeding
  <1> DEFINE r == claim[w].run
  <1>1. ASSUME NEW status \in {"SUCCEEDED", "FAILED"}, CallIsMoot(w, status)
        PROVE  Proceeding
    <2>1. sheet' = sheet
      BY <1>1 DEF CallIsMoot
    <2>2. CASE UNCHANGED run
      BY <2>1, <2>2, SameRunsProceed
    <2>3. CASE /\ Holds(w)
               /\ \/ run' = [run EXCEPT ![r] = EvidenceOnly(run[r], status)]
                  \/ run' = [run EXCEPT ![r] = Ended(run[r], "SUPERSEDED")]
      <3>1. r \in Run /\ run[r].status # "NONE"
        BY <2>3, HeldRow DEF Holds
      <3>q. QED BY <2>1, <2>3, <3>1, EndingKind
    <2>q. QED BY <1>1, <2>2, <2>3 DEF CallIsMoot
  <1>2. ASSUME CallMatters(w), Succeed(w)
        PROVE  Proceeding
    <2>1. r \in Run /\ run[r].status # "NONE"
      BY <1>2, HeldRow DEF CallMatters, Holds
    <2>2. sheet'.source = sheet.source
      <3>1. CASE Untouched(r)
        <4>1. PICK draft : sheet' = Redrafted(draft, "DRAFT")
          BY <1>2, <3>1 DEF Succeed
        <4>q. QED BY <4>1, SourceKept
      <3>2. CASE ~ Untouched(r)
        BY <1>2, <3>2, TypeParts DEF Succeed, SheetRow
      <3>q. QED BY <3>1, <3>2
    <2>3. \/ run' = [run EXCEPT ![r] = [Ended(run[r], "SUCCEEDED") EXCEPT !.applied = sheet'.version]]
          \/ run' = [run EXCEPT ![r] = Ended(run[r], "SUCCEEDED")]
      BY <1>2 DEF Succeed
    <2>q. QED BY <2>1, <2>2, <2>3, EndingKind
  <1>3. ASSUME NEW retryable \in BOOLEAN, NEW sourceError \in BOOLEAN,
               CallMatters(w), Fail(w, retryable, sourceError)
        PROVE  Proceeding
    <2>1. r \in Run /\ run[r] \in RunRow /\ Started(r) /\ run[r].status # "NONE"
      BY <1>3, HeldRow DEF CallMatters, Holds
    <2>2. sheet'.source = sheet.source
      BY <1>3, TypeParts DEF Fail, SheetRow
    <2>3. Proceeded(run[r], Ended(run[r], "RETRY_WAIT"))
      <3>1. /\ Ended(run[r], "RETRY_WAIT") \in RunRow
            /\ Ended(run[r], "RETRY_WAIT").resultOnly = run[r].resultOnly
            /\ Ended(run[r], "RETRY_WAIT").attempts = run[r].attempts
        BY <2>1, EndedRow
      <3>2. run[r].status \in Active /\ ~ run[r].resultOnly /\ run[r].attempts \in Int
        BY <1>3, <2>1 DEF CallMatters, Holds, MayCall, Active, RunRow
      <3>q. QED BY <3>1, <3>2, NoRunIsNoRow DEF Proceeded
    <2>4. CASE run' = [run EXCEPT ![r] = Ended(run[r], "RETRY_WAIT")]
      BY <2>1, <2>2, <2>3, <2>4, OneRowProceeds
    <2>5. CASE run' = [run EXCEPT ![r] = [Ended(run[r], "FAILED") EXCEPT !.sourceError = sourceError]]
      BY <2>1, <2>2, <2>5, EndingKind DEF NoRun, Started
    <2>q. QED BY <1>3, <2>4, <2>5 DEF Fail
  <1>q. QED BY <1>1, <1>2, <1>3 DEF Finish

(* A row of which only a remark changes. *)
LEMMA RemarkKind ==
  ASSUME TypeOK, NEW r \in Run, run[r].status # "NONE", sheet'.source = sheet.source,
         \/ \E live \in BOOLEAN : run' = [run EXCEPT ![r].live = live]
         \/ \E version : run[r].status = "SUCCEEDED" /\ run' = [run EXCEPT ![r].applied = version],
         EvidenceOnlyRuns
  PROVE  Proceeding
  <1>1. run[r] \in RunRow /\ Started(r) /\ run[r].attempts \in Int
    BY StartedRow DEF RunRow
  <1>2. ASSUME NEW live
        PROVE  /\ [run[r] EXCEPT !.live = live].status = run[r].status
               /\ [run[r] EXCEPT !.live = live].attempts = run[r].attempts
               /\ [run[r] EXCEPT !.live = live].resultOnly = run[r].resultOnly
               /\ [run[r] EXCEPT !.applied = live].status = run[r].status
               /\ [run[r] EXCEPT !.applied = live].attempts = run[r].attempts
               /\ [run[r] EXCEPT !.applied = live].resultOnly = run[r].resultOnly
    BY <1>1 DEF RunRow
  <1>3. ASSUME NEW row, row.status = run[r].status, row.attempts = run[r].attempts,
               row.resultOnly = run[r].resultOnly
        PROVE  Proceeded(run[r], row)
    BY <1>1, <1>3 DEF Proceeded, EvidenceOnlyRuns, IsActive, NoRun
  <1>4. PICK row : run' = [run EXCEPT ![r] = row] /\ Proceeded(run[r], row)
    BY <1>2, <1>3 DEF TypeOK
  <1>q. QED BY <1>1, <1>4, OneRowProceeds

LEMMA StopKind ==
  ASSUME TypeOK, NEW status \in {"SCHEDULED", "COMPLETED"} \cup NotRequired,
         ReconcileGame(status) \/ CorrectGame(status)
  PROVE  Proceeding
  <1>1. sheet'.source = sheet.source
    <2>1. \A current : [Redrafted(sheet.draft, "DRAFT") EXCEPT !.current = current].source = sheet.source
      BY TypeParts DEF Redrafted, SheetRow
    <2>2. Withdrawn.source = sheet.source
      BY TypeParts DEF Withdrawn, SheetRow
    <2>q. QED BY <2>1, <2>2 DEF ReconcileGame, CorrectGame
  <1>2. CASE run' = run
    BY <1>1, <1>2, SameRunsProceed
  <1>3. CASE run' = [r \in Run |-> Stopped(run[r])]
    <2>1. ASSUME NEW r \in Run
          PROVE  run'[r] = run[r] \/ (Started(r) /\ Proceeded(run[r], run'[r]))
      <3>1. run[r] \in RunRow \cup {NoRun} /\ run'[r] = Stopped(run[r])
        BY <1>3 DEF TypeOK
      <3>2. CASE run[r] = NoRun
        BY <3>1, <3>2, StoppedRow
      <3>3. CASE run[r] # NoRun
        <4>1. run[r].attempts \in Int /\ run[r] \in RunRow
          BY <3>1, <3>3 DEF RunRow
        <4>q. QED BY <3>1, <3>3, <4>1, StoppedRow, NoRunIsNoRow DEF Proceeded, Started, Active
      <3>q. QED BY <3>2, <3>3
    <2>q. QED BY <1>1, <2>1 DEF Proceeding
  <1>q. QED BY <1>2, <1>3 DEF ReconcileGame, CorrectGame

LEMMA EditKind ==
  ASSUME TypeOK, NEW e \in Editor, NEW explicit \in BOOLEAN,
         \/ Acquire(e) \/ TakeOver(e) \/ Save(e, explicit)
         \/ ReviewRegion(e) \/ ReviewContext(e) \/ Validate(e, explicit) \/ Publish(e)
  PROVE  Proceeding
  <1>1. run' = run
    BY DEF Acquire, TakeOver, Save, ReviewRegion, ReviewContext, Validate, Publish
  <1>2. sheet'.source = sheet.source
    <2>1. CASE Validate(e, explicit) \/ Publish(e)
      BY <2>1, TypeParts DEF Validate, Publish, SheetRow
    <2>2. CASE Save(e, explicit) \/ ReviewContext(e)
      <3>1. PICK draft : sheet' = Redrafted(draft, "DRAFT")
        BY <2>2 DEF Save, ReviewContext
      <3>q. QED BY <3>1, SourceKept
    <2>3. CASE ReviewRegion(e)
      BY <2>3, TypeParts DEF ReviewRegion, SheetRow
    <2>q. QED BY <2>1, <2>2, <2>3 DEF Acquire, TakeOver
  <1>q. QED BY <1>1, <1>2, SameRunsProceed

LEMMA ApplyKind ==
  ASSUME TypeOK, RunInv, NEW e \in Editor, NEW r \in Run, ApplyRegions(e, r)
  PROVE  Proceeding
  <1>1. sheet'.source = sheet.source
    BY SourceKept DEF ApplyRegions
  <1>q. QED BY <1>1, RemarkKind DEF RunInv, ApplyRegions, MayApply

LEMMA StepKind ==
  ASSUME TypeOK, RunInv, Next
  PROVE  Proceeding \/ Attaching \/ Starting
  <1>1. CASE EditorStep
    <2>1. PICK e \in Editor :
            \/ UploadAttachment(e)
            \/ \E ready, sourceError \in BOOLEAN : UploadSource(e, ready, sourceError)
            \/ Acquire(e) \/ TakeOver(e)
            \/ \E explicit \in BOOLEAN : Save(e, explicit)
            \/ ReviewRegion(e) \/ ReviewContext(e)
            \/ \E r \in Run : ApplyRegions(e, r)
            \/ \E clean \in BOOLEAN : Validate(e, clean)
            \/ Publish(e) \/ RetryRecognition(e)
      BY <1>1 DEF EditorStep, LeaseCommand, DraftCommand, PublicationCommand
    <2>2. CASE UploadAttachment(e) \/ \E ready, sourceError \in BOOLEAN : UploadSource(e, ready, sourceError)
      BY <2>2, UploadKind
    <2>3. CASE \E r \in Run : ApplyRegions(e, r)
      BY <2>3, ApplyKind
    <2>4. CASE RetryRecognition(e)
      BY <2>4, RetryKind
    <2>5. CASE \/ Acquire(e) \/ TakeOver(e) \/ ReviewRegion(e) \/ ReviewContext(e) \/ Publish(e)
               \/ \E explicit \in BOOLEAN : Save(e, explicit) \/ Validate(e, explicit)
      BY <2>5, EditKind
    <2>q. QED BY <2>1, <2>2, <2>3, <2>4, <2>5
  <1>2. CASE LeaseEnds
    BY <1>2, SameRunsProceed DEF LeaseEnds
  <1>3. CASE GameStep
    BY <1>3, StopKind DEF GameStep
  <1>4. ASSUME NEW w \in Worker, WorkerStep(w)
        PROVE  Proceeding
    <2>1. CASE Crash(w)
      BY <2>1, SameRunsProceed DEF Crash
    <2>2. CASE Renew(w)
      BY <2>2, HeldRow, RemarkKind DEF Renew, Holds, RunInv
    <2>q. QED BY <1>4, <2>1, <2>2, ClaimKind, StartKind, FinishKind DEF WorkerStep
  <1>5. ASSUME NEW r \in Run, WorkerLeaseLapses(r)
        PROVE  Proceeding
    BY <1>5, RemarkKind DEF WorkerLeaseLapses, RunInv
  <1>q. QED BY <1>1, <1>2, <1>3, <1>4, <1>5 DEF Next

LEMMA RunStep ==
  ASSUME TypeOK, RunInv, [Next]_vars
  PROVE  RunInv'
  <1>1. CASE Next
    BY <1>1, StepKind, ProceedingKeeps, AttachingKeeps, StartingKeeps
  <1>2. CASE UNCHANGED vars
    BY <1>2, SameRunsProceed, ProceedingKeeps DEF vars
  <1>q. QED BY <1>1, <1>2

LEMMA RunInit == Init => RunInv
  <1> SUFFICES ASSUME Init PROVE RunInv
    OBVIOUS
  <1>1. \A r \in Run : run[r] = NoRun /\ ~ IsActive(r)
    BY DEF Init, IsActive, NoRun, Active
  <1>q. QED BY <1>1, PendingIsActive
        DEF RunInv, RunsOfSources, PendingIsLatest, EvidenceOnlyRuns, OneActive, Started

-----------------------------------------------------------------------------
(* The claims of the workers. *)

LEMMA AttemptsGrow ==
  ASSUME TypeOK, Proceeding \/ Attaching \/ Starting
  PROVE  \A r \in Run : Started(r) => run'[r] # NoRun /\ run'[r].attempts >= run[r].attempts
  <1> SUFFICES ASSUME NEW r \in Run, Started(r)
               PROVE  run'[r] # NoRun /\ run'[r].attempts >= run[r].attempts
    OBVIOUS
  <1>1. run[r].attempts \in Int
    BY DEF TypeOK, RunRow, Started
  <1>2. CASE run'[r] = run[r]
    BY <1>1, <1>2 DEF Started
  <1>3. CASE Proceeded(run[r], run'[r])
    BY <1>3 DEF Proceeded, Started
  <1>q. QED BY <1>2, <1>3 DEF Proceeding, Attaching, Starting

(* A claim is kept or given up. *)
Keeps(w) ==
  claim'[w] # Idle =>
    /\ claim[w] # Idle
    /\ claim'[w].run = claim[w].run /\ claim'[w].token = claim[w].token

LEMMA KeepingClaims ==
  ASSUME TypeOK, TypeOK', ClaimInv, Proceeding \/ Attaching \/ Starting,
         \A w \in Worker : Keeps(w)
  PROVE  ClaimInv'
  <1>1. ASSUME NEW w \in Worker, claim'[w] # Idle
        PROVE  run'[claim[w].run] # NoRun /\ claim[w].token <= run'[claim[w].run].attempts
    <2> DEFINE r == claim[w].run
    <2>1. claim[w] # Idle /\ claim[w] \in ClaimRow
      BY <1>1 DEF Keeps, TypeOK
    <2>2. r \in Run /\ Started(r) /\ claim[w].token \in Int /\ claim[w].token <= run[r].attempts
      BY <2>1 DEF ClaimInv, ClaimsOfAttempts, ClaimRow
    <2>3. run'[r] # NoRun /\ run'[r].attempts >= run[r].attempts
      BY <2>2, AttemptsGrow
    <2>4. run[r].attempts \in Int /\ run'[r].attempts \in Int
      BY <2>2, <2>3 DEF TypeOK, Started, RunRow
    <2>q. QED BY <2>2, <2>3, <2>4
  <1>2. ClaimsOfAttempts'
    BY <1>1 DEF ClaimsOfAttempts, Keeps, Started
  <1>3. ClaimsDiffer'
    BY DEF ClaimInv, ClaimsDiffer, Keeps
  <1>q. QED BY <1>2, <1>3 DEF ClaimInv

LEMMA TakingClaim ==
  ASSUME TypeOK, TypeOK', ClaimInv, NEW w \in Worker, NEW r \in Run, ClaimRun(w, r)
  PROVE  ClaimInv'
  <1> DEFINE token == run[r].attempts + 1
  <1>1. run[r] \in RunRow /\ Started(r) /\ run[r].attempts \in Int
    BY StartedRow DEF ClaimRun, Claimable, NoRun, TypeOK, Started, RunRow
  <1>2. run'[r].attempts = token /\ run'[r] # NoRun /\ \A q \in Run \ {r} : run'[q] = run[q]
    <2>1. [run[r] EXCEPT !.status = "RUNNING", !.attempts = token,
                         !.token = token, !.live = TRUE].attempts = token
      BY <1>1 DEF RunRow
    <2>2. run'[r] = [run[r] EXCEPT !.status = "RUNNING", !.attempts = token,
                                   !.token = token, !.live = TRUE]
          /\ \A q \in Run \ {r} : run'[q] = run[q]
      BY DEF ClaimRun, TypeOK
    <2>3. run'[r].status = "RUNNING"
      BY <1>1, <2>2 DEF RunRow
    <2>4. run'[r] # NoRun
      BY <2>3 DEF NoRun
    <2>q. QED BY <2>1, <2>2, <2>4
  <1>3. /\ claim'[w].run = r /\ claim'[w].token = token /\ claim[w] = Idle
        /\ \A v \in Worker \ {w} : claim'[v] = claim[v]
    BY DEF ClaimRun, TypeOK
  <1>4. ASSUME NEW v \in Worker \ {w}, claim[v] # Idle
        PROVE  /\ run'[claim[v].run] # NoRun /\ claim[v].token <= run'[claim[v].run].attempts
               /\ claim[v].run = r => claim[v].token # token
    <2>1. claim[v] \in ClaimRow
      BY <1>4 DEF TypeOK
    <2>2. claim[v].run \in Run /\ claim[v].token \in Int
      BY <2>1 DEF ClaimRow
    <2>3. Started(claim[v].run) /\ claim[v].token <= run[claim[v].run].attempts
      BY <1>4 DEF ClaimInv, ClaimsOfAttempts
    <2>4. CASE claim[v].run = r
      BY <1>1, <1>2, <2>2, <2>3, <2>4
    <2>5. CASE claim[v].run # r
      BY <1>2, <2>2, <2>3, <2>5 DEF Started
    <2>q. QED BY <2>4, <2>5
  <1>5. ClaimsOfAttempts'
    <2>1. ASSUME NEW v \in Worker, claim'[v] # Idle
          PROVE  run'[claim'[v].run] # NoRun /\ claim'[v].token <= run'[claim'[v].run].attempts
      BY <1>1, <1>2, <1>3, <1>4, <2>1
    <2>q. QED BY <2>1 DEF ClaimsOfAttempts, Started
  <1>6. ClaimsDiffer'
    BY <1>3, <1>4 DEF ClaimInv, ClaimsDiffer
  <1>q. QED BY <1>5, <1>6 DEF ClaimInv

LEMMA ClaimStep ==
  ASSUME TypeOK, TypeOK', RunInv, ClaimInv, [Next]_vars
  PROVE  ClaimInv'
  <1>1. CASE UNCHANGED claim
    <2>1. Proceeding \/ Attaching \/ Starting
      BY StepKind, SameRunsProceed DEF vars
    <2>q. QED BY <1>1, <2>1, KeepingClaims DEF Keeps
  <1>2. ASSUME NEW w \in Worker, WorkerStep(w)
        PROVE  ClaimInv'
    <2>1. Proceeding \/ Attaching \/ Starting
      BY <1>2, StepKind DEF Next
    <2>2. CASE \E r \in Run : ClaimRun(w, r)
      BY <2>2, TakingClaim
    <2>3. CASE (\E r \in Run : CloseRun(w, r)) \/ Renew(w)
      BY <1>1, <2>3 DEF CloseRun, Renew
    <2>4. CASE Finish(w) \/ Crash(w)
      <3>1. \A v \in Worker : Keeps(v)
        BY <2>4 DEF Finish, Crash, Keeps, TypeOK
      <3>q. QED BY <2>1, <3>1, KeepingClaims
    <2>5. CASE StartCall(w)
      <3>1. claim[w] \in ClaimRow /\ claim[w] # Idle
        BY <2>5 DEF StartCall, TypeOK
      <3>2. [claim[w] EXCEPT !.calling = TRUE].run = claim[w].run
            /\ [claim[w] EXCEPT !.calling = TRUE].token = claim[w].token
        BY <3>1 DEF ClaimRow
      <3>3. claim' = [claim EXCEPT ![w] = [claim[w] EXCEPT !.calling = TRUE]] \/ claim' = [claim EXCEPT ![w] = Idle]
        BY <2>5 DEF StartCall, TypeOK
      <3>4. \A v \in Worker : Keeps(v)
        BY <3>1, <3>2, <3>3 DEF Keeps, TypeOK
      <3>q. QED BY <2>1, <3>4, KeepingClaims
    <2>q. QED BY <1>2, <2>2, <2>3, <2>4, <2>5 DEF WorkerStep
  <1>3. CASE EditorStep
    <2>1. UNCHANGED claim
      BY <1>3 DEF EditorStep, LeaseCommand, DraftCommand, PublicationCommand, UploadAttachment,
                  UploadSource, Acquire, TakeOver, Save, ReviewRegion, ReviewContext, ApplyRegions,
                  Validate, Publish, RetryRecognition
    <2>q. QED BY <1>1, <2>1
  <1>4. CASE LeaseEnds \/ GameStep \/ \E r \in Run : WorkerLeaseLapses(r)
    BY <1>1, <1>4 DEF LeaseEnds, GameStep, ReconcileGame, CorrectGame, WorkerLeaseLapses
  <1>q. QED BY <1>1, <1>2, <1>3, <1>4 DEF Next, vars

LEMMA OneCall ==
  ASSUME RunInv, ClaimInv, TypeOK
  PROVE  OneCallAtATime
  <1>1. \A q, r \in Run : run[q].status \in Active /\ run[r].status \in Active => q = r
    BY DEF RunInv, OneActive, IsActive
  <1>2. ASSUME NEW v \in Worker, NEW w \in Worker, Holds(v), Holds(w)
        PROVE  v = w
    <2>1. claim[v].run = claim[w].run
      BY <1>1, <1>2, HeldRow DEF Holds, Active
    <2>q. QED BY <1>2, <2>1 DEF Holds, ClaimInv, ClaimsDiffer
  <1>q. QED BY <1>1, <1>2 DEF OneCallAtATime

(* The inductive invariant of the runs and the claims. *)
Inv == TypeOK /\ RunInv /\ ClaimInv

LEMMA InvHolds == Spec => []Inv
  <1>1. Init => RunInv /\ ClaimInv
    <2>1. Init => ClaimInv
      BY DEF Init, ClaimInv, ClaimsOfAttempts, ClaimsDiffer
    <2>q. QED BY <2>1, RunInit
  <1>2. TypeOK /\ TypeOK' /\ RunInv /\ ClaimInv /\ [Next]_vars => RunInv' /\ ClaimInv'
    BY RunStep, ClaimStep
  <1>q. QED BY <1>1, <1>2, ScoresheetTyped, PTL DEF Spec, Inv

(* At any moment one run of the game is queued, running or waiting at the  *)
(* most, and one worker's outcome of a call would be accepted: neither     *)
(* uploads, retries and forfeits, nor workers that die, come back late or  *)
(* take over each other's runs start a second recognition.                 *)
THEOREM OneCallAtATimeHolds == Spec => []OneCallAtATime
  <1>1. Inv => OneCallAtATime
    BY OneCall DEF Inv
  <1>q. QED BY <1>1, InvHolds, PTL

-----------------------------------------------------------------------------
(* Nobody edits meanwhile. *)

ShownAs(status) ==
  CASE status = "QUEUED" -> "RECOGNITION_QUEUED"
    [] status = "RUNNING" -> "RECOGNIZING"
    [] status = "RETRY_WAIT" -> "RETRY_WAIT"

(* A pending run shows, whether or not it is known to be the latest. *)
Shown ==
  \A r \in Run : Pending(run[r]) => editor = Nobody /\ sheet.status = ShownAs(run[r].status)

LEMMA ShownIsReadOnly ==
  ASSUME Shown
  PROVE  ReadOnlyWhileRecognising
  BY DEF Shown, ReadOnlyWhileRecognising, ShownAs

LEMMA NonePending ==
  ASSUME \A r \in Run : ~ Pending(run'[r])
  PROVE  Shown'
  BY DEF Shown

LEMMA QuietKept ==
  ASSUME Quiet, Proceeding \/ Attaching
  PROVE  Shown'
  <1>1. \A r \in Run : ~ Pending(run'[r])
    BY DEF Quiet, Proceeding, Attaching, Proceeded, Pending
  <1>q. QED BY <1>1, NonePending

(* The pending runs, who edits and what is shown are left alone. *)
LEMMA ShownKept ==
  ASSUME Shown, editor' = editor, sheet'.status = sheet.status,
         \A r \in Run : Pending(run'[r]) => Pending(run[r]) /\ run'[r].status = run[r].status
  PROVE  Shown'
  BY DEF Shown

(* A run that is pending is the only active one, and nobody edits. *)
LEMMA OnlyPending ==
  ASSUME RunInv, Shown, NEW r \in Run, Pending(run[r])
  PROVE  editor = Nobody /\ \A q \in Run \ {r} : ~ Pending(run[q])
  BY DEF Shown, RunInv, OneActive, IsActive, Pending

LEMMA OneRowShown ==
  ASSUME TypeOK, RunInv, Shown, NEW r \in Run, Pending(run[r]), NEW row,
         run' = [run EXCEPT ![r] = row], editor' = editor,
         Pending(row) => sheet'.status = ShownAs(row.status)
  PROVE  Shown'
  <1>1. editor = Nobody /\ \A q \in Run \ {r} : ~ Pending(run[q])
    BY OnlyPending
  <1>2. run'[r] = row /\ \A q \in Run \ {r} : run'[q] = run[q]
    BY DEF TypeOK
  <1>q. QED BY <1>1, <1>2 DEF Shown

(* A run that ended pends no more. *)
LEMMA EndedShown ==
  ASSUME TypeOK, Shown, NEW r \in Run, NEW row, row.status \notin Active,
         run' = [run EXCEPT ![r] = row], editor' = editor, sheet' = sheet
  PROVE  Shown'
  <1>1. run'[r] = row /\ \A q \in Run \ {r} : run'[q] = run[q]
    BY DEF TypeOK
  <1>2. \A q \in Run : Pending(run'[q]) => Pending(run[q]) /\ run'[q].status = run[q].status
    BY <1>1 DEF Pending
  <1>q. QED BY <1>2, ShownKept

LEMMA EndedStatus ==
  ASSUME NEW row \in RunRow
  PROVE  /\ \A status \in {"SUCCEEDED", "FAILED"} : EvidenceOnly(row, status).status \notin Active
         /\ \A status \in {"SUCCEEDED", "FAILED", "SUPERSEDED"} : Ended(row, status).status \notin Active
         /\ \A remark : [Ended(row, "SUCCEEDED") EXCEPT !.applied = remark].status \notin Active
         /\ \A remark : [Ended(row, "FAILED") EXCEPT !.sourceError = remark].status \notin Active
  <1>1. \A status \in {"SUCCEEDED", "FAILED"} : EvidenceOnly(row, status).status = status
    BY EvidenceRow
  <1>2. \A status \in {"SUCCEEDED", "FAILED", "SUPERSEDED"} :
          Ended(row, status) \in RunRow /\ Ended(row, status).status = status
    BY EndedRow
  <1>3. \A remark : [Ended(row, "SUCCEEDED") EXCEPT !.applied = remark].status = "SUCCEEDED"
    BY <1>2 DEF RunRow
  <1>4. \A remark : [Ended(row, "FAILED") EXCEPT !.sourceError = remark].status = "FAILED"
    BY <1>2 DEF RunRow
  <1>q. QED BY <1>1, <1>2, <1>3, <1>4 DEF Active

LEMMA UploadShown ==
  ASSUME TypeOK, RunInv, NEW e \in Editor, NEW ready \in BOOLEAN, NEW sourceError \in BOOLEAN,
         UploadAttachment(e) \/ UploadSource(e, ready, sourceError)
  PROVE  Shown'
  <1>1. Quiet
    BY OnlyLatest DEF RunInv, UploadAttachment, UploadSource, MayUpload
  <1>2. \A r \in Run : Superseded(run[r]) = run[r] /\ ~ Pending(run[r])
    BY <1>1 DEF Quiet, Superseded
  <1>3. CASE UploadAttachment(e)
    <2>1. \A r \in Run : ~ Pending(run'[r])
      BY <1>2, <1>3 DEF UploadAttachment
    <2>q. QED BY <2>1, NonePending
  <1>4. CASE UploadSource(e, ready, sourceError)
    <2> DEFINE s == <<sheet.source + 1, 1>>
               new == NewRun(IF sheet.source = 0 THEN "UPLOAD" ELSE "REUPLOAD", sheet.version + 1)
               failed == [new EXCEPT !.status = "FAILED", !.sourceError = sourceError]
    <2>1. sheet.version + 1 \in Nat
      BY TypeParts
    <2>2. new \in RunRow /\ new.status = "QUEUED"
      BY <2>1, NewRow
    <2>3. failed.status \notin Active
      <3> HIDE DEF new
      <3>q. QED BY <2>2 DEF RunRow, Active
    <2>4. \A r \in Run : run'[r] =
            IF r # s THEN run[r] ELSE IF ready THEN new ELSE failed
      BY <1>2, <1>4 DEF UploadSource
    <2> HIDE DEF new, failed
    <2>5. \A r \in Run : Pending(run'[r]) => ready /\ run'[r].status = "QUEUED"
      BY <1>2, <2>2, <2>3, <2>4 DEF Pending
    <2>6. editor' = Nobody /\ (ready => sheet'.status = "RECOGNITION_QUEUED")
      <3>1. \A status : [Redrafted({}, status) EXCEPT !.source = sheet.source + 1].status = status
        BY TypeParts DEF Redrafted, SheetRow
      <3>q. QED BY <1>4, <3>1 DEF UploadSource
    <2>q. QED BY <2>5, <2>6 DEF Shown, ShownAs
  <1>q. QED BY <1>3, <1>4

LEMMA RetryShown ==
  ASSUME TypeOK, RunInv, NEW e \in Editor, RetryRecognition(e)
  PROVE  Shown'
  <1>1. Quiet
    BY OnlyLatest DEF RunInv, RetryRecognition, MayEdit
  <1>2. PICK s : run' = [run EXCEPT ![s] = NewRun("MANUAL_RETRY", sheet.version)]
    BY DEF RetryRecognition
  <1>3. \A r \in Run : Pending(run'[r]) => run'[r].status = "QUEUED"
    BY <1>1, <1>2, TypeParts, NewRow DEF Quiet, TypeOK
  <1>4. editor' = Nobody /\ sheet'.status = "RECOGNITION_QUEUED"
    BY TypeParts DEF RetryRecognition, SheetRow
  <1>q. QED BY <1>3, <1>4 DEF Shown, ShownAs

LEMMA EditShown ==
  ASSUME TypeOK, RunInv, NEW e \in Editor, NEW explicit \in BOOLEAN,
         \/ Acquire(e) \/ TakeOver(e) \/ Save(e, explicit)
         \/ ReviewRegion(e) \/ ReviewContext(e) \/ Validate(e, explicit) \/ Publish(e)
  PROVE  Shown'
  <1>1. RecognitionInactive
    BY DEF Acquire, TakeOver, Save, ReviewRegion, ReviewContext, Validate, Publish, MayEdit
  <1>2. Proceeding
    BY EditKind
  <1>q. QED BY <1>1, <1>2, OnlyLatest, QuietKept DEF RunInv

LEMMA ApplyShown ==
  ASSUME TypeOK, RunInv, NEW e \in Editor, NEW r \in Run, ApplyRegions(e, r)
  PROVE  Shown'
  BY ApplyKind, OnlyLatest, QuietKept DEF RunInv, ApplyRegions, MayEdit

(* Only a forfeit may come over a recognition, and it stops it. *)
LEMMA GameShown ==
  ASSUME TypeOK, RunInv, NEW status \in {"SCHEDULED", "COMPLETED"} \cup NotRequired,
         ReconcileGame(status) \/ CorrectGame(status)
  PROVE  Shown'
  <1>1. CASE status # "FORFEIT"
    <2>1. Quiet
      BY <1>1 DEF ReconcileGame, CorrectGame, MayChangeGame, Quiet
    <2>q. QED BY <2>1, StopKind, QuietKept
  <1>2. CASE status = "FORFEIT" /\ CorrectGame(status)
    <2>1. sheet.source = 0
      BY <1>2 DEF CorrectGame, Reconciles
    <2>2. \A r \in Run : ~ Started(r)
      BY <2>1, RunIsPair DEF RunInv, RunsOfSources
    <2>3. Quiet
      BY <2>2, PendingIsActive, ActiveIsStarted DEF Quiet
    <2>q. QED BY <2>3, StopKind, QuietKept
  <1>3. CASE status = "FORFEIT" /\ ReconcileGame(status)
    <2>1. run' = [r \in Run |-> Stopped(run[r])]
      BY <1>3 DEF ReconcileGame, NotRequired
    <2>2. ASSUME NEW r \in Run
          PROVE  ~ Pending(run'[r])
      <3>1. run[r] \in RunRow \cup {NoRun} /\ run'[r] = Stopped(run[r])
        BY <2>1 DEF TypeOK
      <3>2. CASE run[r] = NoRun
        BY <3>1, <3>2, StoppedRow DEF Pending, NoRun, Active
      <3>3. CASE run[r] # NoRun
        BY <3>1, <3>3, StoppedRow DEF Pending
      <3>q. QED BY <3>2, <3>3
    <2>q. QED BY <2>2, NonePending
  <1>q. QED BY <1>1, <1>2, <1>3

LEMMA ClaimShown ==
  ASSUME TypeOK, RunInv, Shown, NEW w \in Worker, NEW r \in Run, ClaimRun(w, r) \/ CloseRun(w, r)
  PROVE  Shown'
  <1>1. run[r] \in RunRow
    BY StartedRow DEF ClaimRun, CloseRun, Claimable, NoRun, TypeOK, Started
  <1>2. CASE ClaimRun(w, r)
    <2> DEFINE row == [run[r] EXCEPT !.status = "RUNNING", !.attempts = run[r].attempts + 1,
                                     !.token = run[r].attempts + 1, !.live = TRUE]
    <2>1. Pending(run[r])
      BY <1>2 DEF ClaimRun, Claimable, MayCall, Pending, Active
    <2>2. row.status = "RUNNING"
      <3>1. run[r].attempts + 1 \in Nat
        BY <1>1, AttemptAssumption DEF RunRow
      <3>q. QED BY <1>1, <3>1 DEF RunRow
    <2>3. sheet'.status = "RECOGNIZING"
      BY <1>2, TypeParts DEF ClaimRun, SheetRow
    <2>4. run' = [run EXCEPT ![r] = row] /\ editor' = editor
      BY <1>2 DEF ClaimRun
    <2>5. sheet'.status = ShownAs(row.status)
      <3> HIDE DEF row
      <3>q. QED BY <2>2, <2>3 DEF ShownAs
    <2> HIDE DEF row
    <2>q. QED BY <2>1, <2>4, <2>5, OneRowShown
  <1>3. CASE CloseRun(w, r)
    <2>1. PICK row : run' = [run EXCEPT ![r] = row] /\ row.status \notin Active
      BY <1>1, <1>3, EndedStatus DEF CloseRun
    <2>q. QED BY <1>3, <2>1, EndedShown DEF CloseRun
  <1>q. QED BY <1>2, <1>3

LEMMA StartShown ==
  ASSUME TypeOK, Shown, NEW w \in Worker, StartCall(w)
  PROVE  Shown'
  <1>1. sheet' = sheet /\ editor' = editor
    BY DEF StartCall
  <1>2. CASE UNCHANGED run
    BY <1>1, <1>2, ShownKept
  <1>3. CASE Holds(w) /\ run' = [run EXCEPT ![claim[w].run] = EvidenceOnly(run[claim[w].run], "FAILED")]
    BY <1>1, <1>3, HeldRow, EndedStatus, EndedShown
  <1>q. QED BY <1>2, <1>3 DEF StartCall

LEMMA FinishShown ==
  ASSUME TypeOK, RunInv, Shown, NEW w \in Worker, Finish(w)
  PROVE  Shown'
  <1> DEFINE r == claim[w].run
  <1>0. editor' = editor
    BY DEF Finish
  <1>1. ASSUME NEW status \in {"SUCCEEDED", "FAILED"}, CallIsMoot(w, status)
        PROVE  Shown'
    <2>1. sheet' = sheet
      BY <1>1 DEF CallIsMoot
    <2>2. CASE UNCHANGED run
      BY <1>0, <2>1, <2>2, ShownKept
    <2>3. CASE /\ Holds(w)
               /\ \/ run' = [run EXCEPT ![r] = EvidenceOnly(run[r], status)]
                  \/ run' = [run EXCEPT ![r] = Ended(run[r], "SUPERSEDED")]
      <3>1. r \in Run /\ run[r] \in RunRow
        BY <2>3, HeldRow
      <3>2. PICK row : run' = [run EXCEPT ![r] = row] /\ row.status \notin Active
        BY <2>3, <3>1, EndedStatus
      <3>q. QED BY <1>0, <2>1, <3>1, <3>2, EndedShown
    <2>q. QED BY <1>1, <2>2, <2>3 DEF CallIsMoot
  <1>2. ASSUME CallMatters(w)
        PROVE  r \in Run /\ run[r] \in RunRow /\ Pending(run[r])
    BY <1>2, HeldRow DEF CallMatters, Holds, MayCall, Pending, Active
  <1>3. ASSUME CallMatters(w), Succeed(w)
        PROVE  Shown'
    <2>1. PICK row : run' = [run EXCEPT ![r] = row] /\ row.status \notin Active
      BY <1>2, <1>3, EndedStatus DEF Succeed
    <2>q. QED BY <1>0, <1>2, <1>3, <2>1, OneRowShown DEF Pending
  <1>4. ASSUME NEW retryable \in BOOLEAN, NEW sourceError \in BOOLEAN,
               CallMatters(w), Fail(w, retryable, sourceError)
        PROVE  Shown'
    <2>1. CASE /\ run' = [run EXCEPT ![r] = Ended(run[r], "RETRY_WAIT")]
               /\ sheet' = [sheet EXCEPT !.status = "RETRY_WAIT"]
      <3>1. Ended(run[r], "RETRY_WAIT").status = "RETRY_WAIT"
        BY <1>2, <1>4, EndedRow
      <3>2. sheet'.status = ShownAs(Ended(run[r], "RETRY_WAIT").status)
        BY <2>1, <3>1, TypeParts DEF ShownAs, SheetRow
      <3>q. QED BY <1>0, <1>2, <1>4, <2>1, <3>2, OneRowShown
    <2>2. CASE run' = [run EXCEPT ![r] = [Ended(run[r], "FAILED") EXCEPT !.sourceError = sourceError]]
      <3>1. ~ Pending([Ended(run[r], "FAILED") EXCEPT !.sourceError = sourceError])
        BY <1>2, <1>4, EndedStatus DEF Pending
      <3>q. QED BY <1>0, <1>2, <1>4, <2>2, <3>1, OneRowShown
    <2>q. QED BY <1>4, <2>1, <2>2 DEF Fail
  <1>q. QED BY <1>1, <1>3, <1>4 DEF Finish

LEMMA LiveShown ==
  ASSUME TypeOK, Shown, NEW r \in Run, run[r].status = "RUNNING", NEW live,
         run' = [run EXCEPT ![r].live = live], UNCHANGED <<sheet, editor>>
  PROVE  Shown'
  <1>1. run[r] \in RunRow
    BY StartedRow
  <1>2. [run[r] EXCEPT !.live = live].status = run[r].status
        /\ [run[r] EXCEPT !.live = live].resultOnly = run[r].resultOnly
    BY <1>1 DEF RunRow
  <1>3. run'[r] = [run[r] EXCEPT !.live = live] /\ \A q \in Run \ {r} : run'[q] = run[q]
    BY DEF TypeOK
  <1>4. \A q \in Run : Pending(run'[q]) => Pending(run[q]) /\ run'[q].status = run[q].status
    BY <1>2, <1>3 DEF Pending
  <1>q. QED BY <1>4, ShownKept

LEMMA ShownStep ==
  ASSUME TypeOK, RunInv, Shown, [Next]_vars
  PROVE  Shown'
  <1>1. CASE EditorStep
    <2>1. PICK e \in Editor :
            \/ UploadAttachment(e)
            \/ \E ready, sourceError \in BOOLEAN : UploadSource(e, ready, sourceError)
            \/ Acquire(e) \/ TakeOver(e)
            \/ \E explicit \in BOOLEAN : Save(e, explicit)
            \/ ReviewRegion(e) \/ ReviewContext(e)
            \/ \E r \in Run : ApplyRegions(e, r)
            \/ \E clean \in BOOLEAN : Validate(e, clean)
            \/ Publish(e) \/ RetryRecognition(e)
      BY <1>1 DEF EditorStep, LeaseCommand, DraftCommand, PublicationCommand
    <2>2. CASE UploadAttachment(e) \/ \E ready, sourceError \in BOOLEAN : UploadSource(e, ready, sourceError)
      BY <2>2, UploadShown
    <2>3. CASE \E r \in Run : ApplyRegions(e, r)
      BY <2>3, ApplyShown
    <2>4. CASE RetryRecognition(e)
      BY <2>4, RetryShown
    <2>5. CASE \/ Acquire(e) \/ TakeOver(e) \/ ReviewRegion(e) \/ ReviewContext(e) \/ Publish(e)
               \/ \E explicit \in BOOLEAN : Save(e, explicit) \/ Validate(e, explicit)
      BY <2>5, EditShown
    <2>q. QED BY <2>1, <2>2, <2>3, <2>4, <2>5
  <1>2. CASE LeaseEnds
    BY <1>2 DEF LeaseEnds, Shown
  <1>3. CASE GameStep
    BY <1>3, GameShown DEF GameStep
  <1>4. ASSUME NEW w \in Worker, WorkerStep(w)
        PROVE  Shown'
    <2>1. CASE Crash(w)
      BY <2>1 DEF Crash, Shown
    <2>2. CASE Renew(w)
      BY <2>2, HeldRow, LiveShown DEF Renew, Holds
    <2>q. QED BY <1>4, <2>1, <2>2, ClaimShown, StartShown, FinishShown DEF WorkerStep
  <1>5. ASSUME NEW r \in Run, WorkerLeaseLapses(r)
        PROVE  Shown'
    BY <1>5, LiveShown DEF WorkerLeaseLapses
  <1>6. CASE UNCHANGED vars
    BY <1>6 DEF vars, Shown
  <1>q. QED BY <1>1, <1>2, <1>3, <1>4, <1>5, <1>6 DEF Next

(* While a recognition may still change the draft nobody holds the edit    *)
(* lease, and the status of the sheet is that of the run: no takeover,     *)
(* late outcome, correction of the game or second worker gets in between.  *)
THEOREM ReadOnlyHolds == Spec => []ReadOnlyWhileRecognising
  <1>1. Init => Shown
    <2>1. Init => \A r \in Run : run[r] = NoRun
      BY DEF Init
    <2>q. QED BY <2>1 DEF Shown, Pending, NoRun, Active
  <1>2. TypeOK /\ RunInv /\ Shown /\ [Next]_vars => Shown'
    BY ShownStep
  <1>3. Shown => ReadOnlyWhileRecognising
    BY ShownIsReadOnly
  <1>q. QED BY <1>1, <1>2, <1>3, InvHolds, PTL DEF Spec, Inv

-----------------------------------------------------------------------------
(* A result is recorded as applied to the draft. *)
Taken(r) == run[r].status = "SUCCEEDED" /\ run[r].applied # 0

-----------------------------------------------------------------------------
(* What a step makes of a run: evidence stays evidence and is not sent     *)
(* again, and what was taken over stays so.                                *)
Moved(old, new) ==
  /\ new # NoRun /\ new.trigger = old.trigger
  /\ old.resultOnly => new.resultOnly /\ new.attempts = old.attempts
  /\ old.status = "SUCCEEDED" =>
       new.status = "SUCCEEDED" /\ (old.applied # 0 => new.applied # 0)
  /\ Pending(new) => Pending(old)

(* A retry keeps the draft it may replace. *)
Created(new) ==
  /\ new \in RunRow
  /\ new.trigger = "MANUAL_RETRY" => sheet'.draft \in revision'

RunsMove ==
  \A r \in Run :
    \/ run'[r] = run[r]
    \/ Started(r) /\ Moved(run[r], run'[r])
    \/ run[r] = NoRun /\ Created(run'[r])

(* What a step makes of the draft.                                         *)
DraftStays ==
  /\ sheet'.draft = sheet.draft /\ sheet'.source = sheet.source
  /\ sheet'.clean => sheet.clean \/ sheet.draft \in revision'

(* An editor adds to it, by hand or from a kept result. *)
DraftGrows ==
  /\ Quiet /\ editor # Nobody
  /\ sheet'.source = sheet.source /\ ~ sheet'.clean
  /\ \E added : /\ sheet'.draft = sheet.draft \cup {added}
                /\ \/ added[1] = 0
                   \/ added \in Run /\ added[1] = sheet.source /\ Taken(added)'

(* A photograph replaces it. *)
DraftLeaves ==
  /\ Quiet
  /\ sheet'.source = sheet.source + 1 /\ ~ sheet'.clean /\ sheet'.draft = {}

(* A recognition is merged into it, or after a retry replaces it. *)
DraftMerges ==
  \E r \in Run :
    /\ Pending(run[r]) /\ r[1] = sheet.source
    /\ sheet'.source = sheet.source /\ ~ sheet'.clean /\ Taken(r)'
    /\ \/ sheet'.draft = sheet.draft \cup {r}
       \/ run[r].trigger = "MANUAL_RETRY" /\ sheet'.draft = {r}

SheetMoves ==
  /\ RunsMove /\ revision \subseteq revision'
  /\ DraftStays \/ DraftGrows \/ DraftLeaves \/ DraftMerges

-----------------------------------------------------------------------------
(* Every step is of these kinds. *)

LEMMA SameMoves == ASSUME run' = run PROVE RunsMove
  BY DEF RunsMove

LEMMA OneRowMoves ==
  ASSUME TypeOK, NEW r \in Run, Started(r), NEW row, run' = [run EXCEPT ![r] = row],
         Moved(run[r], row)
  PROVE  RunsMove /\ run'[r] = row
  BY DEF RunsMove, TypeOK

LEMMA EndedMoves ==
  ASSUME NEW row \in RunRow, row.status \in Active,
         NEW status \in {"SUCCEEDED", "FAILED", "STOPPED", "SUPERSEDED", "RETRY_WAIT"},
         status = "RETRY_WAIT" => ~ row.resultOnly
  PROVE  /\ Moved(row, Ended(row, status))
         /\ Moved(row, EvidenceOnly(row, status))
         /\ \A remark : /\ Moved(row, [Ended(row, status) EXCEPT !.applied = remark])
                        /\ Moved(row, [Ended(row, status) EXCEPT !.sourceError = remark])
  <1> DEFINE ended == Ended(row, status)
  <1>1. /\ ended \in RunRow /\ ended.status = status /\ ended.trigger = row.trigger
        /\ ended.resultOnly = row.resultOnly /\ ended.attempts = row.attempts
    <2>1. ended.trigger = row.trigger
      BY DEF Ended, RunRow
    <2>q. QED BY <2>1, EndedRow
  <1>2. status # "NONE" /\ (status \in Active => status = "RETRY_WAIT") /\ row.status # "SUCCEEDED"
    BY DEF Active
  <1>3. ASSUME NEW new, new.status = status, new.trigger = row.trigger,
               new.attempts = row.attempts,
               new.resultOnly = row.resultOnly \/ new.resultOnly = TRUE
        PROVE  Moved(row, new)
    <2>1. new # NoRun
      BY <1>2, <1>3 DEF NoRun
    <2>2. row.resultOnly \in BOOLEAN
      BY DEF RunRow
    <2>q. QED BY <1>2, <1>3, <2>1, <2>2 DEF Moved, Pending
  <1>4. EvidenceOnly(row, status) = [ended EXCEPT !.resultOnly = TRUE]
    BY DEF EvidenceOnly
  <1> HIDE DEF ended
  <1>5. /\ [ended EXCEPT !.resultOnly = TRUE].status = status
        /\ [ended EXCEPT !.resultOnly = TRUE].trigger = row.trigger
        /\ [ended EXCEPT !.resultOnly = TRUE].attempts = row.attempts
        /\ [ended EXCEPT !.resultOnly = TRUE].resultOnly = TRUE
    BY <1>1 DEF RunRow
  <1>6. ASSUME NEW remark
        PROVE  /\ Moved(row, [ended EXCEPT !.applied = remark])
               /\ Moved(row, [ended EXCEPT !.sourceError = remark])
    <2>1. /\ [ended EXCEPT !.applied = remark].status = status
          /\ [ended EXCEPT !.applied = remark].trigger = row.trigger
          /\ [ended EXCEPT !.applied = remark].attempts = row.attempts
          /\ [ended EXCEPT !.applied = remark].resultOnly = row.resultOnly
      BY <1>1 DEF RunRow
    <2>2. /\ [ended EXCEPT !.sourceError = remark].status = status
          /\ [ended EXCEPT !.sourceError = remark].trigger = row.trigger
          /\ [ended EXCEPT !.sourceError = remark].attempts = row.attempts
          /\ [ended EXCEPT !.sourceError = remark].resultOnly = row.resultOnly
      BY <1>1 DEF RunRow
    <2>q. QED BY <1>3, <2>1, <2>2
  <1>7. Moved(row, ended) /\ Moved(row, [ended EXCEPT !.resultOnly = TRUE])
    BY <1>1, <1>3, <1>5
  <1>q. QED BY <1>4, <1>6, <1>7 DEF ended

(* What Redrafted and the other updates leave of the sheet. *)
LEMMA RedraftedSheet ==
  ASSUME TypeOK, NEW draft, NEW status, NEW n,
         \/ sheet' = Redrafted(draft, status)
         \/ sheet' = [Redrafted(draft, status) EXCEPT !.current = n]
  PROVE  sheet'.draft = draft /\ sheet'.source = sheet.source /\ sheet'.clean = FALSE
  BY DEF TypeOK, SheetRow, Redrafted

LEMMA UploadedSheet ==
  ASSUME TypeOK, NEW draft, NEW status, NEW n,
         sheet' = [Redrafted(draft, status) EXCEPT !.source = n]
  PROVE  sheet'.draft = draft /\ sheet'.source = n /\ sheet'.clean = FALSE
  BY DEF TypeOK, SheetRow, Redrafted

LEMMA StatusSheet ==
  ASSUME TypeOK, NEW status,
         sheet' = [sheet EXCEPT !.status = status], revision \subseteq revision'
  PROVE  DraftStays
  BY DEF TypeOK, SheetRow, DraftStays

LEMMA UploadMoves ==
  ASSUME TypeOK, RunInv, NEW e \in Editor, NEW ready \in BOOLEAN, NEW sourceError \in BOOLEAN,
         UploadAttachment(e) \/ UploadSource(e, ready, sourceError)
  PROVE  SheetMoves
  <1>1. Quiet
    BY OnlyLatest DEF RunInv, UploadAttachment, UploadSource, MayUpload
  <1>2. DraftLeaves /\ revision \subseteq revision'
    <2>1. PICK status : sheet' = [Redrafted({}, status) EXCEPT !.source = sheet.source + 1]
      BY DEF UploadAttachment, UploadSource
    <2>2. sheet'.draft = {} /\ sheet'.source = sheet.source + 1 /\ sheet'.clean = FALSE
      BY <2>1, UploadedSheet
    <2>q. QED BY <1>1, <2>2 DEF UploadAttachment, UploadSource, DraftLeaves
  <1>3. \A r \in Run : Superseded(run[r]) = run[r]
    BY <1>1 DEF Quiet, Superseded
  <1>4. CASE UploadAttachment(e)
    <2>1. RunsMove
      BY <1>3, <1>4 DEF UploadAttachment, RunsMove
    <2>q. QED BY <1>2, <2>1 DEF SheetMoves
  <1>5. CASE UploadSource(e, ready, sourceError)
    <2> DEFINE s == <<sheet.source + 1, 1>>
               trigger == IF sheet.source = 0 THEN "UPLOAD" ELSE "REUPLOAD"
               new == NewRun(trigger, sheet.version + 1)
               failed == [new EXCEPT !.status = "FAILED", !.sourceError = sourceError]
    <2>1. \A r \in Run : run'[r] = IF r # s THEN run[r] ELSE IF ready THEN new ELSE failed
      BY <1>3, <1>5 DEF UploadSource
    <2>2. sheet.source \in Nat /\ sheet.version + 1 \in Nat
      BY DEF TypeOK, SheetRow
    <2>3. new \in RunRow /\ new.trigger # "MANUAL_RETRY"
      BY <2>2, NewRow DEF NewRun
    <2>4. failed \in RunRow /\ failed.trigger # "MANUAL_RETRY"
      <3> HIDE DEF new
      <3>q. QED BY <2>3 DEF RunRow
    <2>5. s \in Run => run[s] = NoRun
      BY <2>2 DEF RunInv, RunsOfSources, Started
    <2> HIDE DEF new, failed
    <2>6. RunsMove
      BY <2>1, <2>3, <2>4, <2>5 DEF RunsMove, Created
    <2>q. QED BY <1>2, <2>6 DEF SheetMoves
  <1>q. QED BY <1>4, <1>5

LEMMA LeaseMoves ==
  ASSUME TypeOK, NEW e \in Editor, Acquire(e) \/ TakeOver(e) \/ LeaseEnds
  PROVE  SheetMoves
  BY SameMoves DEF Acquire, TakeOver, LeaseEnds, SheetMoves, DraftStays

(* Whoever may edit holds the lease, and no recognition is under way. *)
LEMMA EditingIsQuiet ==
  ASSUME RunInv, NEW e \in Editor, MayEdit(e)
  PROVE  Quiet /\ editor # Nobody
  BY EditorAssumption, OnlyLatest DEF MayEdit, RunInv

LEMMA EditMoves ==
  ASSUME TypeOK, RunInv, NEW e \in Editor, NEW explicit \in BOOLEAN,
         \/ Save(e, explicit) \/ ReviewRegion(e) \/ ReviewContext(e)
         \/ Validate(e, explicit) \/ Publish(e)
  PROVE  SheetMoves
  <1>1. RunsMove /\ revision \subseteq revision'
    BY SameMoves DEF Save, ReviewRegion, ReviewContext, Validate, Publish
  <1>2. CASE Save(e, explicit) \/ ReviewContext(e)
    <2>1. Quiet /\ editor # Nobody
      BY <1>2, EditingIsQuiet DEF Save, ReviewContext
    <2>2. sheet' = Redrafted(sheet.draft \cup {HumanEdit(sheet.version + 1)}, "DRAFT")
      BY <1>2 DEF Save, ReviewContext
    <2>3. /\ sheet'.draft = sheet.draft \cup {HumanEdit(sheet.version + 1)}
          /\ sheet'.source = sheet.source /\ sheet'.clean = FALSE
      BY <2>2, RedraftedSheet
    <2>4. HumanEdit(sheet.version + 1)[1] = 0
      BY DEF HumanEdit
    <2>5. DraftGrows
      <3> DEFINE added == HumanEdit(sheet.version + 1)
      <3>1. sheet'.draft = sheet.draft \cup {added} /\ added[1] = 0
        BY <2>3, <2>4
      <3> HIDE DEF added
      <3>q. QED BY <2>1, <2>3, <3>1 DEF DraftGrows
    <2>q. QED BY <1>1, <2>5 DEF SheetMoves
  <1>3. CASE ReviewRegion(e)
    BY <1>1, <1>3, StatusSheet DEF ReviewRegion, SheetMoves
  <1>4. CASE Validate(e, explicit)
    <2>1. /\ sheet'.draft = sheet.draft /\ sheet'.source = sheet.source
          /\ sheet'.clean = explicit /\ (explicit => sheet.draft \in revision')
      BY <1>4 DEF Validate, TypeOK, SheetRow
    <2>q. QED BY <1>1, <2>1 DEF SheetMoves, DraftStays
  <1>5. CASE Publish(e)
    <2>1. sheet'.draft = sheet.draft /\ sheet'.source = sheet.source /\ sheet'.clean = sheet.clean
      BY <1>5 DEF Publish, TypeOK, SheetRow
    <2>q. QED BY <1>1, <2>1 DEF SheetMoves, DraftStays
  <1>q. QED BY <1>2, <1>3, <1>4, <1>5

LEMMA ApplyMoves ==
  ASSUME TypeOK, RunInv, NEW e \in Editor, NEW r \in Run, ApplyRegions(e, r)
  PROVE  SheetMoves
  <1>1. /\ run[r] \in RunRow /\ Started(r) /\ run[r].status = "SUCCEEDED"
        /\ run[r].applied = 0 /\ r[1] = sheet.source
    BY StartedRow DEF ApplyRegions, MayApply
  <1> DEFINE row == [run[r] EXCEPT !.applied = sheet'.version]
  <1>2. run' = [run EXCEPT ![r] = row]
    BY DEF ApplyRegions, TypeOK
  <1>3. /\ row.status = run[r].status /\ row.trigger = run[r].trigger
        /\ row.resultOnly = run[r].resultOnly /\ row.attempts = run[r].attempts
        /\ row.applied = sheet'.version
    BY <1>1 DEF RunRow
  <1> HIDE DEF row
  <1>4. Moved(run[r], row)
    BY <1>1, <1>3 DEF Moved, Pending, NoRun
  <1>5. RunsMove /\ run'[r] = row
    BY <1>1, <1>2, <1>4, OneRowMoves
  <1>6. CASE UNCHANGED <<sheet, revision>>
    BY <1>5, <1>6 DEF SheetMoves, DraftStays
  <1>7. CASE sheet' = Redrafted(sheet.draft \cup {r}, "DRAFT") /\ revision' = revision \cup {sheet'.draft}
    <2>1. Quiet /\ editor # Nobody
      BY EditingIsQuiet DEF ApplyRegions
    <2>2. sheet'.version # 0
      BY <1>7, RunIsPair, TypeParts, RedraftedRow
    <2>3. Taken(r)'
      BY <1>1, <1>3, <1>5, <2>2 DEF Taken
    <2>4. sheet'.draft = sheet.draft \cup {r} /\ sheet'.source = sheet.source /\ sheet'.clean = FALSE
      BY <1>7, RedraftedSheet
    <2>5. DraftGrows
      BY <1>1, <2>1, <2>3, <2>4 DEF DraftGrows
    <2>q. QED BY <1>5, <1>7, <2>5 DEF SheetMoves
  <1>q. QED BY <1>6, <1>7 DEF ApplyRegions

LEMMA RetryMoves ==
  ASSUME TypeOK, RunInv, NEW e \in Editor, RetryRecognition(e)
  PROVE  SheetMoves
  <1>1. PICK s \in Run :
          /\ sheet'.source = s[1] /\ sheet.source <= s[1]
          /\ ~ Started(s) /\ \A r \in Run : ~ IsActive(r)
          /\ \A r \in Run : Started(r) /\ r[1] = s[1] => r[2] <= s[2]
          /\ run'[s] \in RunRow /\ ~ run'[s].resultOnly
          /\ \A r \in Run \ {s} : run'[r] = run[r]
    BY RetryKind DEF Starting
  <1>2. revision \subseteq revision' /\ sheet.draft \in revision'
    BY DEF RetryRecognition, Kept
  <1>3. DraftStays
    BY <1>2, StatusSheet DEF RetryRecognition
  <1>4. RunsMove
    BY <1>1, <1>2, <1>3 DEF RunsMove, Created, DraftStays, Started
  <1>q. QED BY <1>2, <1>3, <1>4 DEF SheetMoves

LEMMA StopMoves ==
  ASSUME TypeOK, NEW status \in {"SCHEDULED", "COMPLETED"} \cup NotRequired,
         ReconcileGame(status) \/ CorrectGame(status)
  PROVE  SheetMoves
  <1>1. revision \subseteq revision'
    BY DEF ReconcileGame, CorrectGame
  <1>2. DraftStays
    <2>1. CASE ReconcileGame(status)
      <3>1. PICK n : sheet' = [Redrafted(sheet.draft, "DRAFT") EXCEPT !.current = n]
        BY <2>1 DEF ReconcileGame
      <3>2. sheet'.draft = sheet.draft /\ sheet'.source = sheet.source /\ sheet'.clean = FALSE
        BY <3>1, RedraftedSheet
      <3>q. QED BY <3>2 DEF DraftStays
    <2>2. CASE CorrectGame(status)
      BY <2>2 DEF CorrectGame, Withdrawn, DraftStays, TypeOK, SheetRow
    <2>q. QED BY <2>1, <2>2
  <1>3. RunsMove
    <2>1. CASE run' = run
      BY <2>1, SameMoves
    <2>2. CASE run' = [r \in Run |-> Stopped(run[r])]
      <3>1. ASSUME NEW r \in Run, run[r] # NoRun
            PROVE  run'[r] = run[r] \/ Moved(run[r], run'[r])
        <4>1. run[r] \in RunRow /\ run'[r] = Stopped(run[r])
          BY <2>2, <3>1 DEF TypeOK
        <4>2. CASE run[r].status \notin Active
          BY <4>1, <4>2 DEF Stopped
        <4>3. CASE run[r].status \in Active
          <5>1. /\ Stopped(run[r]).trigger = run[r].trigger
                /\ Stopped(run[r]).attempts = run[r].attempts /\ Stopped(run[r]).resultOnly
            <6>1. Stopped(run[r]) = IF run[r].status = "RUNNING"
                    THEN [run[r] EXCEPT !.resultOnly = TRUE]
                    ELSE [run[r] EXCEPT !.status = "STOPPED", !.resultOnly = TRUE]
              BY <4>3 DEF Stopped
            <6>q. QED BY <4>1, <6>1 DEF RunRow
          <5>2. run[r].status # "SUCCEEDED" /\ Stopped(run[r]) # NoRun
            BY <4>1, <4>3, <3>1, StoppedRow, NoRunIsNoRow DEF Active
          <5>q. QED BY <4>1, <5>1, <5>2 DEF Moved, Pending
        <4>q. QED BY <4>2, <4>3
      <3>2. ASSUME NEW r \in Run, run[r] = NoRun
            PROVE  run'[r] = run[r]
        BY <2>2, <3>2, StoppedRow
      <3>q. QED BY <3>1, <3>2 DEF RunsMove, Started
    <2>q. QED BY <2>1, <2>2 DEF ReconcileGame, CorrectGame
  <1>q. QED BY <1>1, <1>2, <1>3 DEF SheetMoves

LEMMA ClaimMoves ==
  ASSUME TypeOK, NEW w \in Worker, NEW r \in Run, ClaimRun(w, r) \/ CloseRun(w, r)
  PROVE  SheetMoves
  <1>1. run[r] \in RunRow /\ Started(r) /\ run[r].status \in Active
    BY StartedRow DEF ClaimRun, CloseRun, Claimable, NoRun, TypeOK, Started, Active
  <1>2. CASE ClaimRun(w, r)
    <2> DEFINE row == [run[r] EXCEPT !.status = "RUNNING", !.attempts = run[r].attempts + 1,
                                     !.token = run[r].attempts + 1, !.live = TRUE]
    <2>1. ~ run[r].resultOnly /\ run[r].attempts + 1 \in Nat
      BY <1>1, <1>2, AttemptAssumption DEF ClaimRun, MayCall, RunRow
    <2>2. row.status = "RUNNING" /\ row.trigger = run[r].trigger
      BY <1>1, <2>1 DEF RunRow
    <2>3. run' = [run EXCEPT ![r] = row]
      BY <1>2 DEF ClaimRun
    <2> HIDE DEF row
    <2>4. Moved(run[r], row)
      BY <1>1, <2>1, <2>2 DEF Moved, Pending, NoRun, Active
    <2>5. RunsMove
      BY <1>1, <2>3, <2>4, OneRowMoves
    <2>6. DraftStays /\ revision \subseteq revision'
      BY <1>2, StatusSheet DEF ClaimRun
    <2>q. QED BY <2>5, <2>6 DEF SheetMoves
  <1>3. CASE CloseRun(w, r)
    <2>1. PICK row : run' = [run EXCEPT ![r] = row] /\ Moved(run[r], row)
      BY <1>1, <1>3, EndedMoves DEF CloseRun
    <2>2. RunsMove
      BY <1>1, <2>1, OneRowMoves
    <2>q. QED BY <1>3, <2>2 DEF CloseRun, SheetMoves, DraftStays
  <1>q. QED BY <1>2, <1>3

LEMMA StartMoves ==
  ASSUME TypeOK, NEW w \in Worker, StartCall(w)
  PROVE  SheetMoves
  <1>1. RunsMove
    <2>1. CASE UNCHANGED run
      BY <2>1, SameMoves
    <2>2. CASE Holds(w) /\ run' = [run EXCEPT ![claim[w].run] = EvidenceOnly(run[claim[w].run], "FAILED")]
      <3>1. /\ claim[w].run \in Run /\ run[claim[w].run] \in RunRow
            /\ Started(claim[w].run) /\ run[claim[w].run].status \in Active
        BY <2>2, HeldRow DEF Holds, Active
      <3>q. QED BY <2>2, <3>1, EndedMoves, OneRowMoves
    <2>q. QED BY <2>1, <2>2 DEF StartCall
  <1>q. QED BY <1>1 DEF StartCall, SheetMoves, DraftStays

LEMMA FinishMoves ==
  ASSUME TypeOK, NEW w \in Worker, Finish(w)
  PROVE  SheetMoves
  <1> DEFINE r == claim[w].run
  <1>1. ASSUME Holds(w)
        PROVE  r \in Run /\ run[r] \in RunRow /\ Started(r) /\ run[r].status \in Active
    BY <1>1, HeldRow DEF Holds, Active
  <1>2. ASSUME CallMatters(w)
        PROVE  /\ Holds(w) /\ ~ run[r].resultOnly /\ r[1] = sheet.source /\ Pending(run[r])
    BY <1>1, <1>2 DEF CallMatters, MayCall, Targets, IsLatest, Pending
  <1>3. ASSUME NEW status \in {"SUCCEEDED", "FAILED"}, CallIsMoot(w, status)
        PROVE  SheetMoves
    <2>1. CASE UNCHANGED run
      BY <1>3, <2>1, SameMoves DEF CallIsMoot, SheetMoves, DraftStays
    <2>2. CASE /\ Holds(w)
               /\ \/ run' = [run EXCEPT ![r] = EvidenceOnly(run[r], status)]
                  \/ run' = [run EXCEPT ![r] = Ended(run[r], "SUPERSEDED")]
      <3>1. PICK row : run' = [run EXCEPT ![r] = row] /\ Moved(run[r], row)
        BY <1>1, <1>3, <2>2, EndedMoves
      <3>2. RunsMove
        BY <1>1, <2>2, <3>1, OneRowMoves
      <3>q. QED BY <1>3, <3>2 DEF CallIsMoot, SheetMoves, DraftStays
    <2>q. QED BY <1>3, <2>1, <2>2 DEF CallIsMoot
  <1>4. ASSUME CallMatters(w), Succeed(w), Untouched(r)
        PROVE  SheetMoves
    <2> PICK q \in Run : q = r
      BY <1>1, <1>2, <1>4
    <2>0. /\ run[q] \in RunRow /\ Started(q) /\ run[q].status \in Active
          /\ q[1] = sheet.source /\ Pending(run[q])
      BY <1>1, <1>2, <1>4
    <2> DEFINE draft == (IF run[q].trigger = "MANUAL_RETRY" THEN {} ELSE sheet.draft) \cup {q}
               row == [Ended(run[q], "SUCCEEDED") EXCEPT !.applied = sheet'.version]
    <2>1. /\ sheet' = Redrafted(draft, "DRAFT") /\ revision' = revision \cup {draft}
          /\ run' = [run EXCEPT ![q] = row]
      BY <1>4 DEF Succeed
    <2>2. draft \in SUBSET (Int \X Int)
      BY RunIsPair, TypeParts
    <2>3. /\ sheet'.draft = draft /\ sheet'.source = sheet.source /\ sheet'.clean = FALSE
      BY <2>1, RedraftedSheet
    <2>4. sheet'.version # 0
      BY <2>1, <2>2, TypeParts, RedraftedRow
    <2>5. Moved(run[q], row)
      BY <2>0, EndedMoves
    <2>6. row.status = "SUCCEEDED" /\ row.applied = sheet'.version
      <3>1. Ended(run[q], "SUCCEEDED") \in RunRow /\ Ended(run[q], "SUCCEEDED").status = "SUCCEEDED"
        BY <2>0, EndedRow
      <3>q. QED BY <3>1 DEF RunRow
    <2> HIDE DEF row
    <2>7. RunsMove /\ run'[q] = row
      BY <2>0, <2>1, <2>5, OneRowMoves
    <2>8. Taken(q)'
      BY <2>4, <2>6, <2>7 DEF Taken
    <2>9. sheet'.draft = sheet.draft \cup {q} \/ (run[q].trigger = "MANUAL_RETRY" /\ sheet'.draft = {q})
      BY <2>3
    <2>10. DraftMerges
      BY <2>0, <2>3, <2>8, <2>9 DEF DraftMerges
    <2>q. QED BY <2>1, <2>7, <2>10 DEF SheetMoves
  <1>5. ASSUME CallMatters(w), Succeed(w), ~ Untouched(r)
        PROVE  SheetMoves
    <2>1. RunsMove
      BY <1>1, <1>2, <1>5, EndedMoves, OneRowMoves DEF Succeed
    <2>2. DraftStays /\ revision \subseteq revision'
      BY <1>5, StatusSheet DEF Succeed
    <2>q. QED BY <2>1, <2>2 DEF SheetMoves
  <1>6. ASSUME NEW retryable \in BOOLEAN, NEW sourceError \in BOOLEAN,
               CallMatters(w), Fail(w, retryable, sourceError)
        PROVE  SheetMoves
    <2>1. PICK row : run' = [run EXCEPT ![r] = row] /\ Moved(run[r], row)
      BY <1>1, <1>2, <1>6, EndedMoves DEF Fail
    <2>2. RunsMove
      BY <1>1, <1>2, <1>6, <2>1, OneRowMoves
    <2>3. DraftStays /\ revision \subseteq revision'
      BY <1>6, StatusSheet DEF Fail
    <2>q. QED BY <2>2, <2>3 DEF SheetMoves
  <1>q. QED BY <1>3, <1>4, <1>5, <1>6 DEF Finish

LEMMA LiveMoves ==
  ASSUME TypeOK, NEW r \in Run, run[r].status = "RUNNING", NEW live,
         run' = [run EXCEPT ![r].live = live], UNCHANGED <<sheet, revision>>
  PROVE  SheetMoves
  <1>1. run[r] \in RunRow /\ Started(r)
    BY StartedRow
  <1> DEFINE row == [run[r] EXCEPT !.live = live]
  <1>2. /\ row.status = run[r].status /\ row.trigger = run[r].trigger
        /\ row.resultOnly = run[r].resultOnly /\ row.attempts = run[r].attempts
    BY <1>1 DEF RunRow
  <1>3. run' = [run EXCEPT ![r] = row]
    BY DEF TypeOK
  <1> HIDE DEF row
  <1>4. Moved(run[r], row)
    BY <1>2 DEF Moved, Pending, NoRun
  <1>q. QED BY <1>1, <1>3, <1>4, OneRowMoves DEF SheetMoves, DraftStays

LEMMA StepMoves ==
  ASSUME TypeOK, RunInv, [Next]_vars
  PROVE  SheetMoves
  <1>1. CASE EditorStep
    <2>1. PICK e \in Editor :
            \/ UploadAttachment(e)
            \/ \E ready, sourceError \in BOOLEAN : UploadSource(e, ready, sourceError)
            \/ Acquire(e) \/ TakeOver(e)
            \/ \E explicit \in BOOLEAN : Save(e, explicit)
            \/ ReviewRegion(e) \/ ReviewContext(e)
            \/ \E r \in Run : ApplyRegions(e, r)
            \/ \E clean \in BOOLEAN : Validate(e, clean)
            \/ Publish(e) \/ RetryRecognition(e)
      BY <1>1 DEF EditorStep, LeaseCommand, DraftCommand, PublicationCommand
    <2>2. CASE UploadAttachment(e) \/ \E ready, sourceError \in BOOLEAN : UploadSource(e, ready, sourceError)
      BY <2>2, UploadMoves
    <2>3. CASE Acquire(e) \/ TakeOver(e)
      BY <2>3, LeaseMoves
    <2>4. CASE \/ ReviewRegion(e) \/ ReviewContext(e) \/ Publish(e)
               \/ \E explicit \in BOOLEAN : Save(e, explicit) \/ Validate(e, explicit)
      BY <2>4, EditMoves
    <2>5. CASE \E r \in Run : ApplyRegions(e, r)
      BY <2>5, ApplyMoves
    <2>6. CASE RetryRecognition(e)
      BY <2>6, RetryMoves
    <2>q. QED BY <2>1, <2>2, <2>3, <2>4, <2>5, <2>6
  <1>2. CASE LeaseEnds \/ UNCHANGED vars
    BY <1>2, SameMoves DEF LeaseEnds, vars, SheetMoves, DraftStays
  <1>3. CASE GameStep
    BY <1>3, StopMoves DEF GameStep
  <1>4. ASSUME NEW w \in Worker, WorkerStep(w)
        PROVE  SheetMoves
    <2>1. CASE Crash(w)
      BY <2>1, SameMoves DEF Crash, SheetMoves, DraftStays
    <2>2. CASE Renew(w)
      BY <2>2, HeldRow, LiveMoves DEF Renew, Holds
    <2>q. QED BY <1>4, <2>1, <2>2, ClaimMoves, StartMoves, FinishMoves DEF WorkerStep
  <1>5. ASSUME NEW r \in Run, WorkerLeaseLapses(r)
        PROVE  SheetMoves
    BY <1>5, LiveMoves DEF WorkerLeaseLapses
  <1>q. QED BY <1>1, <1>2, <1>3, <1>4, <1>5 DEF Next

-----------------------------------------------------------------------------
(* What the draft contains. *)

(* What was recognised in the draft comes from runs of the present         *)
(* photograph, whose outcome was recorded as applied.                      *)
DraftOfRuns ==
  \A r \in Results(sheet.draft) : r \in Run /\ r[1] = sheet.source /\ Taken(r)

(* A draft found free of errors was kept when it was found so. *)
CleanIsKept == sheet.clean => sheet.draft \in revision

(* The draft that a retry may replace was kept when it was asked for. *)
RetryIsSafe ==
  \A r \in Run : Pending(run[r]) /\ run[r].trigger = "MANUAL_RETRY" => sheet.draft \in revision

DraftInv == DraftOfRuns /\ CleanIsKept /\ RetryIsSafe

LEMMA TakenStays ==
  ASSUME RunsMove, NEW r \in Run, Taken(r)
  PROVE  Taken(r)'
  BY DEF RunsMove, Moved, Taken, NoRun

LEMMA DraftOfRunsStep ==
  ASSUME DraftOfRuns, SheetMoves
  PROVE  DraftOfRuns'
  <1> SUFFICES ASSUME NEW r \in sheet'.draft, r[1] # 0
               PROVE  r \in Run /\ r[1] = sheet'.source /\ Taken(r)'
    BY DEF DraftOfRuns, Results, Edits
  <1>1. ASSUME r \in sheet.draft
        PROVE  r \in Run /\ r[1] = sheet.source /\ Taken(r)'
    BY <1>1, TakenStays DEF DraftOfRuns, Results, Edits, SheetMoves
  <1>q. QED BY <1>1 DEF SheetMoves, DraftStays, DraftGrows, DraftLeaves, DraftMerges

LEMMA CleanIsKeptStep ==
  ASSUME CleanIsKept, SheetMoves
  PROVE  CleanIsKept'
  BY DEF CleanIsKept, SheetMoves, DraftStays, DraftGrows, DraftLeaves, DraftMerges

LEMMA RetryIsSafeStep ==
  ASSUME RunInv, RetryIsSafe, SheetMoves
  PROVE  RetryIsSafe'
  <1> SUFFICES ASSUME NEW r \in Run, Pending(run'[r]), run'[r].trigger = "MANUAL_RETRY"
               PROVE  sheet'.draft \in revision'
    BY DEF RetryIsSafe, Pending
  <1>1. CASE Created(run'[r])
    BY <1>1 DEF Created
  <1>2. CASE Pending(run[r]) /\ run[r].trigger = "MANUAL_RETRY"
    <2>1. sheet.draft \in revision'
      BY <1>2 DEF RetryIsSafe, SheetMoves
    <2>2. ~ DraftGrows /\ ~ DraftLeaves
      BY <1>2 DEF DraftGrows, DraftLeaves, Quiet
    <2>3. ~ DraftMerges
      <3> SUFFICES ASSUME NEW q \in Run, Pending(run[q]), Taken(q)'
                   PROVE  FALSE
        BY DEF DraftMerges
      <3>1. q = r
        BY <1>2 DEF RunInv, OneActive, IsActive, Pending
      <3>q. QED BY <3>1 DEF Taken, Pending, Active
    <2>q. QED BY <2>1, <2>2, <2>3 DEF SheetMoves, DraftStays
  <1>q. QED BY <1>1, <1>2 DEF SheetMoves, RunsMove, Moved

LEMMA DraftInvHolds == Spec => []DraftInv
  <1>1. Init => DraftInv
    BY DEF Init, DraftInv, DraftOfRuns, CleanIsKept, RetryIsSafe, Results, Pending, NoRun, Active
  <1>2. TypeOK /\ RunInv /\ DraftInv /\ [Next]_vars => DraftInv'
    BY StepMoves, DraftOfRunsStep, CleanIsKeptStep, RetryIsSafeStep DEF DraftInv
  <1>q. QED BY <1>1, <1>2, InvHolds, PTL DEF Spec, Inv

(* Late results are isolated: whatever is in the draft was recognised from *)
(* the photograph the sheet shows now, by a run that succeeded and is      *)
(* recorded as applied (_complete_success, apply_recognition_regions).     *)
THEOREM DraftIsFromItsSource == Spec => []DraftIsOfItsSource
  <1>1. DraftInv => DraftIsOfItsSource
    BY DEF DraftInv, DraftOfRuns, DraftIsOfItsSource, Taken
  <1>q. QED BY <1>1, DraftInvHolds, PTL

(* Nothing slips in between validate_scoresheet and publish_scoresheet:    *)
(* what is published is a draft kept when it was found free of errors.     *)
THEOREM PublicationsWereKept == Spec => PublishedAsChecked
  <1> DEFINE Checked == publication' # publication => sheet.draft \in revision
  <1>1. ASSUME DraftInv, [Next]_vars, publication' # publication
        PROVE  sheet.draft \in revision
    <2>1. \E e \in Editor : Publish(e)
      BY <1>1 DEF Next, EditorStep, LeaseCommand, DraftCommand, PublicationCommand,
         UploadAttachment, UploadSource, Acquire, TakeOver, LeaseEnds, Save, ReviewRegion,
         ReviewContext, ApplyRegions, Validate, RetryRecognition, GameStep, ReconcileGame,
         CorrectGame, WorkerStep, ClaimRun, CloseRun, StartCall, Finish, Crash, Renew,
         WorkerLeaseLapses, vars
    <2>q. QED BY <1>1, <2>1 DEF Publish, Publishable, DraftInv, CleanIsKept
  <1>2. DraftInv /\ [Next]_vars => [Checked]_vars
    BY <1>1
  <1> HIDE DEF Checked
  <1>3. Spec => [][Checked]_vars
    BY <1>2, DraftInvHolds, PTL DEF Spec
  <1>q. QED BY <1>3 DEF Checked, PublishedAsChecked

(* Nobody's edits are lost: they leave the draft with the photograph they  *)
(* are about, or into a revision that retry_recognition keeps before the   *)
(* recognition may replace the draft.                                      *)
THEOREM NoEditIsLost == Spec => HumanWorkKept
  <1> DEFINE WorkKept ==
        \A edit \in Edits(sheet.draft) \ sheet'.draft :
          \/ sheet'.source # sheet.source
          \/ \E draft \in revision : Edits(sheet.draft) \subseteq draft
  <1>1. ASSUME TypeOK, RunInv, DraftInv, [Next]_vars
        PROVE  WorkKept
    <2> SUFFICES ASSUME NEW edit \in Edits(sheet.draft), edit \notin sheet'.draft,
                        sheet'.source = sheet.source
                 PROVE  \E draft \in revision : Edits(sheet.draft) \subseteq draft
      OBVIOUS
    <2>1. SheetMoves /\ edit \in sheet.draft /\ sheet.source \in Nat
      BY <1>1, StepMoves DEF Edits, TypeOK, SheetRow
    <2>2. DraftMerges
      BY <2>1 DEF SheetMoves, DraftStays, DraftGrows, DraftLeaves
    <2>3. sheet.draft \in revision
      BY <1>1, <2>1, <2>2 DEF DraftMerges, DraftInv, RetryIsSafe
    <2>q. QED BY <2>3 DEF Edits
  <1>2. TypeOK /\ RunInv /\ DraftInv /\ [Next]_vars => [WorkKept]_vars
    BY <1>1
  <1> HIDE DEF WorkKept
  <1>3. Spec => [][WorkKept]_vars
    BY <1>2, DraftInvHolds, InvHolds, PTL DEF Spec, Inv
  <1>q. QED BY <1>3 DEF WorkKept, HumanWorkKept

(* A run stopped by a forfeit or a voided game stays evidence: no worker   *)
(* sends it again, and its result enters the draft only when an editor     *)
(* takes it over (_finish_result_only, claim_next_run).                    *)
THEOREM EvidenceIsNeverSent == Spec => EvidenceStaysEvidence
  <1> DEFINE Stays ==
        \A r \in Run : run[r].resultOnly =>
          /\ run'[r].resultOnly /\ run'[r].attempts = run[r].attempts
          /\ r \in sheet'.draft \ sheet.draft => editor # Nobody
  <1>1. ASSUME TypeOK, RunInv, [Next]_vars
        PROVE  Stays
    <2> SUFFICES ASSUME NEW r \in Run, run[r].resultOnly
                 PROVE  /\ run'[r].resultOnly /\ run'[r].attempts = run[r].attempts
                        /\ r \in sheet'.draft \ sheet.draft => editor # Nobody
      OBVIOUS
    <2>1. SheetMoves
      BY <1>1, StepMoves
    <2>2. run'[r].resultOnly /\ run'[r].attempts = run[r].attempts
      BY <2>1 DEF SheetMoves, RunsMove, Moved, NoRun
    <2>3. ~ Pending(run[r])
      BY DEF Pending
    <2>4. ASSUME r \in sheet'.draft \ sheet.draft
          PROVE  editor # Nobody
      BY <2>1, <2>3, <2>4 DEF SheetMoves, DraftStays, DraftGrows, DraftLeaves, DraftMerges
    <2>q. QED BY <2>2, <2>4
  <1>2. TypeOK /\ RunInv /\ [Next]_vars => [Stays]_vars
    BY <1>1
  <1> HIDE DEF Stays
  <1>3. Spec => [][Stays]_vars
    BY <1>2, InvHolds, PTL DEF Spec, Inv
  <1>q. QED BY <1>3 DEF Stays, EvidenceStaysEvidence
-----------------------------------------------------------------------------
(* What the public sees. *)

(* A step that publishes nothing leaves the pointer or withdraws it, and   *)
(* the sheet is PUBLISHED after it only if nothing of it changed.          *)
PublicStays ==
  /\ publication' = publication
  /\ sheet'.current # 0 => sheet'.current = sheet.current /\ game' = game
  /\ sheet'.status = "PUBLISHED" => sheet' = sheet

LEMMA HiddenStays ==
  ASSUME publication' = publication, game' = game,
         sheet'.current = sheet.current, sheet'.status # "PUBLISHED"
  PROVE  PublicStays
  BY DEF PublicStays

LEMMA SameSheetStays ==
  ASSUME UNCHANGED <<sheet, publication, game>>
  PROVE  PublicStays
  BY DEF PublicStays

(* Every rewriting of the sheet but the one of Publish hides it. *)
LEMMA RewrittenIsHidden ==
  ASSUME TypeOK, NEW draft, NEW source, NEW status, status # "PUBLISHED",
         \/ sheet' = Redrafted(draft, status)
         \/ sheet' = [Redrafted(draft, status) EXCEPT !.source = source]
         \/ sheet' = [sheet EXCEPT !.status = status]
  PROVE  sheet'.current = sheet.current /\ sheet'.status # "PUBLISHED"
  <1> DEFINE redrafted == Redrafted(draft, status)
  <1>1. sheet \in SheetRow
    BY DEF TypeOK
  <1>2. /\ redrafted.current = sheet.current /\ redrafted.status = status
        /\ [redrafted EXCEPT !.source = source].current = sheet.current
        /\ [redrafted EXCEPT !.source = source].status = status
    BY <1>1 DEF SheetRow, Redrafted
  <1>3. /\ [sheet EXCEPT !.status = status].current = sheet.current
        /\ [sheet EXCEPT !.status = status].status = status
    BY <1>1 DEF SheetRow
  <1> HIDE DEF redrafted
  <1>q. QED BY <1>2, <1>3 DEF redrafted

LEMMA EditPublic ==
  ASSUME TypeOK, NEW e \in Editor, NEW one \in BOOLEAN, NEW other \in BOOLEAN,
         \/ UploadAttachment(e) \/ UploadSource(e, one, other)
         \/ Save(e, one) \/ ReviewRegion(e) \/ ReviewContext(e) \/ Validate(e, one)
         \/ RetryRecognition(e)
  PROVE  PublicStays
  <1>1. publication' = publication /\ game' = game
    BY DEF UploadAttachment, UploadSource, Save, ReviewRegion, ReviewContext, Validate,
       RetryRecognition
  <1>2. CASE UploadAttachment(e) \/ UploadSource(e, one, other)
    <2>1. PICK status : /\ status # "PUBLISHED"
                        /\ sheet' = [Redrafted({}, status) EXCEPT !.source = sheet.source + 1]
      BY <1>2 DEF UploadAttachment, UploadSource
    <2>q. QED BY <1>1, <2>1, RewrittenIsHidden, HiddenStays
  <1>3. CASE Save(e, one) \/ ReviewContext(e)
    <2>1. sheet' = Redrafted(sheet.draft \cup {HumanEdit(sheet.version + 1)}, "DRAFT")
      BY <1>3 DEF Save, ReviewContext
    <2>q. QED BY <1>1, <2>1, RewrittenIsHidden, HiddenStays
  <1>4. CASE ReviewRegion(e) \/ RetryRecognition(e)
    BY <1>1, <1>4, RewrittenIsHidden, HiddenStays DEF ReviewRegion, RetryRecognition
  <1>5. CASE Validate(e, one)
    <2>1. sheet'.current = sheet.current /\ sheet'.status # "PUBLISHED"
      BY <1>5 DEF Validate, TypeOK, SheetRow
    <2>q. QED BY <1>1, <2>1, HiddenStays
  <1>q. QED BY <1>2, <1>3, <1>4, <1>5

LEMMA ApplyPublic ==
  ASSUME TypeOK, NEW e \in Editor, NEW r \in Run, ApplyRegions(e, r)
  PROVE  PublicStays
  <1>1. publication' = publication /\ game' = game
    BY DEF ApplyRegions
  <1>2. CASE sheet' = Redrafted(sheet.draft \cup {r}, "DRAFT")
    BY <1>1, <1>2, RewrittenIsHidden, HiddenStays
  <1>3. CASE UNCHANGED sheet
    BY <1>1, <1>3, SameSheetStays
  <1>q. QED BY <1>2, <1>3 DEF ApplyRegions

(* A game without a score shows nothing, and one that gets its score back  *)
(* shows nothing yet.                                                      *)
LEMMA GamePublic ==
  ASSUME TypeOK, PublicIsChecked, NEW status \in {"SCHEDULED", "COMPLETED"} \cup NotRequired,
         ReconcileGame(status) \/ CorrectGame(status)
  PROVE  PublicStays
  <1>1. publication' = publication
    BY DEF ReconcileGame, CorrectGame
  <1>2. CASE ReconcileGame(status)
    <2>1. /\ sheet'.current = IF status \in NotRequired THEN 0 ELSE sheet.current
          /\ sheet'.status # "PUBLISHED"
      BY <1>2 DEF ReconcileGame, Redrafted, TypeOK, SheetRow
    <2>2. status \notin NotRequired => game = "FORFEIT"
      BY <1>2 DEF ReconcileGame, Reconciles, NotRequired
    <2>q. QED BY <1>1, <2>1, <2>2 DEF PublicStays, PublicIsChecked
  <1>3. CASE CorrectGame(status)
    <2>1. CASE sheet.current = 0
      BY <1>1, <1>3, <2>1 DEF CorrectGame, PublicStays
    <2>2. CASE sheet.current # 0
      BY <1>1, <1>3, <2>2 DEF CorrectGame, Withdrawn, PublicStays, TypeOK, SheetRow
    <2>q. QED BY <2>1, <2>2
  <1>q. QED BY <1>2, <1>3

LEMMA WorkerPublic ==
  ASSUME TypeOK, NEW w \in Worker, WorkerStep(w)
  PROVE  PublicStays
  <1>1. publication' = publication /\ game' = game
    BY DEF WorkerStep, ClaimRun, CloseRun, StartCall, Finish, Crash, Renew
  <1>2. CASE UNCHANGED sheet
    BY <1>1, <1>2, SameSheetStays
  <1>3. CASE \E draft, status : /\ status # "PUBLISHED"
                               /\ \/ sheet' = Redrafted(draft, status)
                                  \/ sheet' = [sheet EXCEPT !.status = status]
    BY <1>1, <1>3, RewrittenIsHidden, HiddenStays
  <1>4. CASE \E r \in Run : ClaimRun(w, r)
    BY <1>3, <1>4 DEF ClaimRun
  <1>5. CASE Finish(w)
    <2>1. CASE Succeed(w)
      BY <1>3, <2>1 DEF Succeed
    <2>2. CASE \E retryable, sourceError \in BOOLEAN : Fail(w, retryable, sourceError)
      BY <1>3, <2>2 DEF Fail
    <2>q. QED BY <1>2, <1>5, <2>1, <2>2 DEF Finish, CallIsMoot
  <1>q. QED BY <1>2, <1>4, <1>5 DEF WorkerStep, CloseRun, StartCall, Crash, Renew

LEMMA PublishChecked ==
  ASSUME TypeOK, NEW e \in Editor, Publish(e)
  PROVE  PublicIsChecked'
  <1> DEFINE shown == [source |-> sheet.source, draft |-> sheet.draft]
             n == Len(publication) + 1
  <1>1. /\ publication' = Append(publication, shown) /\ game' = "COMPLETED"
        /\ sheet'.current = n /\ sheet'.status = "PUBLISHED"
        /\ sheet'.source = sheet.source /\ sheet'.draft = sheet.draft
    BY DEF Publish, TypeOK, SheetRow
  <1>2. publication \in Seq([source : Nat, draft : SUBSET (Int \X Int)]) /\ shown \in [source : Nat, draft : SUBSET (Int \X Int)]
    BY DEF TypeOK, SheetRow
  <1>3. Len(publication') = n /\ n # 0 /\ publication'[n] = shown
    <2> HIDE DEF shown
    <2>q. QED BY <1>1, <1>2
  <1>q. QED BY <1>1, <1>3 DEF PublicIsChecked

LEMMA PublicStep ==
  ASSUME TypeOK, PublicIsChecked, [Next]_vars
  PROVE  PublicIsChecked'
  <1>1. CASE \E e \in Editor : Publish(e)
    BY <1>1, PublishChecked
  <1>2. CASE PublicStays
    <2>1. CASE sheet'.status = "PUBLISHED"
      BY <1>2, <2>1 DEF PublicStays, PublicIsChecked
    <2>2. CASE sheet'.status # "PUBLISHED"
      BY <1>2, <2>2 DEF PublicStays, PublicIsChecked
    <2>q. QED BY <2>1, <2>2
  <1>3. CASE EditorStep
    <2>1. CASE \E e \in Editor : LeaseCommand(e)
      BY <1>2, <2>1, SameSheetStays DEF LeaseCommand, Acquire, TakeOver
    <2>2. CASE \E e \in Editor : \E r \in Run : ApplyRegions(e, r)
      BY <1>2, <2>2, ApplyPublic
    <2>3. ASSUME NEW e \in Editor, NEW one \in BOOLEAN, NEW other \in BOOLEAN,
                 \/ UploadAttachment(e) \/ UploadSource(e, one, other)
                 \/ Save(e, one) \/ ReviewRegion(e) \/ ReviewContext(e) \/ Validate(e, one)
                 \/ RetryRecognition(e)
          PROVE  PublicIsChecked'
      BY <1>2, <2>3, EditPublic
    <2>q. QED BY <1>1, <1>3, <2>1, <2>2, <2>3 DEF EditorStep, DraftCommand, PublicationCommand
  <1>4. CASE GameStep
    BY <1>2, <1>4, GamePublic DEF GameStep
  <1>5. CASE \E w \in Worker : WorkerStep(w)
    BY <1>2, <1>5, WorkerPublic
  <1>6. CASE LeaseEnds \/ UNCHANGED vars \/ \E r \in Run : WorkerLeaseLapses(r)
    BY <1>2, <1>6, SameSheetStays DEF LeaseEnds, vars, WorkerLeaseLapses
  <1>q. QED BY <1>3, <1>4, <1>5, <1>6 DEF Next

(* What the public reads is what was checked: while the sheet is PUBLISHED *)
(* its draft is the newest publication, and no publication is shown for a  *)
(* game that is not completed, through every correction, forfeit, upload   *)
(* and recognition (publish_scoresheet, _withdraw_publication and          *)
(* reconcile_scoresheet_game_status).                                      *)
THEOREM PublicReadsWhatWasChecked == Spec => []PublicIsChecked
  <1>1. Init => PublicIsChecked
    BY DEF Init, PublicIsChecked
  <1>q. QED BY <1>1, ScoresheetTyped, PublicStep, PTL DEF Spec
=============================================================================
