----------------------------- MODULE EmailOutbox -----------------------------
(***************************************************************************)
(* The e-mail outbox (core/services/email_outbox.py, process_outbox.py):   *)
(* commands queue one mail per event in their own transaction, and worker  *)
(* processes claim the oldest due mail, hand it to the mail server outside *)
(* any transaction, and record the outcome.  A worker may die in between,  *)
(* and the server may take a mail although the call fails.                 *)
(***************************************************************************)
EXTENDS Integers, FiniteSets

CONSTANTS
  Worker,        \* processes of process_outbox
  Idle,
  MaxMail,       \* bound on the mails queued
  MaxAttempts,   \* max_attempts of a mail (eight)
  MaxCrashes     \* bound on the workers that die

ASSUME OutboxAssumption ==
  /\ MaxMail \in Nat /\ MaxAttempts \in Nat \ {0} /\ MaxCrashes \in Nat
  /\ IsFiniteSet(Worker)

VARIABLES
  mail,        \* the EmailOutbox rows, in the order of their creation
  worker,      \* the mail each process works on, and what came of the call
  delivered,   \* how often the mail server took a mail
  crashes      \* how many workers died

vars == <<mail, worker, delivered, crashes>>

-----------------------------------------------------------------------------
Mail == 1..MaxMail
NoMail == [status |-> "NONE", attempts |-> 0, due |-> FALSE, stale |-> FALSE, reported |-> FALSE]

(* due: next_attempt_at is empty or has come.  stale: SENDING and untouched for        *)
(* fifteen minutes.  reported: superadmins have a task that says it could  *)
(* not be sent.                                                            *)
Row ==
  [status : {"NONE", "PENDING", "SENDING", "SENT", "FAILED"}, attempts : Nat,
   due : BOOLEAN, stale : BOOLEAN, reported : BOOLEAN]
MailRow == {row \in Row : row.stale => row.status = "SENDING"}

Job == [mail : Mail, outcome : {"OPEN", "ACCEPTED", "ERROR"}]

TypeOK ==
  /\ mail \in [Mail -> MailRow]
  /\ worker \in [Worker -> Job \cup {Idle}]
  /\ delivered \in [Mail -> Nat]
  /\ crashes \in 0..MaxCrashes

Init ==
  /\ mail = [m \in Mail |-> NoMail]
  /\ worker = [w \in Worker |-> Idle]
  /\ delivered = [m \in Mail |-> 0]
  /\ crashes = 0

WorksOn(w, m) == worker[w] # Idle /\ worker[w].mail = m

-----------------------------------------------------------------------------
(* enqueue_public_mail; queueing the mail of an event again does nothing.  *)
Enqueue(m) ==
  /\ mail[m].status = "NONE" /\ \A n \in 1..(m - 1) : mail[n].status # "NONE"
  /\ mail' = [mail EXCEPT ![m] = [NoMail EXCEPT !.status = "PENDING", !.due = TRUE]]
  /\ UNCHANGED <<worker, delivered, crashes>>

(* What claim_one does first: the sender is taken to be dead. *)
Recovered(row) ==
  IF row.status = "SENDING" /\ row.stale
  THEN [row EXCEPT !.status = "PENDING", !.due = TRUE, !.stale = FALSE]
  ELSE row

Claimed(row) == [row EXCEPT !.status = "SENDING", !.attempts = row.attempts + 1]

(* claim_one: the oldest due mail; skip_locked passes over a row whose     *)
(* outcome is just being recorded.                                         *)
Due == {m \in Mail : Recovered(mail[m]).status = "PENDING" /\ Recovered(mail[m]).due}
Claim(w) ==
  /\ worker[w] = Idle
  /\ \E m \in Due :
       /\ \A n \in Due : n < m => \E v \in Worker : WorksOn(v, n)
       /\ mail' = [n \in Mail |-> IF n = m THEN Claimed(Recovered(mail[n])) ELSE Recovered(mail[n])]
       /\ worker' = [worker EXCEPT ![w] = [mail |-> m, outcome |-> "OPEN"]]
  /\ UNCHANGED <<delivered, crashes>>

(* send_mail returns or raises; it may raise after the server took it. *)
OutcomeSilent(accepted, noticed) == "ACCEPTED"
Outcome(accepted, noticed) == IF accepted /\ noticed THEN "ACCEPTED" ELSE "ERROR"
Send(w) ==
  /\ worker[w] # Idle /\ worker[w].outcome = "OPEN"
  /\ \E accepted, noticed \in BOOLEAN :
       /\ delivered' = IF accepted
                       THEN [delivered EXCEPT ![worker[w].mail] = delivered[worker[w].mail] + 1]
                       ELSE delivered
       /\ worker' = [worker EXCEPT ![w] =
            [mail |-> worker[w].mail, outcome |-> Outcome(accepted, noticed)]]
  /\ UNCHANGED <<mail, crashes>>

(* record_success and record_failure, whatever became of the row meanwhile *)
RecordSuccess(w) ==
  /\ worker[w] # Idle /\ worker[w].outcome = "ACCEPTED"
  /\ mail' = [mail EXCEPT ![worker[w].mail] =
       [mail[worker[w].mail] EXCEPT !.status = "SENT", !.due = TRUE, !.stale = FALSE]]
  /\ worker' = [worker EXCEPT ![w] = Idle]
  /\ UNCHANGED <<delivered, crashes>>

Refused(row) ==
  IF row.attempts >= MaxAttempts
  THEN [row EXCEPT !.status = "FAILED", !.due = TRUE, !.stale = FALSE, !.reported = TRUE]
  ELSE [row EXCEPT !.status = "PENDING", !.due = FALSE, !.stale = FALSE]
RecordFailure(w) ==
  /\ worker[w] # Idle /\ worker[w].outcome = "ERROR"
  /\ mail' = [mail EXCEPT ![worker[w].mail] = Refused(mail[worker[w].mail])]
  /\ worker' = [worker EXCEPT ![w] = Idle]
  /\ UNCHANGED <<delivered, crashes>>

(* The process dies, before or after the call; its row stays SENDING. *)
Crash(w) ==
  /\ worker[w] # Idle /\ crashes < MaxCrashes
  /\ worker' = [worker EXCEPT ![w] = Idle]
  /\ crashes' = crashes + 1
  /\ UNCHANGED <<mail, delivered>>

(* Time passes: the wait after a failure ends, or fifteen minutes pass     *)
(* after a row was last written.                                           *)
WaitEnds(m) ==
  /\ mail[m].status = "PENDING" /\ ~ mail[m].due
  /\ mail' = [mail EXCEPT ![m] = [mail[m] EXCEPT !.due = TRUE]]
  /\ UNCHANGED <<worker, delivered, crashes>>

GoesStale(m) ==
  /\ mail[m].status = "SENDING" /\ ~ mail[m].stale
  /\ mail' = [mail EXCEPT ![m] = [mail[m] EXCEPT !.stale = TRUE]]
  /\ UNCHANGED <<worker, delivered, crashes>>

-----------------------------------------------------------------------------
WorkerStep(w) == Claim(w) \/ Send(w) \/ RecordSuccess(w) \/ RecordFailure(w) \/ Crash(w)
Next ==
  \/ \E w \in Worker : WorkerStep(w)
  \/ \E m \in Mail : Enqueue(m) \/ WaitEnds(m) \/ GoesStale(m)

(* Some worker polls (every ten seconds), calls return or time out, and    *)
(* time passes.                                                            *)
Fairness ==
  /\ WF_vars(\E w \in Worker : Claim(w))
  /\ \A w \in Worker : WF_vars(Send(w)) /\ WF_vars(RecordSuccess(w)) /\ WF_vars(RecordFailure(w))
  /\ \A m \in Mail : WF_vars(WaitEnds(m)) /\ WF_vars(GoesStale(m))

Spec == Init /\ [][Next]_vars
FairSpec == Spec /\ Fairness

-----------------------------------------------------------------------------
(* What says SENT was taken by the mail server, whichever worker recorded  *)
(* it and whoever else was working on the mail (record_success).           *)
SentWasDelivered == \A m \in Mail : mail[m].status = "SENT" => delivered[m] > 0

(* The public mailbox gets a mail at most once per attempt on record, so   *)
(* attempts tells how many copies there may be (claim_one counts before    *)
(* the call, and counts again after a crash).                              *)
CopiesAreCounted == \A m \in Mail : delivered[m] <= mail[m].attempts

(* Once recorded as sent a mail is never sent or changed again, except by  *)
(* a worker that had it in hand already, was overtaken and is still alive: *)
(* neither record function looks at the status of the row (process_one).   *)
SentIsFinal ==
  [][\A m \in Mail : mail[m].status = "SENT" =>
       \/ mail'[m] = mail[m] /\ delivered'[m] = delivered[m]
       \/ \E w \in Worker : WorksOn(w, m)]_vars

(* The three together: what the rows say of a mail is true, and stays so.  *)
MailIsAccountedFor ==
  /\ [](SentWasDelivered /\ CopiesAreCounted)
  /\ SentIsFinal

(* Every queued mail is sent, or given up and reported, whoever dies      *)
(* meanwhile (docs/USER_GUIDE.md: a mail whose process was interrupted     *)
(* waits to be tried again; one that used up its attempts gets a task).    *)
EveryMailSettles ==
  \A m \in Mail :
    mail[m].status = "PENDING" ~>
      \/ mail[m].status = "SENT" /\ delivered[m] > 0
      \/ mail[m].status = "FAILED" /\ mail[m].reported
=============================================================================
