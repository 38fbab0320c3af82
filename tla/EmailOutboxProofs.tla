-------------------------- MODULE EmailOutboxProofs --------------------------
(***************************************************************************)
(* The outbox for any number of mails, workers, attempts and crashes: what *)
(* says SENT was delivered, and copies are counted.                        *)
(***************************************************************************)
EXTENDS EmailOutbox, FiniteSetTheorems, TLAPS

-----------------------------------------------------------------------------
(* Rows. *)

LEMMA RowMade ==
  ASSUME NEW row \in MailRow
  PROVE  /\ Recovered(row) \in MailRow
         /\ Recovered(row).attempts = row.attempts
         /\ Recovered(row).status = "SENT" <=> row.status = "SENT"
         /\ Recovered(row).status = "NONE" <=> row.status = "NONE"
         /\ row.attempts + 1 \in Nat
         /\ Claimed(row) \in MailRow
         /\ Claimed(row).attempts = row.attempts + 1
         /\ Claimed(row).status = "SENDING"
         /\ Refused(row) \in MailRow
         /\ Refused(row).attempts = row.attempts
         /\ Refused(row).status \notin {"SENT", "NONE"}
  <1>1. row \in Row /\ (row.stale => row.status = "SENDING") /\ row.attempts + 1 \in Nat
    BY DEF MailRow, Row
  <1>2. /\ Recovered(row) \in MailRow
        /\ Recovered(row).attempts = row.attempts
        /\ Recovered(row).status = "SENT" <=> row.status = "SENT"
        /\ Recovered(row).status = "NONE" <=> row.status = "NONE"
    BY <1>1 DEF Recovered, MailRow, Row
  <1>3. Claimed(row) \in Row /\ Claimed(row).status = "SENDING" /\ Claimed(row).attempts = row.attempts + 1
    BY <1>1 DEF Claimed, Row
  <1>4. /\ Refused(row) \in MailRow
        /\ Refused(row).attempts = row.attempts
        /\ Refused(row).status \notin {"SENT", "NONE"}
    BY <1>1 DEF Refused, MailRow, Row
  <1>q. QED BY <1>1, <1>2, <1>3, <1>4 DEF MailRow

(* Type correctness. *)
LEMMA OutboxInit == Init => TypeOK
  BY OutboxAssumption DEF Init, TypeOK, NoMail, MailRow, Row

LEMMA OutboxStep ==
  ASSUME TypeOK, [Next]_vars
  PROVE  TypeOK'
  <1>1. ASSUME NEW w \in Worker, Claim(w)
        PROVE  TypeOK'
    <2>1. PICK m \in Due :
            /\ mail' = [n \in Mail |-> IF n = m THEN Claimed(Recovered(mail[n])) ELSE Recovered(mail[n])]
            /\ worker' = [worker EXCEPT ![w] = [mail |-> m, outcome |-> "OPEN"]]
      BY <1>1 DEF Claim
    <2>2. \A n \in Mail : Recovered(mail[n]) \in MailRow /\ Claimed(Recovered(mail[n])) \in MailRow
      BY RowMade DEF TypeOK
    <2>3. m \in Mail
      BY DEF Due
    <2>q. QED BY <1>1, <2>1, <2>2, <2>3 DEF Claim, TypeOK, Job
  <1>2. ASSUME NEW w \in Worker, Send(w)
        PROVE  TypeOK'
    <2>1. worker[w] \in Job /\ worker[w].mail \in Mail
      BY <1>2 DEF Send, TypeOK, Job
    <2>2. delivered[worker[w].mail] + 1 \in Nat
      BY <2>1 DEF TypeOK
    <2>3. \A accepted, noticed \in BOOLEAN : Outcome(accepted, noticed) \in {"ACCEPTED", "ERROR"}
      BY DEF Outcome
    <2>4. worker' \in [Worker -> Job \cup {Idle}]
      BY <1>2, <2>1, <2>3 DEF Send, TypeOK, Job
    <2>5. delivered' \in [Mail -> Nat]
      BY <1>2, <2>1, <2>2 DEF Send, TypeOK
    <2>q. QED BY <1>2, <2>4, <2>5 DEF Send, TypeOK
  <1>3. ASSUME NEW w \in Worker, RecordSuccess(w)
        PROVE  TypeOK'
    <2>1. worker[w].mail \in Mail
      BY <1>3 DEF RecordSuccess, TypeOK, Job
    <2> DEFINE old == mail[worker[w].mail]
               new == [old EXCEPT !.status = "SENT", !.due = TRUE, !.stale = FALSE]
    <2>2. old \in Row
      BY <2>1 DEF TypeOK, MailRow
    <2> HIDE DEF old
    <2>3. new \in Row /\ new.stale = FALSE
      BY <2>2 DEF Row
    <2>4. new \in MailRow
      BY <2>3 DEF MailRow
    <2>5. mail' = [mail EXCEPT ![worker[w].mail] = new]
      BY <1>3 DEF RecordSuccess, old
    <2> HIDE DEF new
    <2>q. QED BY <1>3, <2>1, <2>4, <2>5 DEF RecordSuccess, TypeOK
  <1>4. ASSUME NEW w \in Worker, RecordFailure(w)
        PROVE  TypeOK'
    <2>1. worker[w].mail \in Mail
      BY <1>4 DEF RecordFailure, TypeOK, Job
    <2>q. QED BY <1>4, <2>1, RowMade DEF RecordFailure, TypeOK
  <1>5. ASSUME NEW w \in Worker, Crash(w)
        PROVE  TypeOK'
    BY <1>5, OutboxAssumption DEF Crash, TypeOK
  <1>6. ASSUME NEW m \in Mail, Enqueue(m) \/ WaitEnds(m) \/ GoesStale(m)
        PROVE  TypeOK'
    <2>1. [NoMail EXCEPT !.status = "PENDING", !.due = TRUE] \in MailRow
      BY DEF NoMail, MailRow, Row
    <2>2. mail[m].status = "PENDING" => [mail[m] EXCEPT !.due = TRUE] \in MailRow
      BY DEF TypeOK, MailRow, Row
    <2>3. mail[m].status = "SENDING" => [mail[m] EXCEPT !.stale = TRUE] \in MailRow
      BY DEF TypeOK, MailRow, Row
    <2>q. QED BY <1>6, <2>1, <2>2, <2>3 DEF Enqueue, WaitEnds, GoesStale, TypeOK
  <1>7. CASE UNCHANGED vars
    BY <1>7 DEF vars, TypeOK
  <1>q. QED BY <1>1, <1>2, <1>3, <1>4, <1>5, <1>6, <1>7 DEF Next, WorkerStep

(* Every row that a command or a worker writes is one its table can hold,  *)
(* and one that waits is never older than the recovery allows.             *)
THEOREM OutboxTyped == Spec => []TypeOK
  BY OutboxInit, OutboxStep, PTL DEF Spec

-----------------------------------------------------------------------------
(* What SENT says.  A worker that saw the server accept will say so.       *)
AcceptedWasDelivered ==
  \A w \in Worker : worker[w] # Idle /\ worker[w].outcome = "ACCEPTED" => delivered[worker[w].mail] > 0
SentInv == SentWasDelivered /\ AcceptedWasDelivered

LEMMA SentStep ==
  ASSUME TypeOK, TypeOK', SentInv, [Next]_vars
  PROVE  SentInv'
  <1>1. \A m \in Mail : delivered'[m] >= delivered[m] /\ delivered[m] \in Int /\ delivered'[m] \in Int
    <2>1. \A m \in Mail : delivered[m] \in Int /\ delivered'[m] \in Int
      BY DEF TypeOK
    <2>2. ASSUME NEW w \in Worker, Send(w)
          PROVE  \A m \in Mail : delivered'[m] >= delivered[m]
      BY <2>1, <2>2 DEF Send, TypeOK
    <2>3. CASE UNCHANGED delivered
      BY <2>1, <2>3
    <2>4. (\E w \in Worker : Send(w)) \/ UNCHANGED delivered
      BY DEF Next, WorkerStep, Claim, RecordSuccess, RecordFailure, Crash, Enqueue, WaitEnds,
            GoesStale, vars
    <2>q. QED BY <2>1, <2>2, <2>3, <2>4
  <1>2. ASSUME \A w \in Worker : worker'[w] # Idle /\ worker'[w].outcome = "ACCEPTED" => worker'[w] = worker[w]
        PROVE  AcceptedWasDelivered'
    <2> SUFFICES ASSUME NEW w \in Worker, worker'[w] # Idle, worker'[w].outcome = "ACCEPTED"
                 PROVE  delivered'[worker'[w].mail] > 0
      BY DEF AcceptedWasDelivered
    <2>1. worker'[w] = worker[w] /\ worker[w].mail \in Mail
      BY <1>2 DEF TypeOK, Job
    <2>q. QED BY <1>1, <2>1 DEF SentInv, AcceptedWasDelivered
  <1>3. ASSUME \A m \in Mail : mail'[m].status = "SENT" => mail[m].status = "SENT"
        PROVE  SentWasDelivered'
    BY <1>1, <1>3 DEF SentInv, SentWasDelivered
  <1>4. ASSUME NEW w \in Worker, Claim(w)
        PROVE  SentInv'
    <2>1. PICK m \in Due :
            /\ mail' = [n \in Mail |-> IF n = m THEN Claimed(Recovered(mail[n])) ELSE Recovered(mail[n])]
            /\ worker' = [worker EXCEPT ![w] = [mail |-> m, outcome |-> "OPEN"]]
      BY <1>4 DEF Claim
    <2>2. \A n \in Mail : mail'[n].status = "SENT" => mail[n].status = "SENT"
      BY <2>1, RowMade DEF TypeOK
    <2>3. \A v \in Worker : worker'[v] # Idle /\ worker'[v].outcome = "ACCEPTED" => worker'[v] = worker[v]
      BY <2>1 DEF TypeOK
    <2>q. QED BY <1>2, <1>3, <2>2, <2>3 DEF SentInv
  <1>5. ASSUME NEW w \in Worker, Send(w)
        PROVE  SentInv'
    <2> DEFINE m == worker[w].mail
    <2>1. m \in Mail
      BY <1>5 DEF Send, TypeOK, Job
    <2>2. PICK accepted \in BOOLEAN, noticed \in BOOLEAN :
            /\ accepted => delivered'[m] = delivered[m] + 1
            /\ worker' = [worker EXCEPT ![w] = [mail |-> m, outcome |-> Outcome(accepted, noticed)]]
      BY <1>5, <2>1 DEF Send, TypeOK
    <2>3. AcceptedWasDelivered'
      <3> SUFFICES ASSUME NEW v \in Worker, worker'[v] # Idle, worker'[v].outcome = "ACCEPTED"
                   PROVE  delivered'[worker'[v].mail] > 0
        BY DEF AcceptedWasDelivered
      <3>1. CASE v = w
        <4>1. worker'[v] = [mail |-> m, outcome |-> Outcome(accepted, noticed)]
          BY <2>2, <3>1 DEF TypeOK
        <4>2. accepted /\ worker'[v].mail = m
          BY <4>1 DEF Outcome
        <4>3. delivered[m] \in Nat /\ delivered'[m] = delivered[m] + 1
          BY <2>1, <2>2, <4>2 DEF TypeOK
        <4>q. QED BY <4>2, <4>3
      <3>2. CASE v # w
        <4>1. worker'[v] = worker[v] /\ worker[v].mail \in Mail
          BY <2>2, <3>2 DEF TypeOK, Job
        <4>q. QED BY <1>1, <4>1 DEF SentInv, AcceptedWasDelivered
      <3>q. QED BY <3>1, <3>2
    <2>4. SentWasDelivered'
      BY <1>3, <1>5 DEF Send
    <2>q. QED BY <2>3, <2>4 DEF SentInv
  <1>6. ASSUME NEW w \in Worker, RecordSuccess(w)
        PROVE  SentInv'
    <2>1. worker[w].mail \in Mail /\ delivered[worker[w].mail] > 0
      BY <1>6 DEF RecordSuccess, TypeOK, Job, SentInv, AcceptedWasDelivered
    <2>2. SentWasDelivered'
      BY <1>6, <2>1 DEF RecordSuccess, TypeOK, SentInv, SentWasDelivered
    <2>3. AcceptedWasDelivered'
      BY <1>2, <1>6 DEF RecordSuccess, TypeOK
    <2>q. QED BY <2>2, <2>3 DEF SentInv
  <1>7. ASSUME NEW w \in Worker, RecordFailure(w)
        PROVE  SentInv'
    <2>1. \A n \in Mail : mail'[n].status = "SENT" => mail[n].status = "SENT"
      BY <1>7, RowMade DEF RecordFailure, TypeOK
    <2>2. AcceptedWasDelivered'
      BY <1>2, <1>7 DEF RecordFailure, TypeOK
    <2>q. QED BY <1>3, <2>1, <2>2 DEF SentInv
  <1>8. ASSUME NEW w \in Worker, Crash(w)
        PROVE  SentInv'
    <2>1. AcceptedWasDelivered'
      BY <1>2, <1>8 DEF Crash, TypeOK
    <2>q. QED BY <1>3, <1>8, <2>1 DEF SentInv, Crash
  <1>9. ASSUME NEW m \in Mail, Enqueue(m) \/ WaitEnds(m) \/ GoesStale(m)
        PROVE  SentInv'
    <2>1. PICK row : mail' = [mail EXCEPT ![m] = row] /\ row.status # "SENT"
      <3>1. [NoMail EXCEPT !.status = "PENDING", !.due = TRUE].status = "PENDING"
        BY DEF NoMail
      <3>2. /\ [mail[m] EXCEPT !.due = TRUE].status = mail[m].status
            /\ [mail[m] EXCEPT !.stale = TRUE].status = mail[m].status
        BY DEF TypeOK, MailRow, Row
      <3>q. QED BY <1>9, <3>1, <3>2 DEF Enqueue, WaitEnds, GoesStale
    <2>2. \A n \in Mail : mail'[n].status = "SENT" => mail[n].status = "SENT"
      BY <2>1 DEF TypeOK
    <2>3. worker' = worker
      BY <1>9 DEF Enqueue, WaitEnds, GoesStale
    <2>q. QED BY <1>2, <1>3, <2>2, <2>3 DEF SentInv
  <1>10. CASE UNCHANGED vars
    BY <1>2, <1>3, <1>10 DEF vars, SentInv
  <1>q. QED BY <1>4, <1>5, <1>6, <1>7, <1>8, <1>9, <1>10 DEF Next, WorkerStep

(* A mail is only recorded as sent if the mail server took it, although    *)
(* workers may be overtaken, die and record outcomes late.                 *)
THEOREM SentWasDeliveredHolds == Spec => []SentWasDelivered
  <1>1. Init => SentInv
    BY DEF Init, SentInv, SentWasDelivered, AcceptedWasDelivered, NoMail
  <1>2. SentInv => SentWasDelivered
    BY DEF SentInv
  <1>q. QED BY <1>1, <1>2, SentStep, OutboxTyped, PTL DEF Spec

-----------------------------------------------------------------------------
(* Copies.  An attempt is delivered, or still open, or over.               *)
Open(jobs, m) == {w \in Worker : jobs[w] # Idle /\ jobs[w].mail = m /\ jobs[w].outcome = "OPEN"}
Counted == \A m \in Mail : delivered[m] + Cardinality(Open(worker, m)) <= mail[m].attempts
Unqueued == \A m \in Mail : mail[m].status = "NONE" => mail[m].attempts = 0
CountInv == Counted /\ Unqueued

LEMMA OpenCounts == \A jobs, m : IsFiniteSet(Open(jobs, m)) /\ Cardinality(Open(jobs, m)) \in Nat
  BY OutboxAssumption, FS_Subset, FS_CardinalityType DEF Open

LEMMA CountTypes ==
  ASSUME TypeOK, NEW m \in Mail
  PROVE  delivered[m] \in Nat /\ mail[m].attempts \in Nat /\ mail[m] \in MailRow
  BY DEF TypeOK, MailRow, Row

(* A step after which no more is delivered or open, of as many attempts. *)
LEMMA CountKept ==
  ASSUME TypeOK, TypeOK', CountInv,
         \A m \in Mail : /\ delivered'[m] + Cardinality(Open(worker', m)) <= delivered[m] + Cardinality(Open(worker, m))
                         /\ mail'[m].attempts = mail[m].attempts
                         /\ mail'[m].status = "NONE" => mail[m].status = "NONE"
  PROVE  CountInv'
  <1>1. ASSUME NEW m \in Mail
        PROVE  delivered'[m] + Cardinality(Open(worker', m)) <= mail'[m].attempts
    <2>1. /\ delivered[m] \in Nat /\ mail[m].attempts \in Nat /\ Cardinality(Open(worker, m)) \in Nat
      BY CountTypes, OpenCounts
    <2>2. delivered'[m] \in Nat /\ Cardinality(Open(worker', m)) \in Nat
      <3>1. delivered'[m] \in Nat
        BY DEF TypeOK
      <3>2. Cardinality(Open(worker', m)) \in Nat
        BY OpenCounts
      <3>q. QED BY <3>1, <3>2
    <2>3. delivered[m] + Cardinality(Open(worker, m)) <= mail[m].attempts
      BY DEF CountInv, Counted
    <2>q. QED BY <2>1, <2>2, <2>3
  <1>2. Counted'
    BY <1>1 DEF Counted
  <1>3. Unqueued'
    <2>1. ASSUME NEW m \in Mail, mail'[m].status = "NONE"
          PROVE  mail'[m].attempts = 0
      BY <2>1 DEF CountInv, Unqueued
    <2>q. QED BY <2>1 DEF Unqueued
  <1>q. QED BY <1>2, <1>3 DEF CountInv

LEMMA ClaimCounts ==
  ASSUME TypeOK, TypeOK', CountInv, NEW w \in Worker, Claim(w)
  PROVE  CountInv'
  <1>1. PICK m \in Due :
          /\ mail' = [n \in Mail |-> IF n = m THEN Claimed(Recovered(mail[n])) ELSE Recovered(mail[n])]
          /\ worker' = [worker EXCEPT ![w] = [mail |-> m, outcome |-> "OPEN"]]
    BY DEF Claim
  <1>2. m \in Mail /\ worker[w] = Idle /\ delivered' = delivered
    BY DEF Claim, Due
  <1>3. ASSUME NEW n \in Mail
        PROVE  /\ mail'[n].attempts = mail[n].attempts + (IF n = m THEN 1 ELSE 0)
               /\ mail'[n].status = "NONE" => mail[n].status = "NONE" /\ n # m
    <2>1. Recovered(mail[n]) \in MailRow /\ mail[n] \in MailRow /\ mail[n].attempts \in Nat
      BY CountTypes, RowMade
    <2>q. QED BY <1>1, <2>1, RowMade
  <1>4. worker'[w] = [mail |-> m, outcome |-> "OPEN"] /\ \A v \in Worker \ {w} : worker'[v] = worker[v]
    BY <1>1 DEF TypeOK
  <1>6. ASSUME NEW n \in Mail
        PROVE  Cardinality(Open(worker', n)) <= Cardinality(Open(worker, n)) + (IF n = m THEN 1 ELSE 0)
    <2>1. IsFiniteSet(Open(worker, n)) /\ Cardinality(Open(worker, n)) \in Nat
      BY OpenCounts
    <2>2. CASE n = m
      <3>1. Open(worker', n) \subseteq Open(worker, n) \cup {w}
        BY <1>4 DEF Open
      <3>2. /\ IsFiniteSet(Open(worker, n) \cup {w})
            /\ \/ Cardinality(Open(worker, n) \cup {w}) = Cardinality(Open(worker, n))
               \/ Cardinality(Open(worker, n) \cup {w}) = Cardinality(Open(worker, n)) + 1
        BY <2>1, FS_AddElement
      <3>3. Cardinality(Open(worker', n)) <= Cardinality(Open(worker, n) \cup {w})
        BY <3>1, <3>2, FS_Subset
      <3>4. Cardinality(Open(worker', n)) \in Nat /\ Cardinality(Open(worker, n) \cup {w}) \in Nat
        BY <3>2, OpenCounts, FS_CardinalityType
      <3>q. QED BY <2>1, <2>2, <3>2, <3>3, <3>4
    <2>3. CASE n # m
      <3>1. Open(worker', n) \subseteq Open(worker, n)
        BY <1>4, <2>3 DEF Open
      <3>2. Cardinality(Open(worker', n)) <= Cardinality(Open(worker, n))
        BY <2>1, <3>1, FS_Subset
      <3>q. QED BY <2>1, <2>3, <3>2
    <2>q. QED BY <2>2, <2>3
  <1>7. ASSUME NEW n \in Mail
        PROVE  delivered'[n] + Cardinality(Open(worker', n)) <= mail'[n].attempts
    <2>1. delivered[n] \in Nat /\ mail[n].attempts \in Nat /\ Cardinality(Open(worker, n)) \in Nat
      BY CountTypes, OpenCounts
    <2>2. Cardinality(Open(worker', n)) \in Nat
      BY OpenCounts
    <2>3. delivered[n] + Cardinality(Open(worker, n)) <= mail[n].attempts
      BY DEF CountInv, Counted
    <2>q. QED BY <1>2, <1>3, <1>6, <2>1, <2>2, <2>3
  <1>8. Counted'
    BY <1>7 DEF Counted
  <1>9. Unqueued'
    <2>1. ASSUME NEW n \in Mail, mail'[n].status = "NONE"
          PROVE  mail'[n].attempts = 0
      BY <1>3, <2>1, CountTypes DEF CountInv, Unqueued
    <2>q. QED BY <2>1 DEF Unqueued
  <1>q. QED BY <1>8, <1>9 DEF CountInv

LEMMA SendCounts ==
  ASSUME TypeOK, TypeOK', CountInv, NEW w \in Worker, Send(w)
  PROVE  CountInv'
  <1> DEFINE m == worker[w].mail
  <1>1. m \in Mail /\ worker[w] # Idle /\ worker[w].outcome = "OPEN" /\ mail' = mail
    BY DEF Send, TypeOK, Job
  <1>2. PICK accepted \in BOOLEAN, noticed \in BOOLEAN :
          /\ delivered' = IF accepted THEN [delivered EXCEPT ![m] = delivered[m] + 1] ELSE delivered
          /\ worker' = [worker EXCEPT ![w] = [mail |-> m, outcome |-> Outcome(accepted, noticed)]]
    BY DEF Send
  <1>3. Outcome(accepted, noticed) # "OPEN"
    BY DEF Outcome
  <1>4. /\ worker'[w] = [mail |-> m, outcome |-> Outcome(accepted, noticed)]
        /\ \A v \in Worker \ {w} : worker'[v] = worker[v]
    BY <1>2 DEF TypeOK
  <1>5. ASSUME NEW n \in Mail
        PROVE  delivered'[n] + Cardinality(Open(worker', n)) <= delivered[n] + Cardinality(Open(worker, n))
    <2>1. delivered[n] \in Nat /\ IsFiniteSet(Open(worker, n)) /\ Cardinality(Open(worker, n)) \in Nat
      BY CountTypes, OpenCounts
    <2>2. CASE n = m
      <3>1. w \in Open(worker, n)
        BY <1>1, <2>2 DEF Open
      <3>2. Open(worker', n) \subseteq Open(worker, n) \ {w}
        BY <1>3, <1>4 DEF Open
      <3>3. IsFiniteSet(Open(worker, n) \ {w}) /\ Cardinality(Open(worker, n) \ {w}) = Cardinality(Open(worker, n)) - 1
        BY <2>1, <3>1, FS_RemoveElement
      <3>4. Cardinality(Open(worker', n)) <= Cardinality(Open(worker, n) \ {w}) /\ Cardinality(Open(worker', n)) \in Nat
        BY <3>2, <3>3, FS_Subset, FS_CardinalityType
      <3>5. delivered'[n] <= delivered[n] + 1 /\ delivered'[n] \in Nat
        BY <1>1, <1>2, <2>1, <2>2 DEF TypeOK
      <3>q. QED BY <2>1, <3>3, <3>4, <3>5
    <2>3. CASE n # m
      <3>1. Open(worker', n) \subseteq Open(worker, n)
        BY <1>4, <2>3 DEF Open
      <3>2. Cardinality(Open(worker', n)) <= Cardinality(Open(worker, n)) /\ Cardinality(Open(worker', n)) \in Nat
        BY <2>1, <3>1, FS_Subset, FS_CardinalityType
      <3>3. delivered'[n] = delivered[n]
        BY <1>1, <1>2, <2>3 DEF TypeOK
      <3>q. QED BY <2>1, <3>2, <3>3
    <2>q. QED BY <2>2, <2>3
  <1>q. QED BY <1>1, <1>5, CountKept

(* No attempt is opened, and none is delivered. *)
LEMMA OtherCounts ==
  ASSUME TypeOK, TypeOK', CountInv, delivered' = delivered,
         \A w \in Worker : worker'[w] = Idle \/ worker'[w] = worker[w],
         \A m \in Mail : /\ mail'[m].attempts = mail[m].attempts
                         /\ mail'[m].status = "NONE" => mail[m].status = "NONE"
  PROVE  CountInv'
  <1>1. ASSUME NEW n \in Mail
        PROVE  delivered'[n] + Cardinality(Open(worker', n)) <= delivered[n] + Cardinality(Open(worker, n))
    <2>1. delivered[n] \in Nat /\ IsFiniteSet(Open(worker, n)) /\ Cardinality(Open(worker, n)) \in Nat
      BY CountTypes, OpenCounts
    <2>2. Open(worker', n) \subseteq Open(worker, n)
      BY DEF Open
    <2>3. Cardinality(Open(worker', n)) <= Cardinality(Open(worker, n)) /\ Cardinality(Open(worker', n)) \in Nat
      BY <2>1, <2>2, FS_Subset, FS_CardinalityType
    <2>q. QED BY <2>1, <2>3
  <1>q. QED BY <1>1, CountKept

LEMMA CountStep ==
  ASSUME TypeOK, TypeOK', CountInv, [Next]_vars
  PROVE  CountInv'
  <1>1. ASSUME NEW w \in Worker, RecordSuccess(w)
        PROVE  CountInv'
    <2> DEFINE row == [mail[worker[w].mail] EXCEPT !.status = "SENT", !.due = TRUE, !.stale = FALSE]
    <2>1. worker[w].mail \in Mail
      BY <1>1 DEF RecordSuccess, TypeOK, Job
    <2>2. row.attempts = mail[worker[w].mail].attempts /\ row.status = "SENT"
      BY <2>1, CountTypes DEF MailRow, Row
    <2>3. mail' = [mail EXCEPT ![worker[w].mail] = row]
      BY <1>1 DEF RecordSuccess
    <2> HIDE DEF row
    <2>4. \A m \in Mail : /\ mail'[m].attempts = mail[m].attempts
                          /\ mail'[m].status = "NONE" => mail[m].status = "NONE"
      BY <2>1, <2>2, <2>3 DEF TypeOK
    <2>q. QED BY <1>1, <2>4, OtherCounts DEF RecordSuccess, TypeOK
  <1>2. ASSUME NEW w \in Worker, RecordFailure(w)
        PROVE  CountInv'
    <2>1. worker[w].mail \in Mail
      BY <1>2 DEF RecordFailure, TypeOK, Job
    <2>2. \A m \in Mail : /\ mail'[m].attempts = mail[m].attempts
                          /\ mail'[m].status = "NONE" => mail[m].status = "NONE"
      BY <1>2, <2>1, CountTypes, RowMade DEF RecordFailure, TypeOK
    <2>q. QED BY <1>2, <2>2, OtherCounts DEF RecordFailure, TypeOK
  <1>3. ASSUME NEW w \in Worker, Crash(w)
        PROVE  CountInv'
    BY <1>3, OtherCounts DEF Crash, TypeOK
  <1>4. ASSUME NEW m \in Mail, Enqueue(m) \/ WaitEnds(m) \/ GoesStale(m)
        PROVE  CountInv'
    <2>1. PICK row : mail' = [mail EXCEPT ![m] = row] /\ row.attempts = mail[m].attempts /\ row.status # "NONE"
      <3>1. CASE Enqueue(m)
        <4>1. [NoMail EXCEPT !.status = "PENDING", !.due = TRUE].attempts = 0
              /\ [NoMail EXCEPT !.status = "PENDING", !.due = TRUE].status = "PENDING"
          BY DEF NoMail
        <4>2. mail[m].attempts = 0
          BY <3>1 DEF Enqueue, CountInv, Unqueued
        <4>q. QED BY <3>1, <4>1, <4>2 DEF Enqueue
      <3>2. CASE WaitEnds(m) \/ GoesStale(m)
        <4>1. /\ [mail[m] EXCEPT !.due = TRUE].status = mail[m].status
              /\ [mail[m] EXCEPT !.due = TRUE].attempts = mail[m].attempts
              /\ [mail[m] EXCEPT !.stale = TRUE].status = mail[m].status
              /\ [mail[m] EXCEPT !.stale = TRUE].attempts = mail[m].attempts
          BY CountTypes DEF MailRow, Row
        <4>q. QED BY <3>2, <4>1 DEF WaitEnds, GoesStale
      <3>q. QED BY <1>4, <3>1, <3>2
    <2>2. worker' = worker /\ delivered' = delivered
      BY <1>4 DEF Enqueue, WaitEnds, GoesStale
    <2>3. \A n \in Mail : /\ mail'[n].attempts = mail[n].attempts
                          /\ mail'[n].status = "NONE" => mail[n].status = "NONE"
      BY <2>1 DEF TypeOK
    <2>q. QED BY <2>2, <2>3, OtherCounts
  <1>5. CASE UNCHANGED vars
    BY <1>5, OtherCounts DEF vars
  <1>q. QED BY <1>1, <1>2, <1>3, <1>4, <1>5, ClaimCounts, SendCounts DEF Next, WorkerStep

(* The public mailbox holds at most as many copies of a mail as the row    *)
(* counts attempts, however workers die and overtake each other.           *)
THEOREM CopiesAreCountedHolds == Spec => []CopiesAreCounted
  <1>1. Init => CountInv
    <2> SUFFICES ASSUME Init PROVE CountInv
      OBVIOUS
    <2>1. \A m \in Mail : Open(worker, m) = {} /\ delivered[m] = 0 /\ mail[m].attempts = 0
      BY DEF Init, Open, NoMail
    <2>2. Cardinality({}) = 0
      BY FS_EmptySet
    <2>q. QED BY <2>1, <2>2 DEF CountInv, Counted, Unqueued
  <1>2. TypeOK /\ CountInv => CopiesAreCounted
    <2> SUFFICES ASSUME TypeOK, CountInv, NEW m \in Mail
                 PROVE  delivered[m] <= mail[m].attempts
      BY DEF CopiesAreCounted
    <2>1. delivered[m] + Cardinality(Open(worker, m)) <= mail[m].attempts
      BY DEF CountInv, Counted
    <2>q. QED BY <2>1, CountTypes, OpenCounts
  <1>q. QED BY <1>1, <1>2, CountStep, OutboxTyped, PTL DEF Spec

-----------------------------------------------------------------------------
(* What a step may do to a mail that is recorded as sent.                  *)
LEMMA SentStays ==
  ASSUME TypeOK, [Next]_vars, NEW m \in Mail, mail[m].status = "SENT",
         \A w \in Worker : ~ WorksOn(w, m)
  PROVE  mail'[m] = mail[m] /\ delivered'[m] = delivered[m]
  <1> USE DEF WorksOn
  <1>1. ASSUME NEW w \in Worker, Claim(w)
        PROVE  mail'[m] = mail[m] /\ delivered' = delivered
    <2>1. PICK n \in Due :
            mail' = [k \in Mail |-> IF k = n THEN Claimed(Recovered(mail[k])) ELSE Recovered(mail[k])]
      BY <1>1 DEF Claim
    <2>2. Recovered(mail[m]) = mail[m] /\ m # n
      BY DEF Recovered, Due
    <2>q. QED BY <1>1, <2>1, <2>2 DEF Claim
  <1>2. ASSUME NEW w \in Worker, Send(w)
        PROVE  mail' = mail /\ delivered'[m] = delivered[m]
    <2>1. worker[w].mail # m
      BY <1>2 DEF Send
    <2>q. QED BY <1>2, <2>1 DEF Send, TypeOK
  <1>3. ASSUME NEW w \in Worker, RecordSuccess(w) \/ RecordFailure(w)
        PROVE  mail'[m] = mail[m] /\ delivered' = delivered
    <2>1. worker[w].mail # m
      BY <1>3 DEF RecordSuccess, RecordFailure
    <2>q. QED BY <1>3, <2>1 DEF RecordSuccess, RecordFailure, TypeOK
  <1>4. ASSUME NEW n \in Mail, Enqueue(n) \/ WaitEnds(n) \/ GoesStale(n)
        PROVE  mail'[m] = mail[m] /\ delivered' = delivered
    <2>1. n # m
      BY <1>4 DEF Enqueue, WaitEnds, GoesStale
    <2>q. QED BY <1>4, <2>1 DEF Enqueue, WaitEnds, GoesStale, TypeOK
  <1>5. CASE UNCHANGED vars \/ \E w \in Worker : Crash(w)
    BY <1>5 DEF vars, Crash
  <1>q. QED BY <1>1, <1>2, <1>3, <1>4, <1>5 DEF Next, WorkerStep

(* What the rows say of a mail is true and stays so: sent means delivered, *)
(* attempts bound the copies, and only a worker that had it in hand comes  *)
(* back to a mail that was sent.                                           *)
THEOREM MailAccounted == Spec => MailIsAccountedFor
  <1> DEFINE Final == \A m \in Mail : mail[m].status = "SENT" =>
                        \/ mail'[m] = mail[m] /\ delivered'[m] = delivered[m]
                        \/ \E w \in Worker : WorksOn(w, m)
  <1>1. TypeOK /\ [Next]_vars => [Final]_vars
    BY SentStays
  <1>2. Spec => [][Final]_vars
    BY <1>1, OutboxTyped, PTL DEF Spec
  <1>3. Spec => SentIsFinal
    BY <1>2 DEF SentIsFinal
  <1>q. QED BY <1>3, SentWasDeliveredHolds, CopiesAreCountedHolds, PTL DEF MailIsAccountedFor
=============================================================================
