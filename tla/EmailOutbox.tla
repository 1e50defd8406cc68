----------------------------- MODULE EmailOutbox -----------------------------
(***************************************************************************)
(* The e-mails of one course notification.  A fan-out job writes, page by  *)
(* page, one row of the outbox for each recipient; workers claim rows,     *)
(* check their recipients again, send them in an SMTP session and write    *)
(* the result.  Claims carry no token: a row that stays 'sending' for five *)
(* minutes is claimed again, whatever its first worker does later.         *)
(* Deletion of the course or of a recipient may come in between.           *)
(*                                                                         *)
(* Each action is one statement or transaction, or one exchange with the   *)
(* SMTP server; a fan-out transaction is two, the reading and the commit.  *)
(* Mails are numbered in the order of their rows.                          *)
(***************************************************************************)
EXTENDS Integers, FiniteSets

CONSTANTS
  Worker,        \* processes that run the outbox worker
  N,             \* recipients of the notification
  Deletable,     \* recipients whose deletion may be requested
  MayDelete,     \* the deletion of the course may be requested
  PageSize,      \* recipients per fan-out transaction
  ClaimLimit,    \* EMAIL_OUTBOX_CLAIM_BATCH_SIZE
  MaxAttempts,   \* max_attempts of a row
  Threshold,     \* EMAIL_OUTBOX_TENANT_FAILURE_THRESHOLD
  MaxFaults,     \* bound: crashes, lost answers, failed writes, slow workers
  None           \* no worker

(* A mail is known by its recipient. *)
Mail == 1..N

ASSUME OutboxAssumption ==
  /\ N \in Nat \ {0}
  /\ MayDelete \in BOOLEAN
  /\ Deletable \subseteq Mail
  /\ PageSize \in Nat \ {0} /\ ClaimLimit \in Nat \ {0}
  /\ MaxAttempts \in Nat \ {0} /\ Threshold \in Nat \ {0}
  /\ MaxFaults \in Nat
  /\ None \notin Worker /\ IsFiniteSet(Worker)

VARIABLES
  course,    \* the course: "active", "requested", "unmailed", "purged"
  user,      \* user[r]: "active" or "requested" (deletion_requested_at is set)
  fan,       \* the row of notification_email_jobs
  lock,      \* the worker whose transaction holds that row and the course
  mail,      \* mail[m]: the row of email_outbox
  worker,    \* what each process is doing
  circuit,   \* circuit[w]: tenantSmtpCircuits of the tenant in w
  inserted,  \* inserted[m]: how often m was written to the outbox
  sends,     \* sends[m]: how often the SMTP server took m
  faults     \* faults so far

vars ==
  <<course, user, fan, lock, mail, worker, circuit, inserted, sends, faults>>

Attempts == 0..(MaxAttempts + 2 * MaxFaults)

(* "stale" is 'running' or 'sending' with updated_at five minutes ago.     *)
(* due: next_attempt_at is not in the future; last: last_recipient_id.     *)
FanRow ==
  [status : {"pending", "running", "stale", "failed", "done", "gone"},
   due : BOOLEAN, last : 0..N]

MailRow ==
  [status : {"none", "pending", "sending", "stale", "sent", "failed"},
   attempts : Attempts, due : BOOLEAN]

(* held: the claimed rows; copy: their attempts when they were claimed;    *)
(* todo: the rows without a result; cur, ok: the result being written;     *)
(* good: sliceSuccessCount > 0; infra: an error that may have counted as   *)
(* sliceInfrastructureError.                                               *)
Slot ==
  [phase : {"idle", "fanout", "page", "fanfail", "group", "release", "config",
            "filter", "cancel", "connect", "send", "mark", "unseen", "end"},
   page : SUBSET Mail, held : SUBSET Mail, copy : [Mail -> Attempts],
   todo : SUBSET Mail, cur : 0..N, ok : BOOLEAN, good : BOOLEAN, infra : BOOLEAN]

Idle ==
  [phase |-> "idle", page |-> {}, held |-> {}, copy |-> [m \in Mail |-> 0],
   todo |-> {}, cur |-> 0, ok |-> FALSE, good |-> FALSE, infra |-> FALSE]

Closed == [failures |-> 0, cooling |-> FALSE]

TypeOK ==
  /\ course \in {"active", "requested", "unmailed", "purged"}
  /\ user \in [Mail -> {"active", "requested"}]
  /\ fan \in FanRow
  /\ lock \in Worker \cup {None}
  /\ mail \in [Mail -> MailRow]
  /\ worker \in [Worker -> Slot]
  /\ circuit \in [Worker -> [failures : 0..Threshold, cooling : BOOLEAN]]
  /\ inserted \in [Mail -> Nat]
  /\ sends \in [Mail -> Nat]
  /\ faults \in 0..MaxFaults

NoRow == [status |-> "none", attempts |-> 0, due |-> TRUE]

(* enqueueCourseNotificationEmailJob has committed. *)
Init ==
  /\ course = "active"
  /\ user = [r \in Mail |-> "active"]
  /\ fan = [status |-> "pending", due |-> TRUE, last |-> 0]
  /\ lock = None
  /\ mail = [m \in Mail |-> NoRow]
  /\ worker = [w \in Worker |-> Idle]
  /\ circuit = [w \in Worker |-> Closed]
  /\ inserted = [m \in Mail |-> 0]
  /\ sends = [m \in Mail |-> 0]
  /\ faults = 0

Fault == faults < MaxFaults /\ faults' = faults + 1
NoFault == UNCHANGED faults

Go(w, phase) == worker' = [worker EXCEPT ![w].phase = phase]
Stop(w) == worker' = [worker EXCEPT ![w] = Idle]

(* Mutant: a row may be mailed whoever its recipient is by now. *)
Anybody(m) == TRUE

(* The recipient is still active. *)
Mailable(m) == user[m] = "active"

-----------------------------------------------------------------------------
(* Fan-out *)

(* Mutant: a job whose worker died is not claimed again. *)
FanoutDue == fan.status \in {"pending", "failed"} /\ fan.due

(* claimDueFanoutJobs, claimStaleFanoutJobs *)
FanoutClaimable == fan.status = "stale" \/ (fan.status \in {"pending", "failed"} /\ fan.due)

ClaimFanout(w) ==
  /\ worker[w].phase = "idle"
  /\ FanoutClaimable
  /\ fan' = [fan EXCEPT !.status = "running"]
  /\ Go(w, "fanout")
  /\ UNCHANGED <<course, user, lock, mail, circuit, inserted, sends, faults>>

(* The first PageSize of the active recipients after the cursor *)
NextPage ==
  LET rest == {r \in Mail : r > fan.last /\ user[r] = "active"}
  IN  {r \in rest : Cardinality({q \in rest : q <= r}) <= PageSize}

(* Mutant: the course is not looked at. *)
AnyCourse == TRUE

CourseActive == course = "active"

(* The transaction's reads, which lock the job row and the course.  The    *)
(* job of a course under deletion is deleted.                              *)
BeginFanout(w) ==
  /\ worker[w].phase = "fanout" /\ lock = None
  /\ IF fan.status = "gone" THEN Stop(w) /\ UNCHANGED <<fan, lock>>
     ELSE IF ~CourseActive
     THEN fan' = [fan EXCEPT !.status = "gone"] /\ Stop(w) /\ UNCHANGED lock
     ELSE /\ lock' = w
          /\ worker' = [worker EXCEPT ![w].phase = "page", ![w].page = NextPage]
          /\ UNCHANGED fan
  /\ UNCHANGED <<course, user, mail, circuit, inserted, sends, faults>>

LastOf(P) == CHOOSE r \in P : \A q \in P : q <= r

(* The cursor after a page *)
CursorAfter(P) == LastOf(P)

(* Mutant: a full page is taken for the last one. *)
DoneWhenFull(P) == Cardinality(P) <= PageSize

LastPage(P) == Cardinality(P) < PageSize

(* insertNotificationEmails leaves a row that exists alone. *)
Written(P) == {m \in P : mail[m].status = "none"}

CommitFanout(w) ==
  /\ worker[w].phase = "page"
  /\ LET page == worker[w].page
     IN  /\ mail' = [m \in Mail |->
              IF m \in Written(page) THEN [NoRow EXCEPT !.status = "pending"] ELSE mail[m]]
         /\ inserted' = [m \in Mail |-> inserted[m] + IF m \in Written(page) THEN 1 ELSE 0]
         /\ fan' = [status |-> IF LastPage(page) THEN "done" ELSE "pending", due |-> TRUE,
                    last |-> IF page = {} THEN fan.last ELSE CursorAfter(page)]
  /\ lock' = None
  /\ Stop(w)
  /\ UNCHANGED <<course, user, circuit, sends, faults>>

(* The transaction is rolled back. *)
FanoutThrows(w) ==
  /\ worker[w].phase \in {"fanout", "page"}
  /\ Fault
  /\ lock' = IF lock = w THEN None ELSE lock
  /\ worker' = [worker EXCEPT ![w] = [Idle EXCEPT !.phase = "fanfail"]]
  /\ UNCHANGED <<course, user, fan, mail, circuit, inserted, sends>>

(* markFanoutJobFailed, whoever has the job by now; its failure is logged. *)
MarkFanoutJobFailed(w) ==
  /\ worker[w].phase = "fanfail"
  /\ lock = None
  /\ \/ /\ fan' = IF fan.status = "gone" THEN fan
                  ELSE [fan EXCEPT !.status = "failed", !.due = FALSE]
        /\ NoFault
     \/ UNCHANGED fan /\ Fault
  /\ Stop(w)
  /\ UNCHANGED <<course, user, lock, mail, circuit, inserted, sends>>

-----------------------------------------------------------------------------
(* Delivery *)

Runnable(m) ==
  /\ \/ mail[m].status = "pending"
     \/ mail[m].status = "failed" /\ mail[m].attempts < MaxAttempts
  /\ mail[m].due /\ Mailable(m)

(* Mutant: rows whose worker died are never claimed again. *)
NeverStale(m) == FALSE

StaleSending(m) == mail[m].status = "stale" /\ Mailable(m)

(* claimEmailOutboxJobs: runnable rows first, then stale ones. *)
Claim(w) ==
  LET run == {m \in Mail : Runnable(m)}
      all == run \cup {m \in Mail : StaleSending(m)}
  IN  /\ worker[w].phase = "idle"
      /\ all # {}
      /\ \E held \in SUBSET all :
           /\ Cardinality(held) = IF Cardinality(all) < ClaimLimit THEN Cardinality(all) ELSE ClaimLimit
           /\ held \subseteq run \/ run \subseteq held
           /\ mail' = [m \in Mail |-> IF m \in held THEN [mail[m] EXCEPT !.status = "sending"] ELSE mail[m]]
           /\ worker' = [worker EXCEPT ![w] = [Idle EXCEPT !.phase = "group", !.held = held,
                !.copy = [m \in Mail |-> IF m \in held THEN mail[m].attempts ELSE 0]]]
      /\ UNCHANGED <<course, user, fan, lock, circuit, inserted, sends, faults>>

(* markTenantSmtpFailure; the text of the error decides whether it counts. *)
SmtpFailure(w) ==
  LET n == circuit[w].failures + 1
  IN  \/ UNCHANGED circuit
      \/ circuit' = [circuit EXCEPT ![w] =
           [failures |-> IF n > Threshold THEN Threshold ELSE n, cooling |-> n >= Threshold]]

(* The start of sendClaimedEmailOutboxTenantGroup.  An SMTP configuration  *)
(* that is missing counts as an attempt of every row.                      *)
StartGroup(w) ==
  /\ worker[w].phase = "group"
  /\ \/ /\ circuit[w].cooling
        /\ worker' = [worker EXCEPT ![w].phase = "release", ![w].todo = worker[w].held]
        /\ UNCHANGED circuit
     \/ /\ ~circuit[w].cooling
        /\ Go(w, "filter")
        /\ UNCHANGED circuit
     \/ /\ ~circuit[w].cooling
        /\ worker' = [worker EXCEPT ![w].phase = "config", ![w].todo = worker[w].held]
        /\ SmtpFailure(w)
  /\ UNCHANGED <<course, user, fan, lock, mail, inserted, sends, faults>>

(* The tick's deadline passes before the group is started. *)
Deadline(w) ==
  /\ worker[w].phase = "group"
  /\ Fault
  /\ Stop(w)
  /\ UNCHANGED <<course, user, fan, lock, mail, circuit, inserted, sends>>

(* A write to a row that is gone changes nothing. *)
Update(m, row) == mail' = IF mail[m].status = "none" THEN mail ELSE [mail EXCEPT ![m] = row]

(* releaseEmailOutboxJobForCooldown, for each row at once *)
Release(w) ==
  /\ worker[w].phase = "release"
  /\ \E m \in worker[w].todo :
       /\ \/ Update(m, [mail[m] EXCEPT !.status = "pending", !.due = FALSE]) /\ NoFault
          \/ UNCHANGED mail /\ Fault
       /\ IF worker[w].todo = {m} THEN Stop(w)
          ELSE worker' = [worker EXCEPT ![w].todo = @ \ {m}]
  /\ UNCHANGED <<course, user, fan, lock, circuit, inserted, sends>>

(* Mutants: a row is never given up, or an attempt too early. *)
NeverGivenUp(copy) == "pending"
OneTooFew(copy) == IF copy + 2 >= MaxAttempts THEN "failed" ELSE "pending"

(* The status is decided from the attempts the worker read. *)
StatusAfter(copy) == IF copy + 1 >= MaxAttempts THEN "failed" ELSE "pending"

(* markEmailOutboxJobRetry *)
MarkRetry(w, m) ==
  Update(m, [status |-> StatusAfter(worker[w].copy[m]),
             attempts |-> mail[m].attempts + 1, due |-> FALSE])

(* filterDeliverableOutboxJobs: what is not sending any more, or has no    *)
(* active recipient, is cancelled.                                         *)
Filter(w) ==
  /\ worker[w].phase = "filter"
  /\ \/ LET good == {m \in worker[w].held : mail[m].status \in {"sending", "stale"} /\ Mailable(m)}
        IN  /\ worker' = [worker EXCEPT ![w].todo = good,
                 ![w].phase = IF good = worker[w].held THEN "connect" ELSE "cancel"]
            /\ NoFault
     \/ Stop(w) /\ Fault
  /\ UNCHANGED <<course, user, fan, lock, mail, circuit, inserted, sends>>

(* deleteSendingJobs *)
Cancel(w) ==
  /\ worker[w].phase = "cancel"
  /\ \/ /\ mail' = [m \in Mail |->
             IF m \in worker[w].held \ worker[w].todo /\ mail[m].status \in {"sending", "stale"}
             THEN NoRow ELSE mail[m]]
        /\ IF worker[w].todo = {} THEN Stop(w) ELSE Go(w, "connect")
        /\ NoFault
     \/ UNCHANGED mail /\ Stop(w) /\ Fault
  /\ UNCHANGED <<course, user, fan, lock, circuit, inserted, sends>>

(* The SMTP session is opened, or every row gets a retry. *)
Connect(w) ==
  /\ worker[w].phase = "connect"
  /\ \/ Go(w, "send")
     \/ worker' = [worker EXCEPT ![w].phase = "unseen", ![w].infra = TRUE]
  /\ UNCHANGED <<course, user, fan, lock, mail, circuit, inserted, sends, faults>>

(* One mail: taken, refused, or taken without an answer *)
Send(w) ==
  /\ worker[w].phase = "send"
  /\ \E m \in worker[w].todo, ok \in BOOLEAN :
       /\ worker' = [worker EXCEPT ![w].phase = "mark", ![w].cur = m, ![w].ok = ok,
                                   ![w].infra = @ \/ ~ok]
       /\ \/ sends' = [sends EXCEPT ![m] = @ + (IF ok THEN 1 ELSE 0)] /\ NoFault
          \/ ~ok /\ sends' = [sends EXCEPT ![m] = @ + 1] /\ Fault
  /\ UNCHANGED <<course, user, fan, lock, mail, circuit, inserted>>

(* Mutant: a mail with a result is not taken off the list. *)
NotSeen(w, m) ==
  worker' = [worker EXCEPT ![w].cur = 0, ![w].ok = FALSE, ![w].good = @ \/ worker[w].ok,
                           ![w].phase = "send"]

(* The result of m is written (seen, sliceSuccessCount). *)
After(w, m) ==
  worker' = [worker EXCEPT ![w].todo = @ \ {m}, ![w].cur = 0, ![w].ok = FALSE,
               ![w].good = @ \/ worker[w].ok,
               ![w].phase = IF worker[w].todo = {m} THEN "end" ELSE "send"]

(* markEmailOutboxJobSent; when it fails the mail is recorded as refused.  *)
MarkSent(w) ==
  LET m == worker[w].cur
  IN  /\ worker[w].phase = "mark" /\ worker[w].ok
      /\ \/ Update(m, [mail[m] EXCEPT !.status = "sent"]) /\ After(w, m) /\ NoFault
         \/ /\ UNCHANGED mail /\ Fault
            /\ worker' = [worker EXCEPT ![w].ok = FALSE, ![w].infra = TRUE]
      /\ UNCHANGED <<course, user, fan, lock, circuit, inserted, sends>>

(* The retry of a refused mail; when it fails the session is given up. *)
MarkRefused(w) ==
  LET m == worker[w].cur
  IN  /\ worker[w].phase = "mark" /\ ~worker[w].ok
      /\ \/ MarkRetry(w, m) /\ After(w, m) /\ NoFault
         \/ /\ UNCHANGED mail /\ Fault
            /\ worker' = [worker EXCEPT ![w].phase = "unseen", ![w].infra = TRUE, ![w].cur = 0]
      /\ UNCHANGED <<course, user, fan, lock, circuit, inserted, sends>>

(* The retries of the rows without a result, after a missing configuration *)
(* or at the end of a failed session; a failed write ends the group.       *)
RetryRest(w) ==
  /\ worker[w].phase \in {"config", "unseen"}
  /\ \E m \in worker[w].todo :
       \/ /\ MarkRetry(w, m) /\ NoFault
          /\ IF worker[w].todo # {m} THEN worker' = [worker EXCEPT ![w].todo = @ \ {m}]
             ELSE IF worker[w].phase = "config" THEN Stop(w)
             ELSE worker' = [worker EXCEPT ![w].todo = {}, ![w].phase = "end"]
       \/ UNCHANGED mail /\ Stop(w) /\ Fault
  /\ UNCHANGED <<course, user, fan, lock, circuit, inserted, sends>>

(* The circuit after a session *)
EndSlice(w) ==
  /\ worker[w].phase = "end"
  /\ IF worker[w].good THEN circuit' = [circuit EXCEPT ![w] = Closed]
     ELSE IF worker[w].infra THEN SmtpFailure(w) ELSE UNCHANGED circuit
  /\ Stop(w)
  /\ UNCHANGED <<course, user, fan, lock, mail, inserted, sends, faults>>

-----------------------------------------------------------------------------
(* Deletion and retention *)

(* requestUserDeletion: deleteOutboxMail with the mark on the user *)
RequestUserDeletion(r) ==
  /\ r \in Deletable /\ user[r] = "active"
  /\ user' = [user EXCEPT ![r] = "requested"]
  /\ mail' = [mail EXCEPT ![r] = NoRow]
  /\ UNCHANGED <<course, fan, lock, worker, circuit, inserted, sends, faults>>

(* requestCourseDeletion waits for the fan-out that holds the course. *)
RequestCourseDeletion ==
  /\ MayDelete /\ course = "active"
  /\ lock = None
  /\ course' = "requested"
  /\ UNCHANGED <<user, fan, lock, mail, worker, circuit, inserted, sends, faults>>

(* deleteCourseOutboxInBatches, then the fan-out job *)
PurgeCourse ==
  /\ \/ /\ course = "requested" /\ course' = "unmailed"
        /\ mail' = [m \in Mail |-> NoRow]
        /\ UNCHANGED fan
     \/ /\ course = "unmailed" /\ course' = "purged"
        /\ fan' = [fan EXCEPT !.status = "gone"]
        /\ lock = None
        /\ UNCHANGED mail
  /\ UNCHANGED <<user, lock, worker, circuit, inserted, sends, faults>>

(* cleanupSentEmailOutboxBatch *)
CleanupSent(m) ==
  /\ mail[m].status = "sent"
  /\ mail' = [mail EXCEPT ![m] = NoRow]
  /\ UNCHANGED <<course, user, fan, lock, worker, circuit, inserted, sends, faults>>

-----------------------------------------------------------------------------
(* Time and crashes *)

MailDue(m) ==
  /\ ~mail[m].due
  /\ mail' = [mail EXCEPT ![m].due = TRUE]
  /\ UNCHANGED <<course, user, fan, lock, worker, circuit, inserted, sends, faults>>

FanDue ==
  /\ ~fan.due
  /\ fan' = [fan EXCEPT !.due = TRUE]
  /\ UNCHANGED <<course, user, lock, mail, worker, circuit, inserted, sends, faults>>

CooldownEnds(w) ==
  /\ circuit[w].cooling
  /\ circuit' = [circuit EXCEPT ![w].cooling = FALSE]
  /\ UNCHANGED <<course, user, fan, lock, mail, worker, inserted, sends, faults>>

(* Five minutes pass; it is a fault when a worker is still on the row.     *)
MailStale(m) ==
  /\ mail[m].status = "sending"
  /\ IF \E w \in Worker : m \in worker[w].held THEN Fault ELSE NoFault
  /\ mail' = [mail EXCEPT ![m].status = "stale"]
  /\ UNCHANGED <<course, user, fan, lock, worker, circuit, inserted, sends>>

FanStale ==
  /\ fan.status = "running"
  /\ IF \E w \in Worker : worker[w].phase \in {"fanout", "page"} THEN Fault ELSE NoFault
  /\ fan' = [fan EXCEPT !.status = "stale"]
  /\ UNCHANGED <<course, user, lock, mail, worker, circuit, inserted, sends>>

Crash(w) ==
  /\ worker[w].phase # "idle"
  /\ Fault
  /\ Stop(w)
  /\ circuit' = [circuit EXCEPT ![w] = Closed]
  /\ lock' = IF lock = w THEN None ELSE lock
  /\ UNCHANGED <<course, user, fan, mail, inserted, sends>>

Step(w) ==
  \/ BeginFanout(w) \/ CommitFanout(w) \/ MarkFanoutJobFailed(w)
  \/ StartGroup(w) \/ Release(w) \/ Filter(w) \/ Cancel(w) \/ Connect(w) \/ Send(w)
  \/ MarkSent(w) \/ MarkRefused(w) \/ RetryRest(w) \/ EndSlice(w)

Next ==
  \/ \E w \in Worker :
       \/ ClaimFanout(w) \/ Claim(w) \/ Step(w)
       \/ FanoutThrows(w) \/ Deadline(w) \/ Crash(w) \/ CooldownEnds(w)
  \/ \E r \in Mail : RequestUserDeletion(r)
  \/ \E m \in Mail : CleanupSent(m) \/ MailDue(m) \/ MailStale(m)
  \/ RequestCourseDeletion \/ PurgeCourse \/ FanDue \/ FanStale

Spec == Init /\ [][Next]_vars

(* The workers' interval timers and the clock go on. *)
Fairness ==
  /\ \A w \in Worker :
       WF_vars(ClaimFanout(w)) /\ WF_vars(Claim(w)) /\ WF_vars(Step(w)) /\ WF_vars(CooldownEnds(w))
  /\ \A m \in Mail : WF_vars(MailDue(m)) /\ WF_vars(MailStale(m))
  /\ WF_vars(FanDue) /\ WF_vars(FanStale)

LiveSpec == Spec /\ Fairness

-----------------------------------------------------------------------------
(* Properties *)

(* The fan-out writes each mail once, however many workers take the job    *)
(* over and whatever the retention has deleted since; and when it is done  *)
(* it has left no recipient out who was never deleted.                     *)
FanoutIsExact ==
  \A r \in Mail :
    /\ inserted[r] <= 1
    /\ fan.status = "done" /\ user[r] = "active" => inserted[r] = 1

(* A purged course leaves no mail behind: no fan-out writes a row that the *)
(* purge has not seen.                                                     *)
PurgedIsSilent ==
  course \in {"unmailed", "purged"} => \A m \in Mail : mail[m].status = "none"

(* A worker that is about to mail a recipient under deletion checked the   *)
(* recipient before the request: the request has deleted the row.          *)
LateMailIsInFlight ==
  \A w \in Worker, r \in Mail :
    worker[w].phase \in {"connect", "send"} /\ r \in worker[w].todo /\ user[r] = "requested"
      => mail[r].status = "none"

(* Nobody is mailed twice without a reason: each further copy of a mail    *)
(* goes back to a crash, a lost answer, a failed write or a slow worker.   *)
CopiesNeedFaults == \A m \in Mail : sends[m] <= 1 + faults

(* A mail is given up only after all its attempts, although the attempts   *)
(* are counted in the row and judged by the worker's copy.                 *)
FailedIsSpent ==
  \A m \in Mail : mail[m].status = "failed" => mail[m].attempts >= MaxAttempts

(* A fan-out job comes to its end. *)
FanoutEnds == (fan.status = "pending") ~> (fan.status \in {"done", "gone"})

(* A waiting mail is sent, given up or discarded, or its recipient's       *)
(* deletion was requested.                                                 *)
MailResolves ==
  \A m \in Mail :
    (mail[m].status = "pending")
      ~> (mail[m].status \in {"sent", "failed", "none"} \/ ~Mailable(m))

=============================================================================
