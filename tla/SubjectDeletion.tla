--------------------------- MODULE SubjectDeletion ---------------------------
(***************************************************************************)
(* The permanent deletion of a course, of a block subtree or of a user: a  *)
(* durable job that removes database rows and storage objects.  Before the *)
(* rows that name an object go, the object's key is written to a durable   *)
(* manifest; the manifest is drained object by object.                     *)
(*                                                                         *)
(* A course is purged and then drained, a user is drained and then purged, *)
(* a block batch is deleted and registered in one transaction.  Workers    *)
(* are woken by messages; a poller recovers lost messages and jobs whose   *)
(* lease lapsed.  Each action is one SQL statement or transaction, one     *)
(* call of the storage or one step of the consumer.                        *)
(*                                                                         *)
(* Objects are numbered in the order of their keys; 0 is an empty cursor.  *)
(***************************************************************************)
EXTENDS Integers, FiniteSets

CONSTANTS
  Kind,            \* the kinds of job checked, of "course", "block", "user"
  Worker,          \* consumers
  N,               \* objects
  Row,             \* objects that rows of the subject name
  Feedback,        \* of these, the ones found in feedback files (user jobs)
  Prefixed,        \* objects under the subject's storage prefix
  Foreign,         \* of these, the ones an asset row of another course owns
  PageSize,        \* rows, objects and items per statement
  MaxAttempts,     \* DELETION_MAX_ATTEMPTS
  MayStall,        \* a worker may lose its heartbeat for as long as the lease
  MaxFaults,       \* bound: errors, crashes and stalls
  MaxRetries,      \* bound: retries by an operator
  MaxCopies        \* bound: queued wake-ups; more are as good

Object == 1..N

ASSUME SubjectAssumption ==
  /\ Kind \subseteq {"course", "block", "user"}
  /\ N \in Nat
  /\ Row \subseteq Object /\ Feedback \subseteq Row
  /\ Prefixed \subseteq Object /\ Foreign \subseteq Prefixed \ Row
  /\ PageSize \in Nat \ {0}
  /\ MaxAttempts \in Nat \ {0}
  /\ MayStall \in BOOLEAN

ASSUME BoundAssumption ==
  MaxFaults \in Nat /\ MaxRetries \in Nat /\ MaxCopies \in Nat \ {0}

VARIABLES
  kind,     \* target_type of the job
  job,      \* the row of course_deletion_jobs or user_deletion_jobs
  subject,  \* the course, root block or user: "active", "requested", "gone"
  rows,     \* objects still named by a row of the subject
  store,    \* objects in the bucket
  item,     \* item[o]: status of o's row in deletion_storage_items
  cursor,   \* the row of deletion_storage_scan_cursors
  wakes,    \* wake-ups in the broker
  worker,   \* what each consumer is doing
  faults,   \* errors, crashes and stalls so far
  retries   \* retries by an operator so far

vars ==
  <<kind, job, subject, rows, store, item, cursor, wakes, worker, faults, retries>>

(* "none": not requested yet.  lease: lease_expires_at in the future, in   *)
(* the past or null; due: next_attempt_at is not in the future.            *)
JobRow ==
  [status : {"none", "queued", "running", "succeeded", "failed"},
   terminal : BOOLEAN, attempts : 0..(MaxAttempts + MaxFaults),
   lease : {"none", "live", "lapsed"}, due : BOOLEAN, manifested : BOOLEAN]

(* "leased" and "lapsed" are status 'running' before and after the end of  *)
(* the item's own lease.                                                   *)
ItemStatus == {"none", "pending", "leased", "lapsed", "done"}

Running == {"refs", "scan", "advance", "feedback", "seal", "check", "rows",
            "subject", "block", "claim", "remove", "mark", "release", "succeed"}

(* at: the in-memory cursor of a loop; batch: the claimed items. *)
Slot ==
  [phase : Running \cup {"idle", "failed", "exhausted"}, at : 0..N,
   batch : SUBSET Object, stalled : BOOLEAN]

IdleSlot == [phase |-> "idle", at |-> 0, batch |-> {}, stalled |-> FALSE]

TypeOK ==
  /\ kind \in Kind
  /\ job \in JobRow
  /\ subject \in {"active", "requested", "gone"}
  /\ rows \subseteq Row
  /\ store \subseteq Object
  /\ item \in [Object -> ItemStatus]
  /\ cursor \in [at : 0..N, completed : BOOLEAN]
  /\ wakes \in 0..MaxCopies
  /\ worker \in [Worker -> Slot]
  /\ faults \in 0..MaxFaults
  /\ retries \in 0..MaxRetries

NoCursor == [at |-> 0, completed |-> FALSE]

Init ==
  /\ kind \in Kind
  /\ job = [status |-> "none", terminal |-> FALSE, attempts |-> 0,
            lease |-> "none", due |-> TRUE, manifested |-> FALSE]
  /\ subject = "active"
  /\ rows = Row
  /\ store = Object
  /\ item = [o \in Object |-> "none"]
  /\ cursor = NoCursor
  /\ wakes = 0
  /\ worker = [w \in Worker |-> IdleSlot]
  /\ faults = 0
  /\ retries = 0

Fault == faults < MaxFaults /\ faults' = faults + 1
NoFault == UNCHANGED faults

-----------------------------------------------------------------------------
(* Requests and wake-ups *)

Published == IF wakes < MaxCopies THEN wakes + 1 ELSE wakes

(* A publish that fails is logged; the poller recovers the job. *)
Publish ==
  \/ wakes' = Published /\ NoFault
  \/ UNCHANGED wakes /\ Fault

(* The job row, the mark on the subject and the wake-up of a request.  A   *)
(* second request finds the subject marked, or the user's open job.        *)
Enqueue ==
  /\ subject = "active"
  /\ subject' = "requested"
  /\ job' = [job EXCEPT !.status = "queued"]
  /\ Publish
  /\ UNCHANGED <<kind, rows, store, item, cursor, worker, retries>>

(* requestCourseDeletion, requestBlockDeletion *)
RequestCourse == kind # "user" /\ Enqueue

RequestUser == kind = "user" /\ Enqueue

(* requeueTerminalJob and its wake-up *)
OperatorRetry ==
  /\ job.terminal
  /\ retries < MaxRetries
  /\ retries' = retries + 1
  /\ job' = [job EXCEPT !.status = "queued", !.terminal = FALSE, !.attempts = 0,
                        !.due = TRUE, !.lease = "none"]
  /\ Publish
  /\ UNCHANGED <<kind, subject, rows, store, item, cursor, worker>>

(* Mutant: jobs whose worker died are left to their worker. *)
OnlyWaiting == ~job.terminal /\ job.status \in {"queued", "failed"} /\ job.due

(* The condition of markJobRunning and of the poller's selection *)
Runnable ==
  /\ ~job.terminal
  /\ \/ job.status \in {"queued", "failed"} /\ job.due
     \/ job.status = "running" /\ job.lease = "lapsed" /\ job.due

(* requeuePendingDeletionJobs *)
Sweep ==
  /\ Runnable
  /\ wakes < MaxCopies
  /\ wakes' = wakes + 1
  /\ UNCHANGED <<kind, job, subject, rows, store, item, cursor, worker, faults, retries>>

-----------------------------------------------------------------------------
(* Time *)

BackoffEnds ==
  /\ ~job.due
  /\ job' = [job EXCEPT !.due = TRUE]
  /\ UNCHANGED <<kind, subject, rows, store, item, cursor, wakes, worker, faults, retries>>

Active(w) == worker[w].phase \in Running /\ ~worker[w].stalled

(* The heartbeat of a running worker renews the lease every minute, and an *)
(* item claimed within a minute of the last renewal is leased 10 minutes,  *)
(* so 15 minutes without a renewal outlast the items' leases too.          *)
LeaseLapses ==
  /\ job.lease = "live"
  /\ \A w \in Worker : ~Active(w)
  /\ \A o \in Object : item[o] # "leased"
  /\ job' = [job EXCEPT !.lease = "lapsed"]
  /\ UNCHANGED <<kind, subject, rows, store, item, cursor, wakes, worker, faults, retries>>

ItemLapses(o) ==
  /\ item[o] = "leased"
  /\ item' = [item EXCEPT ![o] = "lapsed"]
  /\ UNCHANGED <<kind, job, subject, rows, store, cursor, wakes, worker, faults, retries>>

(* touchJobLease, by the heartbeat or between two steps: any worker that   *)
(* still believes in the job renews the lease.                             *)
Touch(w) ==
  /\ Active(w)
  /\ job.status = "running" /\ job.lease = "lapsed"
  /\ job' = [job EXCEPT !.lease = "live"]
  /\ UNCHANGED <<kind, subject, rows, store, item, cursor, wakes, worker, faults, retries>>

-----------------------------------------------------------------------------
(* The run of a job *)

Go(w, phase) == worker' = [worker EXCEPT ![w].phase = phase]
GoAt(w, phase, at) == worker' = [worker EXCEPT ![w].phase = phase, ![w].at = at]

(* The step after the manifest: a course is purged, a user is drained. *)
AfterManifest(k) == IF k = "course" THEN "check" ELSE "claim"

(* Mutant: the retry of a block job goes on with the drain. *)
DrainOnRetry ==
  IF kind = "block" THEN IF job.attempts > 0 THEN "claim" ELSE "block"
  ELSE IF job.manifested \/ subject = "gone" THEN AfterManifest(kind)
  ELSE "refs"

(* The first step of a claimed job: the manifest is skipped when it was    *)
(* completed or the subject is gone.                                       *)
FirstPhase ==
  IF kind = "block" THEN "block"
  ELSE IF job.manifested \/ subject = "gone" THEN AfterManifest(kind)
  ELSE "refs"

(* A wake-up: markJobRunning claims the job, or the message is dropped. *)
Deliver(w) ==
  /\ worker[w].phase = "idle" /\ wakes > 0
  /\ wakes' = wakes - 1
  /\ IF Runnable
     THEN /\ job' = [job EXCEPT !.status = "running", !.attempts = @ + 1, !.lease = "live"]
          /\ worker' = [worker EXCEPT ![w] = [IdleSlot EXCEPT !.phase = FirstPhase]]
     ELSE UNCHANGED <<job, worker>>
  /\ UNCHANGED <<kind, subject, rows, store, item, cursor, faults, retries>>

(* registerStorageManifestPaths: keys that are listed already stay as they *)
(* are.                                                                    *)
Registered(S) == [o \in Object |-> IF o \in S /\ item[o] = "none" THEN "pending" ELSE item[o]]

(* The first PageSize members of S after a. *)
PageOf(S, a) == {o \in S : o > a /\ Cardinality({p \in S : a < p /\ p <= o}) <= PageSize}
LastOf(P) == CHOOSE o \in P : \A p \in P : p <= o

(* What the rows name: all of it page by page for a course, the files and  *)
(* the avatar in one statement for a user.                                 *)
NamedByRows == IF kind = "user" THEN rows \ Feedback ELSE rows

AfterScan == IF kind = "user" THEN "feedback" ELSE "seal"

(* ensureCourseStorageManifest and createUserStorageManifest up to the     *)
(* prefix scan                                                             *)
RegisterRefs(w) ==
  /\ Active(w) /\ worker[w].phase = "refs"
  /\ LET page == IF kind = "user" THEN NamedByRows ELSE PageOf(NamedByRows, worker[w].at)
         last == page = {} \/ kind = "user"
     IN  /\ item' = Registered(page)
         /\ IF last
            THEN IF cursor.completed THEN GoAt(w, AfterScan, 0) ELSE GoAt(w, "scan", cursor.at)
            ELSE GoAt(w, "refs", LastOf(page))
  /\ UNCHANGED <<kind, job, subject, rows, store, cursor, wakes, faults, retries>>

(* Mutant: the scan takes everything under the prefix. *)
WholePrefix == store \cap Prefixed

(* selectStorageObjectPage: objects that another course's asset row owns   *)
(* are left out.                                                           *)
Scannable == (store \cap Prefixed) \ Foreign

(* discoverStoragePrefixManifestPaths: a page is registered, then the      *)
(* cursor advances; an empty page completes the cursor.                    *)
ScanPage(w) ==
  /\ Active(w) /\ worker[w].phase = "scan"
  /\ LET page == PageOf(Scannable, worker[w].at)
     IN  IF page = {}
         THEN /\ cursor' = [cursor EXCEPT !.completed = TRUE]
              /\ Go(w, AfterScan)
              /\ UNCHANGED item
         ELSE /\ item' = Registered(page)
              /\ GoAt(w, "advance", LastOf(page))
              /\ UNCHANGED cursor
  /\ UNCHANGED <<kind, job, subject, rows, store, wakes, faults, retries>>

(* Mutant: the page that is read next is saved as the cursor. *)
AheadOf(a) == a + PageSize

ScannedTo(a) == a

AdvanceCursor(w) ==
  /\ Active(w) /\ worker[w].phase = "advance"
  /\ cursor' = [cursor EXCEPT !.at = IF @ < worker[w].at THEN ScannedTo(worker[w].at) ELSE @]
  /\ Go(w, "scan")
  /\ UNCHANGED <<kind, job, subject, rows, store, item, wakes, faults, retries>>

RegisterFeedback(w) ==
  /\ Active(w) /\ worker[w].phase = "feedback"
  /\ item' = Registered(rows \cap Feedback)
  /\ Go(w, "seal")
  /\ UNCHANGED <<kind, job, subject, rows, store, cursor, wakes, faults, retries>>

(* markManifestCompleted *)
SealManifest(w) ==
  /\ Active(w) /\ worker[w].phase = "seal"
  /\ job' = [job EXCEPT !.manifested = @ \/ job.status = "running"]
  /\ Go(w, AfterManifest(kind))
  /\ UNCHANGED <<kind, subject, rows, store, item, cursor, wakes, faults, retries>>

AfterPurge == IF kind = "course" THEN "claim" ELSE "succeed"

(* courseExists, userExists, once before the purge: a subject that is gone *)
(* already has nothing left to purge.                                      *)
CheckSubject(w) ==
  /\ Active(w) /\ worker[w].phase = "check"
  /\ Go(w, IF subject = "gone" THEN AfterPurge ELSE "rows")
  /\ UNCHANGED <<kind, job, subject, rows, store, item, cursor, wakes, faults, retries>>

(* One bounded delete of the purge. *)
DeleteBatch(w) ==
  /\ Active(w) /\ worker[w].phase = "rows"
  /\ IF rows = {} THEN Go(w, "subject") /\ UNCHANGED rows
     ELSE \E r \in rows : rows' = rows \ {r} /\ UNCHANGED worker
  /\ UNCHANGED <<kind, job, subject, store, item, cursor, wakes, faults, retries>>

PurgeCourse(w) == kind = "course" /\ DeleteBatch(w)

PurgeUser(w) == kind = "user" /\ DeleteBatch(w)

(* deleteCourse, deleteUser: what is left goes by cascade.  A user row     *)
(* that somebody else deleted is an error.                                 *)
DeleteSubject(w) ==
  /\ Active(w) /\ worker[w].phase = "subject"
  /\ subject' = "gone"
  /\ rows' = {}
  /\ Go(w, IF kind = "user" /\ subject = "gone" THEN "failed" ELSE AfterPurge)
  /\ UNCHANGED <<kind, job, store, item, cursor, wakes, faults, retries>>

(* Mutant: the leaves are deleted and their objects forgotten. *)
Forgotten(S) == item

LeafItems(S) == Registered(S)

(* deleteLeafBlocksByRoot: the leaves and the manifest in one transaction; *)
(* the root goes with the last batch.                                      *)
PurgeLeaves(w) ==
  /\ Active(w) /\ worker[w].phase = "block"
  /\ IF subject = "gone"
     THEN Go(w, "claim") /\ UNCHANGED <<rows, item, subject>>
     ELSE \E leaves \in SUBSET rows :
            /\ leaves # {} \/ rows = {}
            /\ rows' = rows \ leaves
            /\ item' = LeafItems(leaves)
            /\ subject' = IF leaves = rows THEN "gone" ELSE subject
            /\ UNCHANGED worker
  /\ UNCHANGED <<kind, job, store, cursor, wakes, faults, retries>>

-----------------------------------------------------------------------------
(* The drain of the manifest *)

Pending == {o \in Object : item[o] = "pending"}

(* claimItems.  The CTE that releases lapsed leases and the one that picks *)
(* pending items share a snapshot: what the first releases, the second     *)
(* does not see.  No picked item ends the drain.                           *)
ClaimItems(w) ==
  /\ Active(w) /\ worker[w].phase = "claim"
  /\ \E batch \in SUBSET Pending :
       /\ Cardinality(batch) = IF Cardinality(Pending) < PageSize THEN Cardinality(Pending) ELSE PageSize
       /\ item' = [o \in Object |-> IF o \in batch THEN "leased"
                                    ELSE IF item[o] = "lapsed" THEN "pending" ELSE item[o]]
       /\ worker' = [worker EXCEPT ![w].batch = batch, ![w].phase =
            IF batch # {} THEN "remove" ELSE IF kind = "user" THEN "check" ELSE "succeed"]
  /\ UNCHANGED <<kind, job, subject, rows, store, cursor, wakes, faults, retries>>

(* deleteFiles; a provider error may leave some of the batch removed. *)
RemoveObjects(w) ==
  /\ Active(w) /\ worker[w].phase = "remove"
  /\ \/ store' = store \ worker[w].batch /\ Go(w, "mark") /\ NoFault
     \/ /\ Fault
        /\ \E removed \in SUBSET worker[w].batch : store' = store \ removed
        /\ Go(w, "release")
  /\ UNCHANGED <<kind, job, subject, rows, item, cursor, wakes, retries>>

Settled(S, status) == [o \in Object |-> IF o \in S /\ item[o] # "none" THEN status ELSE item[o]]

(* markItemsSucceeded *)
MarkItems(w) ==
  /\ Active(w) /\ worker[w].phase = "mark"
  /\ \/ item' = Settled(worker[w].batch, "done") /\ Go(w, "claim") /\ NoFault
     \/ UNCHANGED item /\ Go(w, "release") /\ Fault
  /\ UNCHANGED <<kind, job, subject, rows, store, cursor, wakes, retries>>

(* releaseItems; its own failure is logged and the drain's error thrown. *)
ReleaseItems(w) ==
  /\ Active(w) /\ worker[w].phase = "release"
  /\ \/ item' = Settled(worker[w].batch, "pending") /\ NoFault
     \/ UNCHANGED item /\ Fault
  /\ Go(w, "failed")
  /\ UNCHANGED <<kind, job, subject, rows, store, cursor, wakes, retries>>

-----------------------------------------------------------------------------
(* The end of a run *)

(* markJobSucceeded: the manifest goes with the success. *)
Succeed(w) ==
  /\ Active(w) /\ worker[w].phase = "succeed"
  /\ item' = [o \in Object |-> "none"]
  /\ cursor' = NoCursor
  /\ job' = [job EXCEPT !.status = "succeeded", !.terminal = FALSE,
                        !.lease = "none", !.due = TRUE]
  /\ worker' = [worker EXCEPT ![w] = IdleSlot]
  /\ UNCHANGED <<kind, subject, rows, store, wakes, faults, retries>>

(* A statement fails; the drain's own errors are above. *)
Throw(w) ==
  /\ Active(w) /\ worker[w].phase \notin {"remove", "mark", "release"}
  /\ Fault
  /\ Go(w, "failed")
  /\ UNCHANGED <<kind, job, subject, rows, store, item, cursor, wakes, retries>>

(* markJobRetryable: whoever runs the job. *)
Retryable ==
  IF job.status # "running" THEN job
  ELSE [job EXCEPT !.status = IF job.attempts >= MaxAttempts THEN "failed" ELSE "queued",
                   !.terminal = job.attempts >= MaxAttempts,
                   !.lease = "none", !.due = job.attempts >= MaxAttempts]

(* onRunFailed: the failure is recorded, or the record fails and is        *)
(* logged; then the consumer publishes the message again, or, after its    *)
(* last retry, goes on to onRetriesExhausted.                              *)
RunFailed(w) ==
  /\ worker[w].phase = "failed" /\ ~worker[w].stalled
  /\ \/ job' = Retryable /\ NoFault
     \/ UNCHANGED job /\ Fault
  /\ \/ wakes' = Published /\ worker' = [worker EXCEPT ![w] = IdleSlot]
     \/ UNCHANGED wakes /\ Go(w, "exhausted")
  /\ UNCHANGED <<kind, subject, rows, store, item, cursor, retries>>

(* onRetriesExhausted *)
RetriesExhausted(w) ==
  /\ worker[w].phase = "exhausted" /\ ~worker[w].stalled
  /\ \/ job' = Retryable /\ NoFault
     \/ UNCHANGED job /\ Fault
  /\ worker' = [worker EXCEPT ![w] = IdleSlot]
  /\ UNCHANGED <<kind, subject, rows, store, item, cursor, wakes, retries>>

(* The process dies; the broker delivers its message again. *)
Crash(w) ==
  /\ worker[w].phase # "idle"
  /\ Fault
  /\ worker' = [worker EXCEPT ![w] = IdleSlot]
  /\ wakes' = Published
  /\ UNCHANGED <<kind, job, subject, rows, store, item, cursor, retries>>

Stall(w) ==
  /\ MayStall
  /\ worker[w].phase # "idle" /\ ~worker[w].stalled
  /\ Fault
  /\ worker' = [worker EXCEPT ![w].stalled = TRUE]
  /\ UNCHANGED <<kind, job, subject, rows, store, item, cursor, wakes, retries>>

Resume(w) ==
  /\ worker[w].stalled
  /\ worker' = [worker EXCEPT ![w].stalled = FALSE]
  /\ UNCHANGED <<kind, job, subject, rows, store, item, cursor, wakes, faults, retries>>

Step(w) ==
  \/ RegisterRefs(w) \/ ScanPage(w) \/ AdvanceCursor(w) \/ RegisterFeedback(w)
  \/ SealManifest(w) \/ CheckSubject(w) \/ PurgeCourse(w) \/ PurgeUser(w)
  \/ DeleteSubject(w) \/ PurgeLeaves(w)
  \/ ClaimItems(w) \/ RemoveObjects(w) \/ MarkItems(w) \/ ReleaseItems(w)
  \/ Succeed(w) \/ RunFailed(w) \/ RetriesExhausted(w)

Next ==
  \/ RequestCourse \/ RequestUser \/ OperatorRetry \/ Sweep \/ BackoffEnds \/ LeaseLapses
  \/ \E o \in Object : ItemLapses(o)
  \/ \E w \in Worker :
       Deliver(w) \/ Step(w) \/ Touch(w) \/ Throw(w) \/ Crash(w) \/ Stall(w) \/ Resume(w)

Spec == Init /\ [][Next]_vars

(* The poller and the clock go on, a consumer takes its next step, and a   *)
(* stalled process recovers.                                               *)
Fairness ==
  /\ WF_vars(Sweep) /\ WF_vars(BackoffEnds) /\ WF_vars(LeaseLapses)
  /\ \A o \in Object : WF_vars(ItemLapses(o))
  /\ \A w \in Worker :
       WF_vars(Deliver(w)) /\ WF_vars(Step(w)) /\ WF_vars(Resume(w))

LiveSpec == Spec /\ Fairness

-----------------------------------------------------------------------------
(* Properties *)

Unfinished == {o \in Object : item[o] \in {"pending", "leased", "lapsed"}}

(* The objects a finished job must have removed. *)
Doomed == Row \cup IF kind = "block" THEN {} ELSE Prefixed \ Foreign

(* Until the job succeeds, an object of the subject that is still in the   *)
(* bucket can be found again after any crash: a row still names it, the    *)
(* manifest lists it, or the saved scan has not passed it.                 *)
NothingForgotten ==
  job.status # "succeeded" =>
    \A o \in Doomed \cap store :
      \/ o \in rows
      \/ o \in Unfinished
      \/ o \in Prefixed /\ o > cursor.at /\ ~cursor.completed /\ subject # "gone"

(* The objects of courses and blocks go after the rows that name them: no  *)
(* committed row, of the subject or of the course an asset moved to, names *)
(* a removed object.                                                       *)
NoDanglingRow ==
  kind # "user" => rows \cup Foreign \subseteq store

(* A succeeded job has left neither the subject nor a row of it, whoever   *)
(* took the job over in between.                                           *)
SucceededIsPurged ==
  job.status = "succeeded" => subject = "gone" /\ rows = {}

(* A succeeded job has removed every object of the subject: a crash of the *)
(* drain only repeats the removal.                                         *)
SucceededIsRemoved ==
  job.status = "succeeded" => Doomed \cap store = {}

(* A requested deletion ends: it succeeds or its retries are exhausted,    *)
(* whatever messages are lost and workers die.                             *)
DeletionEnds ==
  (job.status = "queued") ~> (job.status = "succeeded" \/ job.terminal)

=============================================================================
