------------------------ MODULE ProgressRecalculation ------------------------
(***************************************************************************)
(* The course progress recalculation job: one durable job row per course,  *)
(* worked off in batches of enrollments by consumers that RabbitMQ wakes   *)
(* up, with a poller that recovers lost wake-ups and dead workers.         *)
(*                                                                         *)
(* The row carries no lease: 'running' is the only mark of an owner.  Each *)
(* action is one SQL statement, one publish or one step of the consumer;   *)
(* statements of several workers, requests and the poller interleave.      *)
(*                                                                         *)
(* Enrollments are numbered in the order of their ids; 0 is a null         *)
(* last_enrollment_id.  Queued messages differ only in x-retries.          *)
(***************************************************************************)
EXTENDS Integers

CONSTANTS
  Worker,       \* consumer slots: processes times prefetch
  N,            \* active enrollments of the course
  BatchSize,    \* COURSE_PROGRESS_RECALC_BATCH_SIZE
  MaxBatches,   \* COURSE_PROGRESS_RECALC_MAX_BATCHES_PER_TICK
  MaxRetries,   \* MAX_RETRIES of the consumer
  MayStall,     \* a step of a worker may outlast the 10 minutes of the poller
  MaxRequests,  \* bound: requests
  MaxFaults,    \* bound: errors, crashes and stalls
  MaxCopies     \* bound: queued messages with equal x-retries; more are as good

ASSUME SizeAssumption ==
  /\ N \in Nat
  /\ BatchSize \in Nat \ {0}
  /\ MaxBatches \in Nat
  /\ MaxRetries \in Nat
  /\ MayStall \in BOOLEAN

ASSUME BoundAssumption ==
  MaxRequests \in Nat /\ MaxFaults \in Nat /\ MaxCopies \in Nat \ {0}

VARIABLES
  job,       \* the row: status, rerun_requested, last_enrollment_id
  queue,     \* queue[r]: wake-ups in the broker with x-retries = r
  worker,    \* what each consumer slot is doing
  poll,      \* the poller is before its update or before its wake-ups
  calc,      \* calc[e]: requests made before e was last calculated
  requests,  \* history: requests committed
  faults     \* errors, crashes and stalls so far

vars == <<job, queue, worker, poll, calc, requests, faults>>

Enrollment == 1..N

(* "none": no request was made yet. *)
JobRow ==
  [status : {"none", "queued", "running", "succeeded", "failed"},
   rerun : BOOLEAN, cursor : 0..N]

(* Phases in which a worker believes it owns the job. *)
Busy == {"slice", "cursor", "complete", "yield"}

(* cursor, slices: the worker's copy of the job and its loop counter;      *)
(* retries: x-retries of the unacknowledged message.                       *)
Slot ==
  [phase : Busy \cup {"idle", "wake", "error", "republish", "exhausted"},
   cursor : 0..N, slices : 0..MaxBatches, retries : 0..MaxRetries]

IdleSlot == [phase |-> "idle", cursor |-> 0, slices |-> 0, retries |-> 0]

TypeOK ==
  /\ job \in JobRow
  /\ queue \in [0..MaxRetries -> 0..MaxCopies]
  /\ worker \in [Worker -> Slot]
  /\ poll \in {"idle", "wake"}
  /\ calc \in [Enrollment -> 0..MaxRequests]
  /\ requests \in 0..MaxRequests
  /\ faults \in 0..MaxFaults

Init ==
  /\ job = [status |-> "none", rerun |-> FALSE, cursor |-> 0]
  /\ queue = [r \in 0..MaxRetries |-> 0]
  /\ worker = [w \in Worker |-> IdleSlot]
  /\ poll = "idle"
  /\ calc = [e \in Enrollment |-> 0]
  /\ requests = 0
  /\ faults = 0

Fault == faults < MaxFaults /\ faults' = faults + 1
NoFault == UNCHANGED faults

-----------------------------------------------------------------------------
(* Broker: a persistent queue; publish is confirmed, delivery unordered *)

Published(q, r) == IF q[r] < MaxCopies THEN [q EXCEPT ![r] = @ + 1] ELSE q

-----------------------------------------------------------------------------
(* Requests *)

(* enqueueCourseProgressRecalculation on conflict *)
Requested ==
  IF job.status = "running" THEN [job EXCEPT !.rerun = TRUE]
  ELSE [status |-> "queued", rerun |-> FALSE, cursor |-> 0]

(* The wake-up after the commit may fail; the poller recovers it. *)
Schedule ==
  /\ requests < MaxRequests
  /\ requests' = requests + 1
  /\ job' = Requested
  /\ \/ queue' = Published(queue, 0) /\ NoFault
     \/ UNCHANGED queue /\ Fault
  /\ UNCHANGED <<worker, poll, calc>>

-----------------------------------------------------------------------------
(* Consumer: one message, one turn of the job *)

Move(w, phase) == worker' = [worker EXCEPT ![w].phase = phase]
Ack(w) == worker' = [worker EXCEPT ![w] = IdleSlot]

FirstPhase == IF MaxBatches > 0 THEN "slice" ELSE "yield"

Deliver(w, r) ==
  /\ worker[w].phase = "idle"
  /\ queue[r] > 0
  /\ queue' = [queue EXCEPT ![r] = @ - 1]

(* A message that finds the job not queued is acknowledged. *)
Claim(w, r) ==
  /\ Deliver(w, r)
  /\ IF job.status = "queued"
     THEN /\ job' = [job EXCEPT !.status = "running"]
          /\ worker' = [worker EXCEPT ![w] =
               [phase |-> FirstPhase, cursor |-> job.cursor, slices |-> 0, retries |-> r]]
     ELSE UNCHANGED <<job, worker>>
  /\ UNCHANGED <<poll, calc, requests, faults>>

ClaimThrows(w, r) ==
  /\ Deliver(w, r)
  /\ Fault
  /\ worker' = [worker EXCEPT ![w] = [IdleSlot EXCEPT !.phase = "error", !.retries = r]]
  /\ UNCHANGED <<job, poll, calc, requests>>

(* Mutant: the batch starts one enrollment too late. *)
SkipsOne(c) == {e \in Enrollment : e > c + 1 /\ e <= c + BatchSize}

(* The enrollments after cursor c, at most a batch. *)
Batch(c) == {e \in Enrollment : e > c /\ e <= c + BatchSize}

LastOf(c) == IF c + BatchSize <= N THEN c + BatchSize ELSE N

(* recalculateCourseProgressBatch: one statement. *)
RunSlice(w) ==
  LET c == worker[w].cursor IN
  /\ worker[w].phase = "slice"
  /\ calc' = [e \in Enrollment |-> IF e \in Batch(c) THEN requests ELSE calc[e]]
  /\ Move(w, IF c >= N THEN "complete" ELSE "cursor")
  /\ UNCHANGED <<job, queue, poll, requests, faults>>

(* updateCourseProgressRecalculationCursor: the write does not look at the *)
(* status; a batch that was not full is the last one.                      *)
UpdateCursor(w) ==
  LET c == worker[w].cursor
      n == worker[w].slices + 1
  IN
  /\ worker[w].phase = "cursor"
  /\ job' = [job EXCEPT !.cursor = LastOf(c)]
  /\ worker' = [worker EXCEPT ![w] =
       [@ EXCEPT !.cursor = LastOf(c), !.slices = n,
                 !.phase = IF c + BatchSize > N THEN "complete"
                           ELSE IF n < MaxBatches THEN "slice" ELSE "yield"]]
  /\ UNCHANGED <<queue, poll, calc, requests, faults>>

(* A rerun requested meanwhile starts over from the first enrollment. *)
Finished ==
  IF job.rerun THEN [status |-> "queued", rerun |-> FALSE, cursor |-> 0]
  ELSE [job EXCEPT !.status = "succeeded"]

(* finishCourseProgressRecalculationJob *)
Complete(w) ==
  /\ worker[w].phase = "complete"
  /\ IF job.status = "running"
     THEN /\ job' = Finished
          /\ IF Finished.status = "queued" THEN Move(w, "wake") ELSE Ack(w)
     ELSE UNCHANGED job /\ Ack(w)
  /\ UNCHANGED <<queue, poll, calc, requests, faults>>

(* pauseCourseProgressRecalculationJob *)
YieldTurn(w) ==
  /\ worker[w].phase = "yield"
  /\ job' = IF job.status = "running" THEN [job EXCEPT !.status = "queued"] ELSE job
  /\ Move(w, "wake")
  /\ UNCHANGED <<queue, poll, calc, requests, faults>>

Wake(w) ==
  /\ worker[w].phase = "wake"
  /\ queue' = Published(queue, 0)
  /\ Ack(w)
  /\ UNCHANGED <<job, poll, calc, requests, faults>>

(* A statement or a publish of the run fails; the broker may hold a wake-up*)
(* whose confirm was lost.                                                 *)
Throw(w) ==
  /\ worker[w].phase \in Busy \cup {"wake"}
  /\ Fault
  /\ \/ UNCHANGED queue
     \/ worker[w].phase = "wake" /\ queue' = Published(queue, 0)
  /\ Move(w, "error")
  /\ UNCHANGED <<job, poll, calc, requests>>

(* onRunFailed, markCourseProgressRecalculationJobRetryable; the consumer  *)
(* goes on when that write fails too.                                      *)
MarkRetryable(w) ==
  /\ worker[w].phase = "error"
  /\ \/ job' = (IF job.status = "succeeded" THEN job ELSE [job EXCEPT !.status = "queued"]) /\ NoFault
     \/ UNCHANGED job /\ Fault
  /\ Move(w, IF worker[w].retries < MaxRetries THEN "republish" ELSE "exhausted")
  /\ UNCHANGED <<queue, poll, calc, requests>>

(* The message is published with x-retries + 1, then acknowledged.  When   *)
(* the publish is not confirmed the message is requeued, and the broker may*)
(* hold both.                                                              *)
Republish(w) ==
  LET r == worker[w].retries IN
  /\ worker[w].phase = "republish"
  /\ \/ queue' = Published(queue, r + 1) /\ NoFault
     \/ queue' = Published(queue, r) /\ Fault
     \/ queue' = Published(Published(queue, r + 1), r) /\ Fault
  /\ Ack(w)
  /\ UNCHANGED <<job, poll, calc, requests>>

(* onRetriesExhausted, markCourseProgressRecalculationJobFailed *)
MarkFailed(w) ==
  /\ worker[w].phase = "exhausted"
  /\ \/ job' = (IF job.status = "succeeded" THEN job ELSE [job EXCEPT !.status = "failed"]) /\ NoFault
     \/ UNCHANGED job /\ Fault
  /\ Ack(w)
  /\ UNCHANGED <<queue, poll, calc, requests>>

(* The process dies; the broker delivers the unacknowledged message again. *)
Crash(w) ==
  /\ worker[w].phase # "idle"
  /\ Fault
  /\ queue' = Published(queue, worker[w].retries)
  /\ Ack(w)
  /\ UNCHANGED <<job, poll, calc, requests>>

-----------------------------------------------------------------------------
(* Poller: requeuePendingCourseProgressRecalculationJobs *)

Owned == \E w \in Worker : worker[w].phase \in Busy \cup {"error"}

(* Mutant: a running job is never taken back. *)
NeverStale == UNCHANGED <<job, faults>>

(* 'running' and not updated for 10 minutes: its worker is gone, or stalls.*)
RequeueStale ==
  \/ /\ job.status = "running"
     /\ job' = [job EXCEPT !.status = "queued"]
     /\ IF Owned THEN MayStall /\ Fault ELSE NoFault
  \/ /\ job.status # "running" \/ Owned
     /\ UNCHANGED <<job, faults>>

PollRequeue ==
  /\ poll = "idle"
  /\ poll' = "wake"
  /\ RequeueStale
  /\ UNCHANGED <<queue, worker, calc, requests>>

PollWake ==
  /\ poll = "wake"
  /\ poll' = "idle"
  /\ \/ queue' = (IF job.status = "queued" THEN Published(queue, 0) ELSE queue) /\ NoFault
     \/ UNCHANGED queue /\ Fault
  /\ UNCHANGED <<job, worker, calc, requests>>

-----------------------------------------------------------------------------
Step(w) ==
  \/ RunSlice(w)
  \/ UpdateCursor(w)
  \/ Complete(w)
  \/ YieldTurn(w)
  \/ Wake(w)
  \/ MarkRetryable(w)
  \/ Republish(w)
  \/ MarkFailed(w)

Next ==
  \/ Schedule
  \/ \E w \in Worker, r \in 0..MaxRetries : Claim(w, r) \/ ClaimThrows(w, r)
  \/ \E w \in Worker : Step(w) \/ Throw(w) \/ Crash(w)
  \/ PollRequeue
  \/ PollWake

Spec == Init /\ [][Next]_vars

(* The event loop of a live consumer takes messages and runs its awaits to *)
(* the end; the interval timer of the poller fires again and again.        *)
Fairness ==
  /\ \A w \in Worker : WF_vars(Step(w)) /\ WF_vars(\E r \in 0..MaxRetries : Claim(w, r))
  /\ WF_vars(PollRequeue)
  /\ WF_vars(PollWake)

LiveSpec == Spec /\ Fairness

-----------------------------------------------------------------------------
(* Properties *)

(* The job never succeeds with an enrollment left out: whatever crashes,   *)
(* duplicate wake-ups and concurrent turns move the cursor about, each     *)
(* enrollment was calculated at least once since the job was requested.    *)
NoneSkipped == job.status = "succeeded" => \A e \in Enrollment : calc[e] > 0

(* The inductive strengthening of NoneSkipped: nothing happens before the  *)
(* first request, and every cursor - in the row, in a worker, or about to  *)
(* be written by one - has only calculated enrollments behind it.          *)
Covered(c) == \A e \in Enrollment : e <= c => calc[e] > 0

Started ==
  requests = 0 => /\ job.status = "none"
                  /\ \A r \in 0..MaxRetries : queue[r] = 0
                  /\ \A w \in Worker : worker[w].phase = "idle"

RowCovered ==
  /\ Covered(job.cursor)
  /\ job.status = "succeeded" => Covered(N)

WorkersCovered ==
  \A w \in Worker :
    /\ Covered(worker[w].cursor)
    /\ worker[w].phase = "cursor" => Covered(LastOf(worker[w].cursor))
    /\ worker[w].phase = "complete" => Covered(N)

WithinLimits ==
  \A w \in Worker :
    /\ worker[w].phase \in {"slice", "cursor"} => worker[w].slices < MaxBatches
    /\ worker[w].phase = "republish" => worker[w].retries < MaxRetries

Inductive == TypeOK /\ Started /\ WithinLimits /\ RowCovered /\ WorkersCovered

(* A succeeded job that nobody works on any more answers the latest        *)
(* request: every enrollment was calculated after it, as a rerun starts    *)
(* over from the first enrollment.                                         *)
SucceededIsFresh ==
  job.status = "succeeded" /\ ~Owned => \A e \in Enrollment : calc[e] = requests

(* A requested job does not stay pending: after lost wake-ups, dead workers*)
(* and errors it succeeds, or is marked failed when a message used up its  *)
(* retries.                                                                *)
JobResolves ==
  job.status \in {"queued", "running"} ~> job.status \in {"succeeded", "failed"}

=============================================================================
