--------------------------- MODULE OrchestrationV2 ---------------------------
(***************************************************************************)
(* One V2 course-generation run: its task graph, the leases of the workers,*)
(* the AI token reservations, the recovery sweep, and the author's stop and*)
(* recover requests.                                                       *)
(*                                                                         *)
(* Each action is one database transaction.  The advisory workspace lock   *)
(* serialises them, so an action is atomic; what interleaves is the        *)
(* transactions, the provider calls between them, lease expiry and worker  *)
(* crashes.  Delivery of an outbox row is OutboxDelivery: a row waits until*)
(* it is taken or given up.                                                *)
(*                                                                         *)
(* dispatch_epoch grows with every claim and every reopen, so <<task,      *)
(* epoch>> names an outbox row, a lease (lease_token) and a reservation    *)
(* (ai_reservation_id).                                                    *)
(***************************************************************************)
EXTENDS Integers, FiniteSets

CONSTANTS
  Task,                 \* task rows the run may come to have
  Kind,                 \* Kind[t]: task kind
  Deps,                 \* Deps[t]: depends_on_task_id of t
  Preserved,            \* units whose brief keeps the source document as is
  Scopes,               \* sets of units an author may ask to rewrite
  StartRun,             \* "planning": from admission; "executing": from the
                        \* published inventory (planning tasks left out)
  MaxAttempts,          \* MaxAttempts[t]: max_attempts of the task row
  MaxEpoch,             \* ORCHESTRATION_V2_MAX_DISPATCH_EPOCH
  TransientEpochLimit,  \* ORCHESTRATION_V2_TRANSIENT_DB_REQUEUE_EPOCH_LIMIT
  RewriteLimit,         \* ORCHESTRATION_V2_RECOVERY_UNIT_REWRITE_LIMIT
  ReopenLimit           \* ORCHESTRATION_V2_RECOVERY_DETERMINISTIC_REOPEN_LIMIT

TaskKind ==
  {"source_snapshot", "course_skeleton", "chapter_blueprint",
   "validate_architecture", "publish_inventory", "generate_unit",
   "validate_chapter", "finalize_course"}

ASSUME GraphAssumption ==
  /\ Kind \in [Task -> TaskKind]
  /\ Deps \in [Task -> SUBSET Task]
  /\ Preserved \subseteq Task
  /\ \A s \in Scopes : s # {} /\ s \subseteq {t \in Task : Kind[t] = "generate_unit"}
  /\ StartRun \in {"planning", "executing"}

OfKind(k) == {t \in Task : Kind[t] = k}

(* The graph the success hooks write: one task of each kind that inserts a *)
(* stage, one finalizer behind every chapter validation, every unit behind *)
(* the validation of its chapter.                                          *)
ASSUME PipelineAssumption ==
  /\ \A k \in {"source_snapshot", "course_skeleton", "validate_architecture",
                "publish_inventory"} :
       IF StartRun = "planning" THEN \E t \in Task : OfKind(k) = {t} ELSE OfKind(k) = {}
  /\ StartRun = "executing" => OfKind("chapter_blueprint") = {}
  /\ \E t \in Task : OfKind("finalize_course") = {t}
  /\ \A t \in OfKind("validate_architecture") : Deps[t] = OfKind("chapter_blueprint")
  /\ \A t \in OfKind("finalize_course") : Deps[t] = OfKind("validate_chapter")
  /\ \A u \in OfKind("generate_unit") : \E v \in OfKind("validate_chapter") : u \in Deps[v]

ASSUME LimitAssumption ==
  /\ MaxAttempts \in [Task -> Nat \ {0}]
  /\ MaxEpoch \in Nat
  /\ TransientEpochLimit \in Nat \ {0}
  /\ RewriteLimit \in Nat
  /\ ReopenLimit \in Nat
  /\ \A t \in Task : TransientEpochLimit + MaxAttempts[t] - 1 <= MaxEpoch

VARIABLES
  task,      \* task[t]: the columns of the task row
  run,       \* status of the run
  ws,        \* status of the workspace
  waiting,   \* outbox rows <<t, epoch>> that a worker may still take
  consumed,  \* outbox rows taken by a worker
  dead,      \* outbox rows the dispatcher gave up
  hold,      \* reservations in status 'reserved'
  released,  \* reservations in status 'released'
  ledger,    \* reservations in status 'finalized', with their ledger row
  exec,      \* executions in progress in some worker process
  paid       \* history: leases whose provider call was made and billed

vars == <<task, run, ws, waiting, consumed, dead, hold, released, ledger, exec, paid>>
outbox == <<waiting, consumed, dead>>
accounting == <<hold, released, ledger>>

-----------------------------------------------------------------------------
(* State *)

LiveStatus == {"blocked", "queued", "running"}
ReopenableStatus == {"failed", "outcome_unknown", "canceled"}
TaskStatus == LiveStatus \cup ReopenableStatus \cup {"absent", "succeeded"}
ActiveRun == {"planning", "executing"}

(* code: the class of failure_code; "stopping" is AI_PROVIDER_AUTH_REJECTED*)
(* or AI_PROVIDER_QUOTA_EXHAUSTED.  live: the lease and the deadline have  *)
(* not passed.  dispatched: dispatch_started_at is set.  old: finished     *)
(* before the latest recovery.  gen: reopens recorded.  replay:            *)
(* provider_replay_required.                                               *)
TaskRow ==
  [status : TaskStatus, attempt : Nat, epoch : Nat, live : BOOLEAN,
   dispatched : BOOLEAN,
   acct : {"not_required", "reserved", "settled", "pending_reconciliation"},
   code : {"none", "stopping", "other"}, old : BOOLEAN, gen : Nat,
   replay : BOOLEAN]

(* "review": needs_action with ASSESSMENT_REVIEW_REQUIRED.  'finalizing'   *)
(* exists only inside the finalizer's transaction.                         *)
RunStatus == ActiveRun \cup {"ready", "needs_action", "review"}

(* The workspace is designing from launch until the inventory is published.*)
WorkspaceStatus == {"designing", "drafting", "ready", "needs_action"}

(* "claimed": before the dispatch fence; "fenced": markProviderDispatched  *)
(* committed; "answered" and "rejected": what the provider said.           *)
Execution ==
  [task : Task, token : Nat, phase : {"claimed", "fenced", "answered", "rejected"}]

Lease == Task \X Nat

TypeOK ==
  /\ task \in [Task -> TaskRow]
  /\ run \in RunStatus
  /\ ws \in WorkspaceStatus
  /\ waiting \subseteq Lease
  /\ consumed \subseteq Lease
  /\ dead \subseteq Lease
  /\ hold \subseteq Lease
  /\ released \subseteq Lease
  /\ ledger \subseteq Lease
  /\ exec \subseteq Execution
  /\ paid \subseteq Lease

(* The kinds of task that the success of a task of kind k inserts. *)
Inserts(k) ==
  CASE k = "source_snapshot" -> {"course_skeleton"}
    [] k = "course_skeleton" -> {"chapter_blueprint", "validate_architecture"}
    [] k = "validate_architecture" -> {"publish_inventory"}
    [] k = "publish_inventory" -> {"generate_unit", "validate_chapter", "finalize_course"}
    [] OTHER -> {}

(* The kind of task that waits for all tasks of kind k it depends on. *)
Joins(k) ==
  CASE k = "chapter_blueprint" -> {"validate_architecture"}
    [] k = "generate_unit" -> {"validate_chapter"}
    [] k = "validate_chapter" -> {"finalize_course"}
    [] OTHER -> {}

FirstStatus(k) ==
  IF k \in {"validate_architecture", "validate_chapter", "finalize_course"}
  THEN "blocked" ELSE "queued"

NewRow(status) ==
  [status |-> status, attempt |-> 0, epoch |-> 0, live |-> FALSE,
   dispatched |-> FALSE, acct |-> "not_required", code |-> "none",
   old |-> FALSE, gen |-> 0, replay |-> FALSE]

(* Admission commits the run, its source_snapshot task and the outbox row  *)
(* together; "executing" starts where publish_inventory commits.           *)
FirstTasks ==
  {t \in Task : Kind[t] \in IF StartRun = "planning" THEN {"source_snapshot"}
                             ELSE Inserts("publish_inventory")}

Init ==
  /\ task = [t \in Task |->
       NewRow(IF t \in FirstTasks THEN FirstStatus(Kind[t]) ELSE "absent")]
  /\ run = StartRun
  /\ ws = IF StartRun = "planning" THEN "designing" ELSE "drafting"
  /\ waiting = {<<t, 0>> : t \in {u \in FirstTasks : FirstStatus(Kind[u]) = "queued"}}
  /\ consumed = {}
  /\ dead = {}
  /\ hold = {}
  /\ released = {}
  /\ ledger = {}
  /\ exec = {}
  /\ paid = {}

Current(t) == <<t, task[t].epoch>>

Provider(t) == Kind[t] \in {"course_skeleton", "chapter_blueprint", "generate_unit"}

(* Mutant: a canceled dependency counts as done. *)
SucceededOrCanceled == {t \in Task : task[t].status \in {"succeeded", "canceled"}}

Succeeded == {t \in Task : task[t].status = "succeeded"}

Running == {t \in Task : task[t].status = "running"}

-----------------------------------------------------------------------------
(* Accounting, inside the transaction of the caller *)

(* finalize: settleProvider and reconcileUnknownAsBudget. *)
Finalize(leases) ==
  /\ leases \subseteq hold
  /\ hold' = hold \ leases
  /\ ledger' = ledger \cup leases
  /\ UNCHANGED released

(* releaseUndispatched and releaseRejected. *)
Release(l) ==
  /\ l \in hold
  /\ hold' = hold \ {l}
  /\ released' = released \cup {l}
  /\ UNCHANGED ledger

(* Mutant: an undispatched claim keeps its reservation. *)
KeepClaim(t) == UNCHANGED accounting

ReleaseClaim(t) == IF Provider(t) THEN Release(Current(t)) ELSE UNCHANGED accounting

-----------------------------------------------------------------------------
(* Stopping a run *)

(* The tasks that depend on t, directly or through others. *)
Descendants ==
  [t \in Task |-> {u \in Task :
     \A s \in SUBSET Task :
       (\A v \in Task : t \in Deps[v] \/ Deps[v] \cap s # {} => v \in s) => u \in s}]

Cancel(rows, which) ==
  [t \in Task |-> IF t \in which /\ rows[t].status \in {"blocked", "queued"}
                  THEN [rows[t] EXCEPT !.status = "canceled", !.code = "other"]
                  ELSE rows[t]]

(* Mutant: the workspace does not wait for running tasks. *)
Undrainable(rows) == TRUE

Drained(rows) == \A t \in Task : rows[t].status # "running"

(* syncNeedsActionWorkspace: cancel what waits; the workspace follows when *)
(* nothing runs any more.                                                  *)
SyncNeedsAction(rows) ==
  /\ task' = Cancel(rows, Task)
  /\ ws' = IF Drained(rows) /\ ws \in {"designing", "drafting"}
           THEN "needs_action" ELSE ws

StopRun(rows) ==
  /\ run # "ready"
  /\ run' = IF run \in ActiveRun THEN "needs_action" ELSE run
  /\ SyncNeedsAction(rows)

(* stopRunAfterTerminalTask: a unit that fails for itself stops its        *)
(* descendants only, as long as anything else of the run is live.          *)
StopRunAfterTerminalTask(t, rows) ==
  LET isolated == /\ Kind[t] = "generate_unit"
                  /\ rows[t].code # "stopping"
                  /\ run \in ActiveRun
      cut == Cancel(rows, Descendants[t])
  IN IF isolated /\ \E u \in Task : cut[u].status \in LiveStatus
     THEN task' = cut /\ UNCHANGED <<run, ws>>
     ELSE StopRun(rows)

Finished(row, status, code) ==
  [row EXCEPT !.status = status, !.code = code, !.live = FALSE, !.old = FALSE]

(* A task that goes back to 'queued' keeps its epoch; the evidence of a    *)
(* dispatched attempt stays (written by the database with the outcome).    *)
Requeued(row) ==
  [row EXCEPT !.status = "queued", !.code = "none", !.live = FALSE,
              !.dispatched = FALSE, !.acct = "not_required",
              !.replay = row.replay \/ row.dispatched]

Requeue(t, row) ==
  /\ task' = [task EXCEPT ![t] = row]
  /\ waiting' = waiting \cup {Current(t)}
  /\ UNCHANGED <<run, ws, consumed, dead>>

-----------------------------------------------------------------------------
(* Worker *)

Claimed(row, provider) ==
  [row EXCEPT !.status = "running", !.attempt = @ + 1, !.epoch = @ + 1,
              !.live = TRUE, !.acct = IF provider THEN "reserved" ELSE "not_required"]

(* claimExact; a delivery that fails a guard changes nothing here, and a   *)
(* capacity deferral keeps the row waiting.                                *)
ClaimExact(t) ==
  LET lease == <<t, task[t].epoch + 1>> IN
  /\ Current(t) \in waiting
  /\ task[t].status = "queued"
  /\ run \in ActiveRun
  /\ task[t].attempt < MaxAttempts[t]
  /\ Deps[t] \subseteq Succeeded
  /\ task' = [task EXCEPT ![t] = Claimed(@, Provider(t))]
  /\ hold' = IF Provider(t) THEN hold \cup {lease} ELSE hold
  /\ waiting' = waiting \ {Current(t)}
  /\ consumed' = consumed \cup {Current(t)}
  /\ exec' = exec \cup {[task |-> t, token |-> lease[2], phase |-> "claimed"]}
  /\ UNCHANGED <<run, ws, dead, released, ledger, paid>>

(* The dispatcher exhausts its attempts (OutboxDelivery!GiveUp). *)
GiveUpRow(t) ==
  /\ Current(t) \in waiting
  /\ waiting' = waiting \ {Current(t)}
  /\ dead' = dead \cup {Current(t)}
  /\ UNCHANGED <<task, run, ws, consumed, accounting, exec, paid>>

(* The WHERE clauses with lease_token. *)
HoldsLease(x) == task[x.task].status = "running" /\ task[x.task].epoch = x.token

(* Mutant: a retry ignores the evidence of the earlier dispatch. *)
PreservedOnly(t) == Kind[t] = "generate_unit" /\ t \in Preserved

(* A unit whose call was dispatched before, or that keeps its document,    *)
(* never calls the provider.                                               *)
FallbackOnly(t) ==
  Kind[t] = "generate_unit" /\ (task[t].replay \/ t \in Preserved)

Advance(x, phase) == exec' = (exec \ {x}) \cup {[x EXCEPT !.phase = phase]}

(* markProviderDispatched; when it throws the execution fails. *)
MarkProviderDispatched(x) ==
  /\ x.phase = "claimed"
  /\ Provider(x.task) /\ ~FallbackOnly(x.task)
  /\ HoldsLease(x)
  /\ task[x.task].live
  /\ ~task[x.task].dispatched
  /\ task[x.task].acct = "reserved"
  /\ run \in ActiveRun
  /\ task' = [task EXCEPT ![x.task].dispatched = TRUE]
  /\ Advance(x, "fenced")
  /\ UNCHANGED <<run, ws, outbox, accounting, paid>>

(* Mutant: the request leaves before the fence commits. *)
CallBeforeFence(x) ==
  /\ x.phase \in {"claimed", "fenced"}
  /\ \/ Advance(x, "answered") /\ paid' = paid \cup {<<x.task, x.token>>}
     \/ Advance(x, "rejected") /\ UNCHANGED paid
  /\ UNCHANGED <<task, run, ws, outbox, accounting>>

(* The request leaves after the fence committed, whatever happened to the  *)
(* lease meanwhile; a definitive rejection is not billed.                  *)
CallProvider(x) ==
  /\ x.phase = "fenced"
  /\ \/ Advance(x, "answered") /\ paid' = paid \cup {<<x.task, x.token>>}
     \/ Advance(x, "rejected") /\ UNCHANGED paid
  /\ UNCHANGED <<task, run, ws, outbox, accounting>>

(* Mutant: a join is always dispatched at the first epoch. *)
FirstEpoch(row) == 0

(* The outbox identity of a join is its own epoch: not 0 after a reopen. *)
JoinEpoch(row) == row.epoch

(* What the success hook of t does to the tables: insert the next stage,   *)
(* then queue the joins whose dependencies have all succeeded.             *)
AfterSuccess(t, rows) ==
  LET done == Succeeded \cup {t}
      joined == {u \in Task : /\ Kind[u] \in Joins(Kind[t])
                              /\ t \in Deps[u]
                              /\ rows[u].status = "blocked"
                              /\ Deps[u] \subseteq done}
      inserted == {u \in Task : Kind[u] \in Inserts(Kind[t])}
      queued == joined \cup {u \in inserted : FirstStatus(Kind[u]) = "queued"}
  IN /\ task' = [u \in Task |->
          CASE u \in inserted -> NewRow(FirstStatus(Kind[u]))
            [] u \in joined -> [rows[u] EXCEPT !.status = "queued"]
            [] OTHER -> rows[u]]
     /\ waiting' = waiting \cup {<<u, IF u \in inserted THEN 0 ELSE JoinEpoch(rows[u])>> : u \in queued}
     /\ UNCHANGED <<consumed, dead>>

(* Mutant: the finalizer does not look at the run. *)
AnyRun == TRUE

FinalizerRun == run = "executing"

(* The run and workspace the hooks of the inventory and the finalizer      *)
(* require, and what they make of them.                                    *)
RunAfterSuccess(k) ==
  CASE k = "publish_inventory" ->
         /\ run = "planning" /\ ws \in {"designing", "needs_action"}
         /\ run' = "executing" /\ ws' = "drafting"
    [] k = "finalize_course" ->
         /\ FinalizerRun /\ ws = "drafting"
         /\ \/ run' = "ready" /\ ws' = "ready"
            \/ run' = "review" /\ ws' = "needs_action"
    [] OTHER -> UNCHANGED <<run, ws>>

(* succeed: settle or release the reservation, run the hooks, finish. *)
Succeed(x) ==
  LET t == x.task
      fallback == Provider(t) /\ FallbackOnly(t)
      settled == Provider(t) /\ ~fallback
  IN
  /\ x.phase = IF settled THEN "answered" ELSE "claimed"
  /\ HoldsLease(x)
  /\ task[t].live
  /\ Provider(t) => task[t].acct = "reserved"
  /\ settled <=> task[t].dispatched
  /\ IF settled THEN Finalize({Current(t)}) ELSE ReleaseClaim(t)
  /\ AfterSuccess(t, [task EXCEPT ![t] =
       [Finished(@, "succeeded", "none") EXCEPT
          !.acct = IF settled THEN "settled" ELSE "not_required"]])
  /\ RunAfterSuccess(Kind[t])
  /\ exec' = exec \ {x}
  /\ UNCHANGED paid

(* failProviderRejected: fenced by the token, not by the clock. *)
FailProviderRejected(x) ==
  LET t == x.task IN
  /\ x.phase = "rejected"
  /\ HoldsLease(x)
  /\ task[t].dispatched /\ task[t].acct = "reserved"
  /\ Release(Current(t))
  /\ \E code \in {"stopping", "other"} :
       StopRunAfterTerminalTask(t, [task EXCEPT ![t] =
         [Finished(@, "failed", code) EXCEPT !.acct = "not_required"]])
  /\ exec' = exec \ {x}
  /\ UNCHANGED <<outbox, paid>>

(* A dispatched claim ends without an answer: the outcome is unknown.  In  *)
(* an active run with attempts left it is charged in full and replayed.    *)
EndDispatched(t) ==
  /\ Current(t) \in hold
  /\ IF run \in ActiveRun /\ task[t].attempt < MaxAttempts[t]
     THEN Finalize({Current(t)}) /\ Requeue(t, Requeued(task[t]))
     ELSE /\ StopRunAfterTerminalTask(t, [task EXCEPT ![t] =
               [Finished(@, "outcome_unknown", "other") EXCEPT
                  !.acct = "pending_reconciliation"]])
          /\ UNCHANGED <<outbox, accounting>>

(* An undispatched claim ends: its reservation is released, and it is      *)
(* queued again while attempts are left.  A transient database failure     *)
(* refunds the attempt while the epoch is below the limit.                 *)
EndUndispatched(t, transient) ==
  LET refund == /\ transient
                /\ run \in ActiveRun
                /\ task[t].attempt >= 1
                /\ task[t].epoch < TransientEpochLimit
  IN
  /\ ReleaseClaim(t)
  /\ IF run \notin ActiveRun \/ (task[t].attempt >= MaxAttempts[t] /\ ~refund)
     THEN /\ StopRunAfterTerminalTask(t, [task EXCEPT ![t] =
               [Finished(@, "failed", "other") EXCEPT !.acct = "not_required"]])
          /\ UNCHANGED outbox
     ELSE Requeue(t, [Requeued(task[t]) EXCEPT !.attempt = IF refund THEN @ - 1 ELSE @])

(* recoverClaimFailure: the execution failed under its own lease. *)
RecoverClaimFailure(x) ==
  /\ x.phase # "rejected"
  /\ HoldsLease(x)
  /\ IF task[x.task].dispatched THEN EndDispatched(x.task)
     ELSE \E transient \in BOOLEAN : EndUndispatched(x.task, transient)
  /\ exec' = exec \ {x}
  /\ UNCHANGED paid

(* The worker dies, its final transaction fails, or it finds its lease     *)
(* lost ('stale'): the database is left to the recovery sweep.             *)
Abandon(x) ==
  /\ exec' = exec \ {x}
  /\ UNCHANGED <<task, run, ws, outbox, accounting, paid>>

LeaseExpires(t) ==
  /\ task[t].status = "running"
  /\ task[t].live
  /\ task' = [task EXCEPT ![t].live = FALSE]
  /\ UNCHANGED <<run, ws, outbox, accounting, exec, paid>>

-----------------------------------------------------------------------------
(* Recovery sweep: recoverOne, one transaction per cycle *)

Replayable(t) == task[t].status = "outcome_unknown" /\ task[t].attempt < MaxAttempts[t]

LiveWork == \E u \in Task : task[u].status \in LiveStatus

(* Mutant: failures from before the latest recovery count again. *)
AnyFailure(t) == TRUE

NewFailure(t) == ~task[t].old

TerminalCandidate(t) ==
  /\ run \in ActiveRun
  /\ task[t].status \in {"failed", "outcome_unknown"}
  /\ NewFailure(t)
  /\ ~ /\ Kind[t] = "generate_unit"
       /\ task[t].code # "stopping"
       /\ ~Replayable(t)
       /\ LiveWork

RecoverTerminal(t) ==
  /\ TerminalCandidate(t)
  /\ IF Replayable(t) /\ task[t].acct = "pending_reconciliation"
     THEN Finalize({Current(t)}) /\ Requeue(t, Requeued(task[t]))
     ELSE StopRunAfterTerminalTask(t, task) /\ UNCHANGED <<outbox, accounting>>
  /\ UNCHANGED <<exec, paid>>

(* Mutant: the sweep forgets stopped runs whose inventory is published. *)
UndrainedDesign == run \in {"needs_action", "review"} /\ ws = "designing" /\ Running = {}

Undrained == run \in {"needs_action", "review"} /\ ws \in {"designing", "drafting"} /\ Running = {}

RecoverUndrained ==
  /\ Undrained
  /\ SyncNeedsAction(task)
  /\ UNCHANGED <<run, outbox, accounting, exec, paid>>

Expired(t) == task[t].status = "running" /\ ~task[t].live

RecoverExpired(t) ==
  /\ Expired(t)
  /\ IF task[t].dispatched THEN EndDispatched(t) ELSE EndUndispatched(t, FALSE)
  /\ UNCHANGED <<exec, paid>>

(* Mutant: only the holds of a run under review are settled. *)
ReviewedRun == run = "review"

FinishedRun == run \in {"needs_action", "review"}

(* reconcileFinishedRunUnknown: the task keeps its evidence. *)
ReconcileFinishedRunUnknown(t) ==
  /\ FinishedRun
  /\ task[t].status = "outcome_unknown"
  /\ task[t].acct = "pending_reconciliation"
  /\ Finalize({Current(t)})
  /\ UNCHANGED <<task, run, ws, outbox, exec, paid>>

(* Mutant: only a failed task keeps a recovered run from completing. *)
SomeFailed == \E t \in Task : task[t].status = "failed"

SomeUnfinished == \E t \in Task : task[t].status # "succeeded"

(* stopStalledRecoveredRun; it also runs when a reconciliation failed and  *)
(* waits out its backoff.                                                  *)
StopStalledRecoveredRun ==
  /\ run = "executing"
  /\ \E t \in Task : task[t].gen > 0
  /\ ~LiveWork
  /\ SomeUnfinished
  /\ StopRun(task)
  /\ UNCHANGED <<outbox, accounting, exec, paid>>

RecoverOne ==
  IF \E t \in Task : TerminalCandidate(t) THEN \E t \in Task : RecoverTerminal(t)
  ELSE IF Undrained THEN RecoverUndrained
  ELSE IF \E t \in Task : Expired(t) THEN \E t \in Task : RecoverExpired(t)
  ELSE (\E t \in Task : ReconcileFinishedRunUnknown(t)) \/ StopStalledRecoveredRun

-----------------------------------------------------------------------------
(* Author *)

(* stop: what waits is canceled, what runs drains. *)
AuthorStop ==
  /\ run \in ActiveRun
  /\ run' = "needs_action"
  /\ SyncNeedsAction(task)
  /\ UNCHANGED <<outbox, accounting, exec, paid>>

AccountingReady(t) ==
  IF task[t].status = "outcome_unknown"
  THEN task[t].acct = "pending_reconciliation" /\ Current(t) \in hold \cup ledger
  ELSE task[t].acct = "not_required"

(* Mutant: headroom for the reopen only. *)
OneEpochLeft(t) == task[t].epoch + 1 <= MaxEpoch

EpochHeadroom(t) == task[t].epoch + 1 + MaxAttempts[t] <= MaxEpoch

Reopenable(t, limit) ==
  /\ task[t].status \in ReopenableStatus
  /\ AccountingReady(t)
  /\ task[t].gen + 1 <= limit
  /\ EpochHeadroom(t)

(* planOrchestrationV2Recovery: the validations and then the finalizer     *)
(* that become runnable with the chosen units, in ordinal order.           *)
Receipts(units) ==
  {t \in Task : /\ Kind[t] = "validate_chapter"
                /\ Reopenable(t, ReopenLimit)
                /\ Deps[t] \subseteq Succeeded \cup units}

Plan(units) ==
  LET chosen == units \cup Receipts(units) IN
  chosen \cup {t \in Task : /\ Kind[t] = "finalize_course"
                            /\ Reopenable(t, ReopenLimit)
                            /\ Deps[t] \subseteq Succeeded \cup chosen}

(* orchestrationV2RecoveryRunBlocker; the manifest is sealed by the        *)
(* inventory.                                                              *)
RecoveryOpen ==
  /\ run = "needs_action"
  /\ \A t \in Task : Kind[t] = "publish_inventory" => task[t].status = "succeeded"
  /\ ws = "needs_action"
  /\ ~LiveWork

(* Mutant: a reopened task keeps its epoch. *)
SameEpoch(t) == task[t].epoch

ReopenEpoch(t) == task[t].epoch + 1

(* applyRecovery on plan items *)
ApplyRecovery(items) ==
  LET runnable == {t \in items : Deps[t] \subseteq Succeeded} IN
  /\ Finalize({Current(t) : t \in {u \in items : task[u].status = "outcome_unknown"}} \cap hold)
  /\ task' = [t \in Task |->
       IF t \in items
       THEN [NewRow(IF t \in runnable THEN "queued" ELSE "blocked") EXCEPT
               !.epoch = ReopenEpoch(t), !.gen = task[t].gen + 1]
       ELSE [task[t] EXCEPT !.old = @ \/ task[t].status \in {"failed", "outcome_unknown"}]]
  /\ waiting' = waiting \cup {<<t, ReopenEpoch(t)>> : t \in runnable}
  /\ run' = "executing"
  /\ ws' = "drafting"
  /\ UNCHANGED <<consumed, dead, exec, paid>>

(* recover: "resume" reopens deterministic work only; "regenerate" also    *)
(* the missing units of a scope, all or none.                              *)
AuthorResume ==
  /\ RecoveryOpen
  /\ Plan({}) # {}
  /\ ApplyRecovery(Plan({}))

AuthorRegenerate(scope) ==
  LET missing == scope \ Succeeded IN
  /\ RecoveryOpen
  /\ missing # {}
  /\ \A t \in missing : Reopenable(t, RewriteLimit) /\ Deps[t] \subseteq Succeeded
  /\ ApplyRecovery(Plan(missing))

-----------------------------------------------------------------------------
WorkerStep(x) ==
  \/ MarkProviderDispatched(x)
  \/ CallProvider(x)
  \/ Succeed(x)
  \/ FailProviderRejected(x)
  \/ RecoverClaimFailure(x)
  \/ Abandon(x)

Next ==
  \/ \E t \in Task : ClaimExact(t) \/ GiveUpRow(t) \/ LeaseExpires(t)
  \/ \E x \in exec : WorkerStep(x)
  \/ RecoverOne
  \/ AuthorStop
  \/ AuthorResume
  \/ \E scope \in Scopes : AuthorRegenerate(scope)

Spec == Init /\ [][Next]_vars

(* The recovery loop sweeps again and again; the clock passes every lease  *)
(* and deadline; a row that waits is published, delivered and claimed.     *)
(* Nothing is assumed of a worker that holds a lease, nor of the author.   *)
Fairness ==
  /\ WF_vars(RecoverOne)
  /\ \A t \in Task : WF_vars(LeaseExpires(t)) /\ WF_vars(ClaimExact(t))

LiveSpec == Spec /\ Fairness

-----------------------------------------------------------------------------
(* Properties *)

(* Every provider call that was made is paid for: its reservation is still *)
(* held or was charged, never released - even when the worker lost its     *)
(* lease between the dispatch fence and the call, and recovery has already *)
(* replayed or stopped the task.                                           *)
PaidCallIsCharged == paid \subseteq hold \cup ledger

(* No hold leaks and no provider task runs without one: a reserved         *)
(* reservation is the one of its task's current claim, which runs or ended *)
(* with an unknown outcome.                                                *)
HoldsAreOwned ==
  /\ \A l \in hold : /\ l = Current(l[1])
                      /\ task[l[1]].acct \in {"reserved", "pending_reconciliation"}
  /\ \A t \in Running : Provider(t) => Current(t) \in hold

(* A queued task of an active run can reach a worker: the outbox row of its*)
(* current epoch waits, or the dispatcher gave it up.                      *)
QueuedIsDispatchable ==
  run \in ActiveRun =>
    \A t \in Task : task[t].status = "queued" => Current(t) \in waiting \cup dead

(* A requeue, a join or a reopen never reuses the identity of an outbox row*)
(* that was consumed or given up (a duplicate key would abort it).         *)
FreshRowIdentity == [][waiting' \cap (consumed \cup dead) = {}]_vars

(* The recovery sweep never meets a reservation it cannot settle: a throw  *)
(* would roll the cycle back and block every run behind it.                *)
SweepCanSettle ==
  \A t \in Task :
    \/ TerminalCandidate(t) /\ Replayable(t)
    \/ Expired(t) /\ Provider(t)
    => Current(t) \in hold

(* A ready run is complete: every task succeeded, no money is held and the *)
(* workspace is ready.                                                     *)
ReadyMeansComplete ==
  run = "ready" => Succeeded = Task /\ hold = {} /\ ws = "ready"

(* The workspace shows needs_action only for a stopped run in which nothing*)
(* is live any more.                                                       *)
DrainedBeforeNeedsAction ==
  ws = "needs_action" => run \in {"needs_action", "review"} /\ ~LiveWork

(* A run that the author or a failure stopped is left only by a recovery of*)
(* the drained run: no late success or sweep reopens or completes it.      *)
StopIsFinal ==
  [][run = "needs_action" /\ run' # run =>
       run' = "executing" /\ ws = "needs_action" /\ ~LiveWork]_vars

(* dispatch_epoch stays within its column's range through retries, refunded*)
(* transient failures and reopens, so a claim or reopen is never refused by*)
(* the schema.                                                             *)
EpochWithinRange == \A t \in Task : task[t].epoch <= MaxEpoch

(* The author pays for at most one call of a unit per generation, whatever *)
(* crashes and retries happen: a retry after a dispatch takes the fallback.*)
OneCallPerGeneration ==
  \A t \in Task : Kind[t] = "generate_unit" =>
    Cardinality({l \in paid : l[1] = t}) <= task[t].gen + 1

(* A queued task whose outbox row was given up blocks its run until the    *)
(* author stops it.                                                        *)
Stranded ==
  run \in ActiveRun /\ \E t \in Task : task[t].status = "queued" /\ Current(t) \in dead

(* No money stays held: the reservations drain, unless a dead outbox row   *)
(* strands the run.                                                        *)
HoldsSettle == hold # {} ~> hold = {} \/ Stranded

(* A stopped run drains: its workspace reaches needs_action. *)
StoppedRunDrains == run = "needs_action" ~> ws = "needs_action"

(* An active run without live work is stopped or completed. *)
IdleRunStops == run \in ActiveRun /\ ~LiveWork ~> run \notin ActiveRun

=============================================================================
