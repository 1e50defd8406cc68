------------------------ MODULE OrchestrationV2_proofs ------------------------
(* The safety properties of OrchestrationV2, for any task graph, limits,   *)
(* scopes and number of executions: its types, the finality of a stopped   *)
(* run, the identity of outbox rows, the range of epochs, what is          *)
(* dispatched, complete and drained, and the accounting of paid calls.     *)
EXTENDS OrchestrationV2, FiniteSetTheorems, TLAPS

Table == [Task -> TaskRow]

(* The rows that the handlers write are rows. *)
LEMMA FinishedType ==
  ASSUME NEW row \in TaskRow, NEW status \in TaskStatus,
         NEW code \in {"none", "stopping", "other"},
         NEW acct \in {"not_required", "reserved", "settled", "pending_reconciliation"}
  PROVE  [Finished(row, status, code) EXCEPT !.acct = acct] \in TaskRow
BY DEF Finished, TaskRow

LEMMA RequeuedType ==
  ASSUME NEW row \in TaskRow
  PROVE  /\ Requeued(row) \in TaskRow
         /\ Requeued(row).attempt = row.attempt
BY DEF Requeued, TaskRow, TaskStatus, LiveStatus

LEMMA NewRowType ==
  ASSUME NEW status \in TaskStatus
  PROVE  NewRow(status) \in TaskRow
BY DEF NewRow, TaskRow

LEMMA FirstStatusType == ASSUME NEW k PROVE FirstStatus(k) \in {"blocked", "queued"}
BY DEF FirstStatus

(* Canceling the waiting rows of a table leaves a table. *)
LEMMA CancelType ==
  ASSUME NEW rows \in Table, NEW which
  PROVE  Cancel(rows, which) \in Table
<1> SUFFICES ASSUME NEW t \in Task
             PROVE [rows[t] EXCEPT !.status = "canceled", !.code = "other"] \in TaskRow
  BY DEF Cancel, Table
<1> QED
  BY DEF Table, TaskRow, TaskStatus, ReopenableStatus

LEMMA StopRunType ==
  ASSUME TypeOK, NEW rows \in Table, StopRun(rows)
  PROVE  task' \in Table /\ run' \in RunStatus /\ ws' \in WorkspaceStatus
BY CancelType DEF StopRun, SyncNeedsAction, TypeOK, RunStatus, WorkspaceStatus, ActiveRun

LEMMA StopAfterTerminalType ==
  ASSUME TypeOK, NEW t \in Task, NEW rows \in Table, StopRunAfterTerminalTask(t, rows)
  PROVE  task' \in Table /\ run' \in RunStatus /\ ws' \in WorkspaceStatus
BY CancelType, StopRunType DEF StopRunAfterTerminalTask, TypeOK

(* Accounting moves leases between sets of leases. *)
LEMMA AccountingType ==
  ASSUME TypeOK,
         \/ \E leases : Finalize(leases)
         \/ \E l : Release(l)
         \/ UNCHANGED accounting
  PROVE  hold' \subseteq Lease /\ released' \subseteq Lease /\ ledger' \subseteq Lease
BY DEF TypeOK, Finalize, Release, accounting

LEMMA ReleaseClaimType ==
  ASSUME TypeOK, NEW t \in Task, ReleaseClaim(t)
  PROVE  hold' \subseteq Lease /\ released' \subseteq Lease /\ ledger' \subseteq Lease
BY AccountingType DEF ReleaseClaim

LEMMA CurrentType == ASSUME TypeOK, NEW t \in Task PROVE Current(t) \in Lease
BY DEF TypeOK, Current, Lease, TaskRow

LEMMA RequeueType ==
  ASSUME TypeOK, NEW t \in Task, NEW row \in TaskRow, Requeue(t, row)
  PROVE  /\ task' \in Table /\ run' \in RunStatus /\ ws' \in WorkspaceStatus
         /\ waiting' \subseteq Lease /\ consumed' \subseteq Lease /\ dead' \subseteq Lease
BY CurrentType DEF TypeOK, Requeue, Table

(* What the end of a claim leaves: tables, statuses, rows and leases. *)
Ended ==
  /\ task' \in Table /\ run' \in RunStatus /\ ws' \in WorkspaceStatus
  /\ waiting' \subseteq Lease /\ consumed' \subseteq Lease /\ dead' \subseteq Lease
  /\ hold' \subseteq Lease /\ released' \subseteq Lease /\ ledger' \subseteq Lease

LEMMA EndDispatchedType ==
  ASSUME TypeOK, NEW t \in Task, EndDispatched(t)
  PROVE  Ended
<1>1. task \in Table /\ task[t] \in TaskRow
  BY DEF TypeOK, Table
<1>2. CASE Finalize({Current(t)}) /\ Requeue(t, Requeued(task[t]))
  BY <1>1, <1>2, RequeuedType, RequeueType, AccountingType DEF Ended
<1>3. ASSUME StopRunAfterTerminalTask(t, [task EXCEPT ![t] =
               [Finished(@, "outcome_unknown", "other") EXCEPT
                  !.acct = "pending_reconciliation"]]),
             UNCHANGED <<outbox, accounting>>
      PROVE  Ended
  <2>1. [Finished(task[t], "outcome_unknown", "other") EXCEPT
           !.acct = "pending_reconciliation"] \in TaskRow
    BY <1>1, FinishedType DEF TaskStatus, ReopenableStatus
  <2>2. [task EXCEPT ![t] = [Finished(@, "outcome_unknown", "other") EXCEPT
                               !.acct = "pending_reconciliation"]] \in Table
    BY <1>1, <2>1 DEF Table
  <2> QED
    BY <1>3, <2>2, StopAfterTerminalType, AccountingType DEF Ended, TypeOK, outbox
<1> QED
  BY <1>2, <1>3 DEF EndDispatched

LEMMA EndUndispatchedType ==
  ASSUME TypeOK, NEW t \in Task, NEW transient \in BOOLEAN, EndUndispatched(t, transient)
  PROVE  Ended
<1> DEFINE refund == /\ transient
                     /\ run \in ActiveRun
                     /\ task[t].attempt >= 1
                     /\ task[t].epoch < TransientEpochLimit
           row == [Requeued(task[t]) EXCEPT !.attempt = IF refund THEN @ - 1 ELSE @]
<1>1. task \in Table /\ task[t] \in TaskRow
  BY DEF TypeOK, Table
<1>2. ReleaseClaim(t)
  BY DEF EndUndispatched
<1>3. CASE Requeue(t, row)
  <2>1. Requeued(task[t]) \in TaskRow /\ Requeued(task[t]).attempt = task[t].attempt
    BY <1>1, RequeuedType
  <2>2. task[t].attempt \in Nat
    BY <1>1 DEF TaskRow
  <2>3. (IF refund THEN Requeued(task[t]).attempt - 1 ELSE Requeued(task[t]).attempt) \in Nat
    BY <2>1, <2>2
  <2>4. row \in TaskRow
    BY <2>1, <2>3 DEF TaskRow
  <2> HIDE DEF row
  <2> QED
    BY <1>2, <1>3, <2>4, RequeueType, ReleaseClaimType DEF Ended
<1>4. ASSUME StopRunAfterTerminalTask(t, [task EXCEPT ![t] =
               [Finished(@, "failed", "other") EXCEPT !.acct = "not_required"]]),
             UNCHANGED outbox
      PROVE  Ended
  <2>1. [Finished(task[t], "failed", "other") EXCEPT !.acct = "not_required"] \in TaskRow
    BY <1>1, FinishedType DEF TaskStatus, ReopenableStatus
  <2>2. [task EXCEPT ![t] = [Finished(@, "failed", "other") EXCEPT
                               !.acct = "not_required"]] \in Table
    BY <1>1, <2>1 DEF Table
  <2> QED
    BY <1>2, <1>4, <2>2, StopAfterTerminalType, ReleaseClaimType DEF Ended, TypeOK, outbox
<1> QED
  BY <1>3, <1>4 DEF EndUndispatched

(* The hooks of a success insert and queue rows at epochs. *)
LEMMA AfterSuccessType ==
  ASSUME TypeOK, NEW t \in Task, NEW rows \in Table, AfterSuccess(t, rows)
  PROVE  /\ task' \in Table
         /\ waiting' \subseteq Lease /\ consumed' \subseteq Lease /\ dead' \subseteq Lease
<1> DEFINE done == Succeeded \cup {t}
           joined == {u \in Task : /\ Kind[u] \in Joins(Kind[t])
                                   /\ t \in Deps[u]
                                   /\ rows[u].status = "blocked"
                                   /\ Deps[u] \subseteq done}
           inserted == {u \in Task : Kind[u] \in Inserts(Kind[t])}
           queued == joined \cup {u \in inserted : FirstStatus(Kind[u]) = "queued"}
           next == [u \in Task |->
                      CASE u \in inserted -> NewRow(FirstStatus(Kind[u]))
                        [] u \in joined -> [rows[u] EXCEPT !.status = "queued"]
                        [] OTHER -> rows[u]]
           sent == {<<u, IF u \in inserted THEN 0 ELSE JoinEpoch(rows[u])>> : u \in queued}
<1>1. /\ task' = next
      /\ waiting' = waiting \cup sent
      /\ UNCHANGED <<consumed, dead>>
  BY DEF AfterSuccess
<1>2. ASSUME NEW u \in Task
      PROVE  /\ NewRow(FirstStatus(Kind[u])) \in TaskRow
             /\ [rows[u] EXCEPT !.status = "queued"] \in TaskRow
             /\ rows[u] \in TaskRow
             /\ JoinEpoch(rows[u]) \in Nat
  <2>1. FirstStatus(Kind[u]) \in TaskStatus
    BY FirstStatusType DEF TaskStatus, LiveStatus
  <2>2. rows[u] \in TaskRow
    BY DEF Table
  <2>3. [rows[u] EXCEPT !.status = "queued"] \in TaskRow /\ rows[u].epoch \in Nat
    BY <2>2 DEF TaskRow, TaskStatus, LiveStatus
  <2> QED
    BY <2>1, <2>2, <2>3, NewRowType DEF JoinEpoch
<1>3. next \in Table
  <2> HIDE DEF inserted, joined
  <2> QED
    BY <1>2 DEF Table
<1>4. sent \subseteq Lease
  <2>1. queued \subseteq Task
    OBVIOUS
  <2>2. ASSUME NEW u \in queued
        PROVE  <<u, IF u \in inserted THEN 0 ELSE JoinEpoch(rows[u])>> \in Lease
    <3> HIDE DEF inserted, queued
    <3>1. u \in Task /\ JoinEpoch(rows[u]) \in Nat
      BY <1>2, <2>1
    <3> QED
      BY <3>1 DEF Lease
  <2> HIDE DEF queued, inserted
  <2> QED
    BY <2>2
<1> HIDE DEF next, sent
<1> QED
  BY <1>1, <1>3, <1>4 DEF TypeOK

LEMMA RunAfterSuccessType ==
  ASSUME TypeOK, NEW k, RunAfterSuccess(k)
  PROVE  run' \in RunStatus /\ ws' \in WorkspaceStatus
BY DEF RunAfterSuccess, TypeOK, RunStatus, ActiveRun, WorkspaceStatus

LEMMA SucceedType ==
  ASSUME TypeOK, NEW x \in Execution, Succeed(x)
  PROVE  Ended /\ exec' \subseteq exec /\ paid' = paid
<1> DEFINE t == x.task
           fallback == Provider(t) /\ FallbackOnly(t)
           settled == Provider(t) /\ ~fallback
           acct == IF settled THEN "settled" ELSE "not_required"
           rows == [task EXCEPT ![t] = [Finished(@, "succeeded", "none") EXCEPT !.acct = acct]]
<1>1. t \in Task /\ task \in Table /\ task[t] \in TaskRow
  BY DEF Execution, TypeOK, Table
<1>2. /\ IF settled THEN Finalize({Current(t)}) ELSE ReleaseClaim(t)
      /\ AfterSuccess(t, rows)
      /\ RunAfterSuccess(Kind[t])
      /\ exec' = exec \ {x}
      /\ UNCHANGED paid
  BY DEF Succeed
<1>3. acct \in {"not_required", "reserved", "settled", "pending_reconciliation"}
  OBVIOUS
<1>4. rows \in Table
  <2> HIDE DEF t, acct
  <2>1. [Finished(task[t], "succeeded", "none") EXCEPT !.acct = acct] \in TaskRow
    BY <1>1, <1>3, FinishedType DEF TaskStatus
  <2> QED
    BY <1>1, <2>1 DEF Table
<1> HIDE DEF t, rows, settled
<1> QED
  BY <1>1, <1>2, <1>4, AfterSuccessType, RunAfterSuccessType, AccountingType, ReleaseClaimType
     DEF Ended

LEMMA FailProviderRejectedType ==
  ASSUME TypeOK, NEW x \in Execution, FailProviderRejected(x)
  PROVE  Ended /\ exec' \subseteq exec /\ paid' = paid
<1> DEFINE t == x.task
           rows(code) == [task EXCEPT ![t] =
                            [Finished(@, "failed", code) EXCEPT !.acct = "not_required"]]
<1>1. t \in Task /\ task \in Table /\ task[t] \in TaskRow
  BY DEF Execution, TypeOK, Table
<1>2. PICK code \in {"stopping", "other"} : StopRunAfterTerminalTask(t, rows(code))
  BY DEF FailProviderRejected
<1>3. rows(code) \in Table
  <2> HIDE DEF t
  <2>1. [Finished(task[t], "failed", code) EXCEPT !.acct = "not_required"] \in TaskRow
    BY <1>1, FinishedType DEF TaskStatus, ReopenableStatus
  <2> QED
    BY <1>1, <2>1 DEF Table
<1>4. Release(Current(t)) /\ exec' = exec \ {x} /\ UNCHANGED <<outbox, paid>>
  BY DEF FailProviderRejected
<1> HIDE DEF t, rows
<1> QED
  BY <1>1, <1>2, <1>3, <1>4, StopAfterTerminalType, AccountingType DEF Ended, TypeOK, outbox

(* A recovery reopens its items at later epochs. *)
LEMMA ApplyRecoveryType ==
  ASSUME TypeOK, NEW items \in SUBSET Task, ApplyRecovery(items)
  PROVE  TypeOK'
<1> DEFINE runnable == {t \in items : Deps[t] \subseteq Succeeded}
           sent == {<<t, ReopenEpoch(t)>> : t \in runnable}
<1>1. ASSUME NEW t \in Task
      PROVE  /\ ReopenEpoch(t) \in Nat
             /\ [NewRow(IF t \in runnable THEN "queued" ELSE "blocked") EXCEPT
                   !.epoch = ReopenEpoch(t), !.gen = task[t].gen + 1] \in TaskRow
             /\ [task[t] EXCEPT !.old = @ \/ task[t].status \in {"failed", "outcome_unknown"}]
                  \in TaskRow
  <2>1. task[t] \in TaskRow
    BY DEF TypeOK
  <2>2. task[t].epoch + 1 \in Nat /\ task[t].gen + 1 \in Nat
    BY <2>1 DEF TaskRow
  <2>3. NewRow(IF t \in runnable THEN "queued" ELSE "blocked") \in TaskRow
    BY NewRowType DEF TaskStatus, LiveStatus
  <2>4. [task[t] EXCEPT !.old = @ \/ task[t].status \in {"failed", "outcome_unknown"}] \in TaskRow
    <3> DEFINE old == task[t].old \/ task[t].status \in {"failed", "outcome_unknown"}
    <3>1. old \in BOOLEAN
      BY <2>1, Zenon
    <3> HIDE DEF old
    <3>2. [task[t] EXCEPT !.old = old] \in TaskRow
      BY <2>1, <3>1 DEF TaskRow
    <3> QED
      BY <3>2 DEF old
  <2> QED
    BY <2>2, <2>3, <2>4 DEF ReopenEpoch, TaskRow
<1>2. task' \in [Task -> TaskRow]
  BY <1>1 DEF ApplyRecovery
<1>3. waiting' \subseteq Lease
  <2>1. sent \subseteq Lease
    <3>1. ASSUME NEW t \in runnable PROVE <<t, ReopenEpoch(t)>> \in Lease
      <4>1. t \in Task /\ ReopenEpoch(t) \in Nat
        BY <1>1
      <4> QED
        BY <4>1 DEF Lease
    <3> HIDE DEF runnable
    <3> QED
      BY <3>1
  <2> HIDE DEF sent
  <2>2. waiting' = waiting \cup sent
    BY DEF ApplyRecovery, sent
  <2> QED
    BY <2>1, <2>2 DEF TypeOK
<1>4. hold' \subseteq Lease /\ released' \subseteq Lease /\ ledger' \subseteq Lease
  BY AccountingType DEF ApplyRecovery
<1>5. run' \in RunStatus /\ ws' \in WorkspaceStatus /\ UNCHANGED <<consumed, dead, exec, paid>>
  BY DEF ApplyRecovery, RunStatus, ActiveRun, WorkspaceStatus
<1> QED
  BY <1>2, <1>3, <1>4, <1>5 DEF TypeOK

LEMMA PlanType == ASSUME NEW units \in SUBSET Task PROVE Plan(units) \in SUBSET Task
BY DEF Plan, Receipts

(* Every step of the workers, the sweep and the author keeps the types. *)
LEMMA TypeStep == TypeOK /\ [Next]_vars => TypeOK'
<1> SUFFICES ASSUME TypeOK, [Next]_vars PROVE TypeOK'
  OBVIOUS
<1>1. ASSUME NEW t \in Task, ClaimExact(t) PROVE TypeOK'
  <2> DEFINE lease == <<t, task[t].epoch + 1>>
             x == [task |-> t, token |-> lease[2], phase |-> "claimed"]
  <2>1. task[t] \in TaskRow /\ task[t].epoch + 1 \in Nat /\ task[t].attempt + 1 \in Nat
    BY DEF TypeOK, TaskRow
  <2>2. Claimed(task[t], Provider(t)) \in TaskRow
    BY <2>1 DEF Claimed, TaskRow, TaskStatus, LiveStatus
  <2>3. lease \in Lease /\ x \in Execution
    BY <2>1 DEF Lease, Execution
  <2>4. /\ task' = [task EXCEPT ![t] = Claimed(@, Provider(t))]
        /\ hold' \subseteq hold \cup {lease}
        /\ waiting' \subseteq waiting
        /\ consumed' = consumed \cup {Current(t)}
        /\ exec' = exec \cup {x}
        /\ UNCHANGED <<run, ws, dead, released, ledger, paid>>
    BY <1>1 DEF ClaimExact
  <2> HIDE DEF lease, x
  <2> QED
    BY <2>2, <2>3, <2>4, CurrentType DEF TypeOK
<1>2. ASSUME NEW t \in Task, GiveUpRow(t) PROVE TypeOK'
  BY <1>2, CurrentType DEF GiveUpRow, TypeOK, accounting
<1>3. ASSUME NEW t \in Task, LeaseExpires(t) PROVE TypeOK'
  <2>1. [task[t] EXCEPT !.live = FALSE] \in TaskRow
    BY DEF TypeOK, TaskRow
  <2> QED
    BY <1>3, <2>1 DEF LeaseExpires, TypeOK, outbox, accounting
<1>4. ASSUME NEW x \in exec, NEW phase \in {"fenced", "answered", "rejected"}, Advance(x, phase)
      PROVE  exec' \subseteq Execution
  <2>1. x \in Execution
    BY DEF TypeOK
  <2>2. [x EXCEPT !.phase = phase] \in Execution
    BY <2>1 DEF Execution
  <2> QED
    BY <1>4, <2>2 DEF Advance, TypeOK
<1>5. ASSUME NEW x \in exec, WorkerStep(x) PROVE TypeOK'
  <2>1. x \in Execution /\ x.task \in Task /\ <<x.task, x.token>> \in Lease
    BY DEF TypeOK, Execution, Lease
  <2>2. CASE MarkProviderDispatched(x)
    <3>0. task[x.task] \in TaskRow
      BY <2>1 DEF TypeOK
    <3>1. [task[x.task] EXCEPT !.dispatched = TRUE] \in TaskRow
      BY <3>0 DEF TaskRow
    <3>2. Advance(x, "fenced")
      BY <2>2 DEF MarkProviderDispatched
    <3> QED
      BY <2>1, <2>2, <3>1, <3>2, <1>4 DEF MarkProviderDispatched, TypeOK, outbox, accounting
  <2>3. CASE CallProvider(x)
    <3>1. exec' \subseteq Execution
      BY <2>3, <1>4 DEF CallProvider
    <3>2. paid' \subseteq Lease
      BY <2>1, <2>3 DEF CallProvider, TypeOK
    <3> QED
      BY <2>3, <3>1, <3>2 DEF CallProvider, TypeOK, outbox, accounting
  <2>4. CASE Succeed(x)
    BY <2>1, <2>4, SucceedType DEF Ended, Table, TypeOK
  <2>5. CASE FailProviderRejected(x)
    BY <2>1, <2>5, FailProviderRejectedType DEF Ended, Table, TypeOK
  <2>6. CASE RecoverClaimFailure(x)
    <3>1. Ended
      BY <2>1, <2>6, EndDispatchedType, EndUndispatchedType DEF RecoverClaimFailure
    <3> QED
      BY <2>6, <3>1 DEF RecoverClaimFailure, Ended, Table, TypeOK
  <2>7. CASE Abandon(x)
    BY <2>7 DEF Abandon, TypeOK, outbox, accounting
  <2> QED
    BY <1>5, <2>2, <2>3, <2>4, <2>5, <2>6, <2>7 DEF WorkerStep
<1>6. task \in Table
  BY DEF TypeOK, Table
<1>7. CASE RecoverOne
  <2>1. ASSUME NEW t \in Task, RecoverTerminal(t) PROVE TypeOK'
    <3>1. CASE Finalize({Current(t)}) /\ Requeue(t, Requeued(task[t]))
      <4>1. Requeued(task[t]) \in TaskRow
        BY <1>6, RequeuedType DEF Table
      <4> QED
        BY <2>1, <3>1, <4>1, RequeueType, AccountingType DEF RecoverTerminal, Table, TypeOK
    <3>2. CASE StopRunAfterTerminalTask(t, task) /\ UNCHANGED <<outbox, accounting>>
      BY <1>6, <2>1, <3>2, StopAfterTerminalType, AccountingType
         DEF RecoverTerminal, Table, TypeOK, outbox
    <3> QED
      BY <2>1, <3>1, <3>2 DEF RecoverTerminal
  <2>2. CASE RecoverUndrained
    BY <1>6, <2>2, CancelType, AccountingType
       DEF RecoverUndrained, SyncNeedsAction, WorkspaceStatus, Table, TypeOK, outbox
  <2>3. ASSUME NEW t \in Task, RecoverExpired(t) PROVE TypeOK'
    <3>1. Ended
      BY <2>3, EndDispatchedType, EndUndispatchedType DEF RecoverExpired
    <3> QED
      BY <2>3, <3>1 DEF RecoverExpired, Ended, Table, TypeOK
  <2>4. ASSUME NEW t \in Task, ReconcileFinishedRunUnknown(t) PROVE TypeOK'
    BY <2>4, AccountingType DEF ReconcileFinishedRunUnknown, TypeOK, outbox
  <2>5. CASE StopStalledRecoveredRun
    BY <1>6, <2>5, StopRunType, AccountingType
       DEF StopStalledRecoveredRun, Table, TypeOK, outbox
  <2> QED
    BY <1>7, <2>1, <2>2, <2>3, <2>4, <2>5 DEF RecoverOne
<1>8. CASE AuthorStop
  <2>1. run' \in RunStatus
    BY <1>8 DEF AuthorStop, RunStatus
  <2> QED
    BY <1>6, <1>8, <2>1, CancelType, AccountingType
       DEF AuthorStop, SyncNeedsAction, WorkspaceStatus, Table, TypeOK, outbox
<1>9. CASE AuthorResume
  BY <1>9, PlanType, ApplyRecoveryType DEF AuthorResume
<1>10. ASSUME NEW scope \in Scopes, AuthorRegenerate(scope) PROVE TypeOK'
  <2>1. scope \subseteq Task
    BY GraphAssumption
  <2>2. Plan(scope \ Succeeded) \in SUBSET Task
    BY <2>1, PlanType
  <2> QED
    BY <1>10, <2>2, ApplyRecoveryType DEF AuthorRegenerate
<1>11. CASE UNCHANGED vars
  BY <1>11 DEF vars, TypeOK
<1> QED
  BY <1>1, <1>2, <1>3, <1>5, <1>7, <1>8, <1>9, <1>10, <1>11 DEF Next

LEMMA InitType == Init => TypeOK
<1> SUFFICES ASSUME Init PROVE TypeOK
  OBVIOUS
<1>1. ASSUME NEW t \in Task
      PROVE  NewRow(IF t \in FirstTasks THEN FirstStatus(Kind[t]) ELSE "absent") \in TaskRow
  BY FirstStatusType, NewRowType DEF TaskStatus, LiveStatus
<1>2. task \in [Task -> TaskRow]
  BY <1>1 DEF Init
<1>3. waiting \subseteq Lease
  BY DEF Init, Lease, FirstTasks
<1>4. run \in RunStatus /\ ws \in WorkspaceStatus
  BY GraphAssumption DEF Init, RunStatus, ActiveRun, WorkspaceStatus
<1> QED
  BY <1>2, <1>3, <1>4 DEF Init, TypeOK

(* Every reachable state of a run is well typed: no refund takes the       *)
(* attempts below zero, and every row, reservation and execution names a   *)
(* task of the run.                                                        *)
THEOREM TypeCorrect == Spec => []TypeOK
BY InitType, TypeStep, PTL DEF Spec

(* A stopped run stays stopped, whatever late successes, rejections and    *)
(* sweeps do to it, until the author recovers it after it has drained.     *)
THEOREM StoppedStaysStopped == Spec => StopIsFinal
<1> DEFINE Final == run = "needs_action" /\ run' # run =>
                      run' = "executing" /\ ws = "needs_action" /\ ~LiveWork
<1>1. ASSUME NEW rows, StopRun(rows) PROVE Final
  BY <1>1 DEF StopRun, ActiveRun
<1>2. ASSUME NEW t, NEW rows, StopRunAfterTerminalTask(t, rows) PROVE Final
  BY <1>1, <1>2 DEF StopRunAfterTerminalTask
<1>3. ASSUME NEW t, EndDispatched(t) PROVE Final
  BY <1>2, <1>3 DEF EndDispatched, Requeue
<1>4. ASSUME NEW t, NEW transient, EndUndispatched(t, transient) PROVE Final
  BY <1>2, <1>4 DEF EndUndispatched, Requeue
<1>5. ASSUME NEW k, RunAfterSuccess(k) PROVE Final
  BY <1>5 DEF RunAfterSuccess, FinalizerRun
<1>6. ASSUME RecoveryOpen, NEW items, ApplyRecovery(items) PROVE Final
  BY <1>6 DEF RecoveryOpen, ApplyRecovery
<1>7. ASSUME NEW x, WorkerStep(x) PROVE Final
  <2>1. CASE MarkProviderDispatched(x) \/ CallProvider(x) \/ Abandon(x)
    BY <2>1 DEF MarkProviderDispatched, CallProvider, Abandon
  <2>2. CASE Succeed(x)
    BY <1>5, <2>2 DEF Succeed
  <2>3. CASE FailProviderRejected(x)
    BY <1>2, <2>3 DEF FailProviderRejected
  <2>4. CASE RecoverClaimFailure(x)
    BY <1>3, <1>4, <2>4 DEF RecoverClaimFailure
  <2> QED
    BY <1>7, <2>1, <2>2, <2>3, <2>4 DEF WorkerStep
<1>8. ASSUME RecoverOne PROVE Final
  <2>1. ASSUME NEW t, RecoverTerminal(t) PROVE Final
    BY <1>2, <2>1 DEF RecoverTerminal, Requeue
  <2>2. ASSUME NEW t, RecoverExpired(t) PROVE Final
    BY <1>3, <1>4, <2>2 DEF RecoverExpired
  <2>3. CASE RecoverUndrained \/ \E t \in Task : ReconcileFinishedRunUnknown(t)
    BY <2>3 DEF RecoverUndrained, ReconcileFinishedRunUnknown
  <2>4. CASE StopStalledRecoveredRun
    BY <1>1, <2>4 DEF StopStalledRecoveredRun
  <2> QED
    BY <1>8, <2>1, <2>2, <2>3, <2>4 DEF RecoverOne
<1>9. ASSUME AuthorStop PROVE Final
  BY <1>9 DEF AuthorStop, ActiveRun
<1>10. ASSUME AuthorResume \/ \E scope \in Scopes : AuthorRegenerate(scope) PROVE Final
  BY <1>6, <1>10 DEF AuthorResume, AuthorRegenerate
<1>11. ASSUME \E t \in Task : ClaimExact(t) \/ GiveUpRow(t) \/ LeaseExpires(t)
       PROVE  Final
  BY <1>11 DEF ClaimExact, GiveUpRow, LeaseExpires
<1>12. [Next]_vars => [Final]_vars
  BY <1>7, <1>8, <1>9, <1>10, <1>11 DEF Next
<1> QED
  BY <1>12, PTL DEF Spec, StopIsFinal

-----------------------------------------------------------------------------
(* What one step may do to one task: to its row, to its outbox rows and to *)
(* its reservations.  The invariants below are about single tasks, so each *)
(* of them is shown for these local steps instead of for every handler.    *)

SameRows(u) ==
  \A e \in Nat : /\ <<u, e>> \in waiting' <=> <<u, e>> \in waiting
                 /\ <<u, e>> \in consumed' <=> <<u, e>> \in consumed
                 /\ <<u, e>> \in dead' <=> <<u, e>> \in dead

SendsRow(u, n) ==
  \A e \in Nat : /\ <<u, e>> \in waiting' <=> <<u, e>> \in waiting \/ e = n
                 /\ <<u, e>> \in consumed' <=> <<u, e>> \in consumed
                 /\ <<u, e>> \in dead' <=> <<u, e>> \in dead

SameMoney(u) ==
  \A e \in Nat : /\ <<u, e>> \in hold' <=> <<u, e>> \in hold
                 /\ <<u, e>> \in ledger' <=> <<u, e>> \in ledger

(* The reservation of the current claim is charged. *)
Charges(u) ==
  /\ Current(u) \in hold
  /\ \A e \in Nat : /\ <<u, e>> \in hold' <=> <<u, e>> \in hold /\ e # task[u].epoch
                    /\ <<u, e>> \in ledger' <=> <<u, e>> \in ledger \/ e = task[u].epoch

(* The reservation of the current claim, if the task has one, is released. *)
Frees(u) ==
  IF Provider(u)
  THEN /\ Current(u) \in hold
       /\ \A e \in Nat : /\ <<u, e>> \in hold' <=> <<u, e>> \in hold /\ e # task[u].epoch
                         /\ <<u, e>> \in ledger' <=> <<u, e>> \in ledger
  ELSE SameMoney(u)

RestStep(u) == task'[u] = task[u] /\ SameRows(u) /\ SameMoney(u)

ClaimStep(u) ==
  /\ task[u].status = "queued" /\ run \in ActiveRun
  /\ task[u].attempt < MaxAttempts[u] /\ Deps[u] \subseteq Succeeded
  /\ task'[u] = Claimed(task[u], Provider(u))
  /\ \A e \in Nat : /\ <<u, e>> \in waiting' <=> <<u, e>> \in waiting /\ e # task[u].epoch
                    /\ <<u, e>> \in consumed' <=> <<u, e>> \in consumed \/ e = task[u].epoch
                    /\ <<u, e>> \in dead' <=> <<u, e>> \in dead
                    /\ <<u, e>> \in hold' <=> <<u, e>> \in hold \/ (Provider(u) /\ e = task[u].epoch + 1)
                    /\ <<u, e>> \in ledger' <=> <<u, e>> \in ledger

GiveUpStep(u) ==
  /\ Current(u) \in waiting
  /\ task'[u] = task[u] /\ SameMoney(u)
  /\ \A e \in Nat : /\ <<u, e>> \in waiting' <=> <<u, e>> \in waiting /\ e # task[u].epoch
                    /\ <<u, e>> \in consumed' <=> <<u, e>> \in consumed
                    /\ <<u, e>> \in dead' <=> <<u, e>> \in dead \/ e = task[u].epoch

FenceStep(u) ==
  /\ task[u].status = "running" /\ ~task[u].dispatched /\ ~FallbackOnly(u)
  /\ task'[u] = [task[u] EXCEPT !.dispatched = TRUE]
  /\ SameRows(u) /\ SameMoney(u)

ExpireStep(u) ==
  /\ task[u].status = "running"
  /\ task'[u] = [task[u] EXCEPT !.live = FALSE]
  /\ SameRows(u) /\ SameMoney(u)

SuccessStep(u) ==
  /\ task[u].status = "running"
  /\ \E acct \in {"settled", "not_required"} :
       /\ task'[u] = [Finished(task[u], "succeeded", "none") EXCEPT !.acct = acct]
       /\ acct = "settled" => Provider(u) /\ Charges(u)
       /\ acct = "not_required" => ~task[u].dispatched /\ Frees(u)
  /\ SameRows(u)

(* A dispatched call without an answer is charged and replayed. *)
ReplayStep(u) ==
  /\ \/ task[u].status = "running" /\ task[u].dispatched
     \/ task[u].status = "outcome_unknown"
  /\ run \in ActiveRun /\ task[u].attempt < MaxAttempts[u]
  /\ task'[u] = Requeued(task[u])
  /\ Charges(u) /\ SendsRow(u, task[u].epoch)

RetryStep(u) ==
  /\ task[u].status = "running" /\ ~task[u].dispatched /\ run \in ActiveRun
  /\ \E n \in Nat :
       /\ task'[u] = [Requeued(task[u]) EXCEPT !.attempt = n]
       /\ \/ n = task[u].attempt
          \/ n = task[u].attempt - 1 /\ task[u].epoch < TransientEpochLimit
  /\ Frees(u) /\ SendsRow(u, task[u].epoch)

FailStep(u) ==
  /\ task[u].status = "running"
  /\ ~task[u].dispatched \/ \E x \in exec : x.task = u /\ FailProviderRejected(x)
  /\ \E code \in {"stopping", "other"} :
       task'[u] = [Finished(task[u], "failed", code) EXCEPT !.acct = "not_required"]
  /\ Frees(u) /\ SameRows(u)

UnknownStep(u) ==
  /\ task[u].status = "running" /\ task[u].dispatched /\ Current(u) \in hold
  /\ ~(run \in ActiveRun /\ task[u].attempt < MaxAttempts[u])
  /\ task'[u] = [Finished(task[u], "outcome_unknown", "other") EXCEPT
                   !.acct = "pending_reconciliation"]
  /\ SameRows(u) /\ SameMoney(u)

CancelStep(u) ==
  /\ task[u].status \in {"blocked", "queued"}
  /\ task'[u] = [task[u] EXCEPT !.status = "canceled", !.code = "other"]
  /\ SameRows(u) /\ SameMoney(u)

InsertStep(u) ==
  /\ \E t \in Running : Kind[u] \in Inserts(Kind[t]) /\ task'[t].status = "succeeded"
  /\ task'[u] = NewRow(FirstStatus(Kind[u]))
  /\ IF FirstStatus(Kind[u]) = "queued" THEN SendsRow(u, 0) ELSE SameRows(u)
  /\ SameMoney(u)

JoinStep(u) ==
  /\ task[u].status = "blocked"
  /\ task'[u] = [task[u] EXCEPT !.status = "queued"]
  /\ SendsRow(u, task[u].epoch) /\ SameMoney(u)

ReopenStep(u) ==
  /\ RecoveryOpen /\ run' = "executing"
  /\ task[u].status \in ReopenableStatus
  /\ EpochHeadroom(u)
  /\ \E status \in {"queued", "blocked"} :
       /\ task'[u] = [NewRow(status) EXCEPT !.epoch = task[u].epoch + 1,
                                             !.gen = task[u].gen + 1]
       /\ IF status = "queued" THEN SendsRow(u, task[u].epoch + 1) ELSE SameRows(u)
  /\ IF task[u].status = "outcome_unknown" /\ Current(u) \in hold
     THEN Charges(u) ELSE SameMoney(u)

(* A recovery that does not reopen the task marks its failure as old. *)
AgeStep(u) ==
  /\ RecoveryOpen
  /\ task'[u] = [task[u] EXCEPT !.old = @ \/ task[u].status \in {"failed", "outcome_unknown"}]
  /\ SameRows(u) /\ SameMoney(u)

ReconcileStep(u) ==
  /\ task[u].status = "outcome_unknown"
  /\ task'[u] = task[u]
  /\ SameRows(u) /\ Charges(u)

LocalStep(u) ==
  \/ RestStep(u) \/ ClaimStep(u) \/ GiveUpStep(u) \/ FenceStep(u) \/ ExpireStep(u)
  \/ SuccessStep(u) \/ ReplayStep(u) \/ RetryStep(u) \/ FailStep(u) \/ UnknownStep(u)
  \/ CancelStep(u) \/ InsertStep(u) \/ JoinStep(u) \/ ReopenStep(u) \/ AgeStep(u)
  \/ ReconcileStep(u)

LEMMA RowType == ASSUME TypeOK, NEW t \in Task PROVE task[t] \in TaskRow /\ task[t].epoch \in Nat
BY DEF TypeOK, TaskRow

LEMMA QuietOutbox == ASSUME UNCHANGED outbox, NEW u PROVE SameRows(u)
BY DEF outbox, SameRows

LEMMA QuietMoney == ASSUME UNCHANGED accounting, NEW u PROVE SameMoney(u)
BY DEF accounting, SameMoney

(* Settling the claim of t touches the reservations of no other task. *)
LEMMA FinalizeLocal ==
  ASSUME TypeOK, NEW t \in Task, Finalize({Current(t)}), NEW u \in Task
  PROVE  IF u = t THEN Charges(u) ELSE SameMoney(u)
BY RowType DEF Finalize, Charges, SameMoney, Current

LEMMA ReleaseLocal ==
  ASSUME TypeOK, NEW t \in Task, Release(Current(t)), Provider(t), NEW u \in Task
  PROVE  IF u = t THEN Frees(u) ELSE SameMoney(u)
BY RowType DEF Release, Frees, SameMoney, Current

LEMMA ReleaseClaimLocal ==
  ASSUME TypeOK, NEW t \in Task, ReleaseClaim(t), NEW u \in Task
  PROVE  IF u = t THEN Frees(u) ELSE SameMoney(u)
BY ReleaseLocal, QuietMoney DEF ReleaseClaim, Frees

LEMMA RequeueLocal ==
  ASSUME TypeOK, NEW t \in Task, NEW row, Requeue(t, row), NEW u \in Task
  PROVE  IF u = t THEN task'[u] = row /\ SendsRow(u, task[u].epoch)
         ELSE task'[u] = task[u] /\ SameRows(u)
<1>1. task' = [task EXCEPT ![t] = row] /\ waiting' = waiting \cup {<<t, task[t].epoch>>}
      /\ UNCHANGED <<consumed, dead>>
  BY DEF Requeue, Current
<1>2. \A e \in Nat : <<u, e>> = <<t, task[t].epoch>> <=> u = t /\ e = task[t].epoch
  OBVIOUS
<1>3. IF u = t THEN SendsRow(u, task[u].epoch) ELSE SameRows(u)
  BY <1>1, <1>2 DEF SendsRow, SameRows
<1> QED
  BY <1>1, <1>3 DEF TypeOK

(* What canceling leaves of the row of u. *)
Canceled(rows, u) ==
  \/ task'[u] = rows[u]
  \/ /\ rows[u].status \in {"blocked", "queued"}
     /\ task'[u] = [rows[u] EXCEPT !.status = "canceled", !.code = "other"]

LEMMA CancelLocal ==
  ASSUME NEW rows, NEW which, task' = Cancel(rows, which), NEW u \in Task
  PROVE  Canceled(rows, u)
BY DEF Cancel, Canceled

LEMMA StopLocal ==
  ASSUME NEW t \in Task, NEW rows,
         StopRun(rows) \/ StopRunAfterTerminalTask(t, rows), NEW u \in Task
  PROVE  Canceled(rows, u)
BY CancelLocal DEF StopRunAfterTerminalTask, StopRun, SyncNeedsAction

(* A terminal row of t: t gets it, and the others rest or are canceled. *)
LEMMA TerminalLocal ==
  ASSUME TypeOK, NEW t \in Task, NEW row, row.status \notin {"blocked", "queued"},
         StopRunAfterTerminalTask(t, [task EXCEPT ![t] = row]), NEW u \in Task
  PROVE  IF u = t THEN task'[u] = row
         ELSE \/ task'[u] = task[u]
              \/ /\ task[u].status \in {"blocked", "queued"}
                 /\ task'[u] = [task[u] EXCEPT !.status = "canceled", !.code = "other"]
<1> DEFINE rows == [task EXCEPT ![t] = row]
<1>1. Canceled(rows, u)
  BY StopLocal
<1>2. rows[t] = row /\ (u # t => rows[u] = task[u])
  BY DEF TypeOK
<1> HIDE DEF rows
<1> QED
  BY <1>1, <1>2 DEF Canceled

LEMMA CancelStopLocal ==
  ASSUME NEW u \in Task, Canceled(task, u), SameRows(u), SameMoney(u)
  PROVE  LocalStep(u)
BY DEF Canceled, RestStep, CancelStep, LocalStep

LEMMA EndDispatchedLocal ==
  ASSUME TypeOK, NEW t \in Task, task[t].status = "running", task[t].dispatched,
         EndDispatched(t), NEW u \in Task
  PROVE  LocalStep(u)
<1>1. Current(t) \in hold
  BY DEF EndDispatched
<1>2. CASE run \in ActiveRun /\ task[t].attempt < MaxAttempts[t]
  <2>1. Finalize({Current(t)}) /\ Requeue(t, Requeued(task[t]))
    BY <1>2 DEF EndDispatched
  <2>2. CASE u = t
    BY <1>2, <2>1, <2>2, FinalizeLocal, RequeueLocal DEF ReplayStep, LocalStep
  <2>3. CASE u # t
    BY <2>1, <2>3, FinalizeLocal, RequeueLocal DEF RestStep, LocalStep
  <2> QED
    BY <2>2, <2>3
<1>3. CASE ~(run \in ActiveRun /\ task[t].attempt < MaxAttempts[t])
  <2> DEFINE row == [Finished(task[t], "outcome_unknown", "other") EXCEPT
                       !.acct = "pending_reconciliation"]
  <2>1. StopRunAfterTerminalTask(t, [task EXCEPT ![t] = row]) /\ UNCHANGED <<outbox, accounting>>
    BY <1>3 DEF EndDispatched
  <2>2. row.status = "outcome_unknown"
    BY RowType DEF Finished, TaskRow
  <2>3. SameRows(u) /\ SameMoney(u)
    BY <2>1, QuietOutbox, QuietMoney
  <2>4. CASE u = t
    <3>1. task'[u] = row
      <4> HIDE DEF row
      <4> QED
        BY <2>1, <2>2, <2>4, TerminalLocal
    <3> QED
      BY <1>1, <1>3, <2>3, <2>4, <3>1 DEF UnknownStep, LocalStep
  <2>5. CASE u # t
    <3> HIDE DEF row
    <3>1. Canceled(task, u)
      BY <2>1, <2>2, <2>5, TerminalLocal DEF Canceled
    <3> QED
      BY <2>3, <3>1, CancelStopLocal
  <2> QED
    BY <2>4, <2>5
<1> QED
  BY <1>2, <1>3

LEMMA EndUndispatchedLocal ==
  ASSUME TypeOK, NEW t \in Task, task[t].status = "running", ~task[t].dispatched,
         NEW transient \in BOOLEAN, EndUndispatched(t, transient), NEW u \in Task
  PROVE  LocalStep(u)
<1> DEFINE refund == /\ transient
                     /\ run \in ActiveRun
                     /\ task[t].attempt >= 1
                     /\ task[t].epoch < TransientEpochLimit
           over == run \notin ActiveRun \/ (task[t].attempt >= MaxAttempts[t] /\ ~refund)
<1>1. IF u = t THEN Frees(u) ELSE SameMoney(u)
  BY ReleaseClaimLocal DEF EndUndispatched
<1>2. CASE over
  <2> DEFINE row == [Finished(task[t], "failed", "other") EXCEPT !.acct = "not_required"]
  <2>1. StopRunAfterTerminalTask(t, [task EXCEPT ![t] = row]) /\ UNCHANGED outbox
    BY <1>2 DEF EndUndispatched
  <2>2. row.status = "failed"
    BY RowType DEF Finished, TaskRow
  <2>3. SameRows(u)
    BY <2>1, QuietOutbox
  <2>4. CASE u = t
    <3>1. task'[u] = row
      <4> HIDE DEF row
      <4> QED
        BY <2>1, <2>2, <2>4, TerminalLocal
    <3> QED
      BY <1>1, <2>3, <2>4, <3>1 DEF FailStep, LocalStep
  <2>5. CASE u # t
    <3> HIDE DEF row
    <3>1. Canceled(task, u)
      BY <2>1, <2>2, <2>5, TerminalLocal DEF Canceled
    <3> QED
      BY <1>1, <2>3, <2>5, <3>1, CancelStopLocal
  <2> QED
    BY <2>4, <2>5
<1>3. CASE ~over
  <2> DEFINE n == IF refund THEN task[t].attempt - 1 ELSE task[t].attempt
             row == [Requeued(task[t]) EXCEPT !.attempt = n]
  <2>0. task[t] \in TaskRow /\ task[t].attempt \in Nat
    BY RowType DEF TaskRow
  <2>1. Requeue(t, row)
    <3>1. Requeued(task[t]).attempt = task[t].attempt
      BY <2>0, RequeuedType
    <3> QED
      BY <1>3, <3>1 DEF EndUndispatched
  <2>2. n \in Nat /\ run \in ActiveRun
    BY <1>3, <2>0
  <2>3. n = task[t].attempt \/ (n = task[t].attempt - 1 /\ task[t].epoch < TransientEpochLimit)
    OBVIOUS
  <2>4. CASE u = t
    <3>1. task'[u] = row /\ SendsRow(u, task[u].epoch)
      BY <2>1, <2>4, RequeueLocal
    <3> HIDE DEF n
    <3> QED
      BY <1>1, <2>2, <2>3, <2>4, <3>1 DEF RetryStep, LocalStep
  <2>5. CASE u # t
    <3> HIDE DEF row
    <3> QED
      BY <1>1, <2>1, <2>5, RequeueLocal DEF RestStep, LocalStep
  <2> QED
    BY <2>4, <2>5
<1> QED
  BY <1>2, <1>3

(* The success hook of t finishes t, inserts rows and queues joins. *)
LEMMA AfterSuccessLocal ==
  ASSUME TypeOK, NEW t \in Task, NEW row, row.status = "succeeded",
         task[t].status = "running", AfterSuccess(t, [task EXCEPT ![t] = row]), NEW u \in Task
  PROVE  IF u = t THEN task'[u] = row /\ SameRows(u)
         ELSE SameMoney(u) => RestStep(u) \/ InsertStep(u) \/ JoinStep(u)
<1> DEFINE rows == [task EXCEPT ![t] = row]
           done == Succeeded \cup {t}
           joined == {w \in Task : /\ Kind[w] \in Joins(Kind[t])
                                   /\ t \in Deps[w]
                                   /\ rows[w].status = "blocked"
                                   /\ Deps[w] \subseteq done}
           inserted == {w \in Task : Kind[w] \in Inserts(Kind[t])}
           queued == joined \cup {w \in inserted : FirstStatus(Kind[w]) = "queued"}
           at(w) == IF w \in inserted THEN 0 ELSE rows[w].epoch
           sent == {<<w, at(w)>> : w \in queued}
<1>1. /\ task' = [w \in Task |->
            CASE w \in inserted -> NewRow(FirstStatus(Kind[w]))
              [] w \in joined -> [rows[w] EXCEPT !.status = "queued"]
              [] OTHER -> rows[w]]
      /\ waiting' = waiting \cup sent
      /\ UNCHANGED <<consumed, dead>>
  BY DEF AfterSuccess, JoinEpoch
<1>2. rows[t] = row /\ (u # t => rows[u] = task[u])
  BY DEF TypeOK
<1>3. t \notin inserted /\ t \notin joined
  <2>1. t \notin inserted
    BY DEF Inserts
  <2> QED
    BY <1>2, <2>1
<1>4. u \in joined => rows[u].status = "blocked"
  OBVIOUS
<1>5. u \in inserted => Kind[u] \in Inserts(Kind[t])
  OBVIOUS
<1>6. u \in queued <=> u \in joined \/ (u \in inserted /\ FirstStatus(Kind[u]) = "queued")
  OBVIOUS
<1> HIDE DEF rows, joined, inserted, queued
<1>7. \A e \in Nat : <<u, e>> \in sent <=> u \in queued /\ e = at(u)
  OBVIOUS
<1>8. IF u \in queued THEN SendsRow(u, at(u)) ELSE SameRows(u)
  <2> HIDE DEF sent, at
  <2> QED
    BY <1>1, <1>7 DEF SendsRow, SameRows
<1>9. CASE u = t
  BY <1>1, <1>2, <1>3, <1>6, <1>8, <1>9
<1>10. ASSUME u # t, SameMoney(u), u \in inserted PROVE InsertStep(u)
  <2>1. Kind[u] \in Joins(Kind[t]) => FirstStatus(Kind[u]) = "blocked" /\ Kind[u] \notin Inserts(Kind[t])
    BY DEF Joins, Inserts, FirstStatus
  <2>2. u \notin joined
    BY <1>5, <1>10, <2>1 DEF joined
  <2>3. task'[u] = NewRow(FirstStatus(Kind[u])) /\ Kind[u] \in Inserts(Kind[t])
    BY <1>1, <1>5, <1>10, <2>2
  <2>4. t \in Running /\ task'[t].status = "succeeded"
    <3>1. task'[t] = row
      BY <1>1, <1>2, <1>3
    <3> QED
      BY <3>1 DEF Running
  <2>5. IF FirstStatus(Kind[u]) = "queued" THEN SendsRow(u, 0) ELSE SameRows(u)
    BY <1>6, <1>8, <1>10, <2>2
  <2> QED
    BY <1>10, <2>3, <2>4, <2>5 DEF InsertStep
<1>11. ASSUME u # t, SameMoney(u), u \notin inserted, u \in joined PROVE JoinStep(u)
  BY <1>1, <1>2, <1>4, <1>6, <1>8, <1>11 DEF JoinStep
<1>12. ASSUME u # t, SameMoney(u), u \notin inserted, u \notin joined PROVE RestStep(u)
  BY <1>1, <1>2, <1>6, <1>8, <1>12 DEF RestStep
<1> QED
  BY <1>9, <1>10, <1>11, <1>12

LEMMA SucceedLocal ==
  ASSUME TypeOK, NEW x \in exec, Succeed(x), NEW u \in Task
  PROVE  LocalStep(u)
<1> DEFINE t == x.task
           settled == Provider(t) /\ ~(Provider(t) /\ FallbackOnly(t))
           acct == IF settled THEN "settled" ELSE "not_required"
           row == [Finished(task[t], "succeeded", "none") EXCEPT !.acct = acct]
<1>1. t \in Task /\ task[t].status = "running"
  BY DEF TypeOK, Execution, Succeed, HoldsLease
<1>2. /\ IF settled THEN Finalize({Current(t)}) ELSE ReleaseClaim(t)
      /\ settled <=> task[t].dispatched
      /\ AfterSuccess(t, [task EXCEPT ![t] = row])
  BY DEF Succeed
<1>3. row.status = "succeeded"
  BY <1>1, RowType DEF Finished, TaskRow
<1>4. IF u = t THEN IF settled THEN Charges(u) ELSE Frees(u) ELSE SameMoney(u)
  <2> HIDE DEF t, settled
  <2> QED
    BY <1>1, <1>2, FinalizeLocal, ReleaseClaimLocal
<1>5. CASE u # t
  <2> HIDE DEF row, t, settled
  <2>1. AfterSuccess(t, [task EXCEPT ![t] = row]) /\ SameMoney(u)
    BY <1>2, <1>4, <1>5
  <2>2. RestStep(u) \/ InsertStep(u) \/ JoinStep(u)
    BY <1>1, <1>3, <1>5, <2>1, AfterSuccessLocal
  <2> QED
    BY <2>2 DEF LocalStep
<1>6. CASE u = t
  <2>1. task'[u] = row /\ SameRows(u)
    <3> HIDE DEF row, t
    <3> QED
      BY <1>1, <1>2, <1>3, <1>6, AfterSuccessLocal
  <2>2. /\ acct \in {"settled", "not_required"}
        /\ acct = "settled" => Provider(t) /\ Charges(t)
        /\ acct = "not_required" => ~task[t].dispatched /\ Frees(t)
    BY <1>2, <1>4, <1>6
  <2> HIDE DEF t, acct
  <2> QED
    BY <1>1, <1>6, <2>1, <2>2 DEF SuccessStep, LocalStep
<1> QED
  BY <1>5, <1>6

LEMMA RejectedLocal ==
  ASSUME TypeOK, NEW x \in exec, FailProviderRejected(x), Provider(x.task), NEW u \in Task
  PROVE  LocalStep(u)
<1> DEFINE t == x.task
           row(code) == [Finished(task[t], "failed", code) EXCEPT !.acct = "not_required"]
<1>1. t \in Task /\ task[t].status = "running"
  BY DEF TypeOK, Execution, FailProviderRejected, HoldsLease
<1>2. PICK code \in {"stopping", "other"} :
        StopRunAfterTerminalTask(t, [task EXCEPT ![t] = row(code)])
  BY DEF FailProviderRejected
<1>3. row(code).status = "failed"
  BY <1>1, RowType DEF Finished, TaskRow
<1>4. SameRows(u) /\ IF u = t THEN Frees(u) ELSE SameMoney(u)
  <2>1. Release(Current(t)) /\ UNCHANGED outbox
    BY DEF FailProviderRejected
  <2> HIDE DEF t
  <2> QED
    BY <1>1, <2>1, QuietOutbox, ReleaseLocal DEF t
<1>5. CASE u = t
  <2>1. task'[u] = row(code)
    <3> HIDE DEF t, row
    <3> QED
      BY <1>1, <1>2, <1>3, <1>5, TerminalLocal
  <2> QED
    BY <1>1, <1>4, <1>5, <2>1 DEF FailStep, LocalStep
<1>6. CASE u # t
  <2>1. Canceled(task, u)
    <3> HIDE DEF t, row
    <3> QED
      BY <1>1, <1>2, <1>3, <1>6, TerminalLocal DEF Canceled
  <2> QED
    BY <1>4, <1>6, <2>1, CancelStopLocal
<1> QED
  BY <1>5, <1>6

(* A recovery reopens its items, each reopenable, and ages the others. *)
LEMMA ApplyRecoveryLocal ==
  ASSUME TypeOK, RecoveryOpen, NEW items \in SUBSET Task, ApplyRecovery(items),
         \A t \in items : task[t].status \in ReopenableStatus /\ EpochHeadroom(t),
         NEW u \in Task
  PROVE  ReopenStep(u) \/ AgeStep(u)
<1> DEFINE runnable == {t \in items : Deps[t] \subseteq Succeeded}
           unknown == {w \in items : task[w].status = "outcome_unknown"}
           sent == {<<t, ReopenEpoch(t)>> : t \in runnable}
           settled == {Current(t) : t \in unknown} \cap hold
           status == IF u \in runnable THEN "queued" ELSE "blocked"
<1>1. /\ task'[u] = IF u \in items
                    THEN [NewRow(status) EXCEPT !.epoch = ReopenEpoch(u), !.gen = task[u].gen + 1]
                    ELSE [task[u] EXCEPT !.old = @ \/ task[u].status \in {"failed", "outcome_unknown"}]
      /\ waiting' = waiting \cup sent
      /\ UNCHANGED <<consumed, dead>>
      /\ Finalize(settled)
      /\ run' = "executing"
  BY DEF ApplyRecovery
<1>2. u \in runnable => u \in items
  OBVIOUS
<1>3. u \in unknown <=> u \in items /\ task[u].status = "outcome_unknown"
  OBVIOUS
<1>4. \A e \in Nat : <<u, e>> \in sent <=> u \in runnable /\ e = ReopenEpoch(u)
  <2> HIDE DEF runnable
  <2> QED
    OBVIOUS
<1>5. \A e \in Nat : <<u, e>> \in settled <=> u \in unknown /\ e = task[u].epoch /\ <<u, e>> \in hold
  <2> HIDE DEF unknown
  <2> QED
    BY DEF Current
<1> HIDE DEF runnable, unknown, sent, settled
<1>6. IF u \in runnable THEN SendsRow(u, ReopenEpoch(u)) ELSE SameRows(u)
  BY <1>1, <1>4 DEF SendsRow, SameRows
<1>7. IF u \in unknown /\ Current(u) \in hold THEN Charges(u) ELSE SameMoney(u)
  BY <1>1, <1>5, RowType DEF Charges, SameMoney, Finalize, Current
<1>8. CASE u \in items
  <2>1. status \in {"queued", "blocked"} /\ (status = "queued" <=> u \in runnable)
    OBVIOUS
  <2> HIDE DEF status
  <2> QED
    BY <1>1, <1>3, <1>6, <1>7, <1>8, <2>1 DEF ReopenStep, ReopenEpoch
<1>9. CASE u \notin items
  BY <1>1, <1>2, <1>3, <1>6, <1>7, <1>9 DEF AgeStep
<1> QED
  BY <1>8, <1>9

LEMMA PlanReopenable ==
  ASSUME NEW units \in SUBSET Task,
         \A t \in units : task[t].status \in ReopenableStatus /\ EpochHeadroom(t),
         NEW t \in Plan(units)
  PROVE  task[t].status \in ReopenableStatus /\ EpochHeadroom(t)
BY DEF Plan, Receipts, Reopenable

(* A task without a provider never carries a reservation. *)
Unpaid == \A t \in Task : ~Provider(t) => task[t].acct = "not_required"

(* Every step of the system is a local step of every task. *)
LEMMA Locality ==
  ASSUME TypeOK, Unpaid, [Next]_vars, NEW u \in Task
  PROVE  LocalStep(u)
<1>1. ASSUME NEW t \in Task, ClaimExact(t) PROVE LocalStep(u)
  <2> DEFINE lease == <<t, task[t].epoch + 1>>
  <2>1. /\ task' = [task EXCEPT ![t] = Claimed(@, Provider(t))]
        /\ hold' = IF Provider(t) THEN hold \cup {lease} ELSE hold
        /\ waiting' = waiting \ {<<t, task[t].epoch>>}
        /\ consumed' = consumed \cup {<<t, task[t].epoch>>}
        /\ UNCHANGED <<dead, ledger>>
    BY <1>1 DEF ClaimExact, Current
  <2>2. \A e \in Nat : /\ <<u, e>> = <<t, task[t].epoch>> <=> u = t /\ e = task[t].epoch
                       /\ <<u, e>> = lease <=> u = t /\ e = task[t].epoch + 1
    OBVIOUS
  <2> HIDE DEF lease
  <2>3. CASE u = t
    <3>1. task'[u] = Claimed(task[u], Provider(u))
      BY <2>1, <2>3 DEF TypeOK
    <3>2. \A e \in Nat :
            /\ <<u, e>> \in waiting' <=> <<u, e>> \in waiting /\ e # task[u].epoch
            /\ <<u, e>> \in consumed' <=> <<u, e>> \in consumed \/ e = task[u].epoch
            /\ <<u, e>> \in dead' <=> <<u, e>> \in dead
            /\ <<u, e>> \in hold' <=> <<u, e>> \in hold \/ (Provider(u) /\ e = task[u].epoch + 1)
            /\ <<u, e>> \in ledger' <=> <<u, e>> \in ledger
      BY <2>1, <2>2, <2>3
    <3> QED
      BY <1>1, <2>3, <3>1, <3>2 DEF ClaimExact, ClaimStep, LocalStep
  <2>4. CASE u # t
    <3>1. task'[u] = task[u]
      BY <2>1, <2>4 DEF TypeOK
    <3>2. SameRows(u) /\ SameMoney(u)
      BY <2>1, <2>2, <2>4 DEF SameRows, SameMoney
    <3> QED
      BY <3>1, <3>2 DEF RestStep, LocalStep
  <2> QED
    BY <2>3, <2>4
<1>2. ASSUME NEW t \in Task, GiveUpRow(t) PROVE LocalStep(u)
  <2>1. /\ task' = task
        /\ waiting' = waiting \ {<<t, task[t].epoch>>}
        /\ dead' = dead \cup {<<t, task[t].epoch>>}
        /\ UNCHANGED <<consumed, accounting>>
    BY <1>2 DEF GiveUpRow, Current
  <2>2. \A e \in Nat : <<u, e>> = <<t, task[t].epoch>> <=> u = t /\ e = task[t].epoch
    OBVIOUS
  <2>3. SameMoney(u)
    BY <2>1, QuietMoney
  <2>4. CASE u = t
    BY <1>2, <2>1, <2>2, <2>3, <2>4 DEF GiveUpRow, GiveUpStep, LocalStep
  <2>5. CASE u # t
    BY <2>1, <2>2, <2>3, <2>5 DEF SameRows, RestStep, LocalStep
  <2> QED
    BY <2>4, <2>5
<1>3. ASSUME NEW t \in Task, LeaseExpires(t) PROVE LocalStep(u)
  <2>1. SameRows(u) /\ SameMoney(u)
    BY <1>3, QuietOutbox, QuietMoney DEF LeaseExpires
  <2> QED
    BY <1>3, <2>1 DEF LeaseExpires, TypeOK, ExpireStep, RestStep, LocalStep
<1>4. ASSUME NEW x \in exec, WorkerStep(x) PROVE LocalStep(u)
  <2>1. x.task \in Task
    BY DEF TypeOK, Execution
  <2>2. CASE MarkProviderDispatched(x)
    <3>1. SameRows(u) /\ SameMoney(u)
      BY <2>2, QuietOutbox, QuietMoney DEF MarkProviderDispatched
    <3> QED
      BY <2>1, <2>2, <3>1 DEF MarkProviderDispatched, HoldsLease, TypeOK, FenceStep, RestStep, LocalStep
  <2>3. CASE CallProvider(x) \/ Abandon(x)
    <3>1. SameRows(u) /\ SameMoney(u)
      BY <2>3, QuietOutbox, QuietMoney DEF CallProvider, Abandon
    <3> QED
      BY <2>3, <3>1 DEF CallProvider, Abandon, RestStep, LocalStep
  <2>4. CASE Succeed(x)
    BY <2>4, SucceedLocal
  <2>5. CASE FailProviderRejected(x)
    <3>1. Provider(x.task)
      BY <2>1, <2>5 DEF Unpaid, FailProviderRejected
    <3> QED
      BY <2>5, <3>1, RejectedLocal
  <2>6. CASE RecoverClaimFailure(x)
    BY <2>1, <2>6, EndDispatchedLocal, EndUndispatchedLocal DEF RecoverClaimFailure, HoldsLease
  <2> QED
    BY <1>4, <2>2, <2>3, <2>4, <2>5, <2>6 DEF WorkerStep
<1>5. ASSUME NEW t \in Task, RecoverTerminal(t) PROVE LocalStep(u)
  <2>1. CASE Replayable(t) /\ task[t].acct = "pending_reconciliation"
    <3>1. /\ Finalize({Current(t)}) /\ Requeue(t, Requeued(task[t]))
          /\ run \in ActiveRun
          /\ task[t].status = "outcome_unknown" /\ task[t].attempt < MaxAttempts[t]
      BY <1>5, <2>1 DEF RecoverTerminal, TerminalCandidate, Replayable
    <3>2. CASE u = t
      BY <3>1, <3>2, FinalizeLocal, RequeueLocal DEF ReplayStep, LocalStep
    <3>3. CASE u # t
      BY <3>1, <3>3, FinalizeLocal, RequeueLocal DEF RestStep, LocalStep
    <3> QED
      BY <3>2, <3>3
  <2>2. CASE ~(Replayable(t) /\ task[t].acct = "pending_reconciliation")
    <3>1. StopRunAfterTerminalTask(t, task) /\ UNCHANGED <<outbox, accounting>>
      BY <1>5, <2>2 DEF RecoverTerminal
    <3> QED
      BY <3>1, StopLocal, QuietOutbox, QuietMoney, CancelStopLocal
  <2> QED
    BY <2>1, <2>2
<1>6. ASSUME RecoverUndrained \/ StopStalledRecoveredRun \/ AuthorStop PROVE LocalStep(u)
  <2>1. SameRows(u) /\ SameMoney(u)
    BY <1>6, QuietOutbox, QuietMoney DEF RecoverUndrained, StopStalledRecoveredRun, AuthorStop
  <2>2. task' = Cancel(task, Task)
    BY <1>6 DEF RecoverUndrained, StopStalledRecoveredRun, AuthorStop, StopRun, SyncNeedsAction
  <2> QED
    BY <2>1, <2>2, CancelLocal, CancelStopLocal
<1>7. ASSUME NEW t \in Task, RecoverExpired(t) PROVE LocalStep(u)
  BY <1>7, EndDispatchedLocal, EndUndispatchedLocal DEF RecoverExpired, Expired
<1>8. ASSUME NEW t \in Task, ReconcileFinishedRunUnknown(t) PROVE LocalStep(u)
  <2>1. /\ Finalize({Current(t)}) /\ task' = task /\ SameRows(u)
        /\ task[t].status = "outcome_unknown"
    BY <1>8, QuietOutbox DEF ReconcileFinishedRunUnknown
  <2>2. CASE u = t
    BY <2>1, <2>2, FinalizeLocal DEF ReconcileStep, LocalStep
  <2>3. CASE u # t
    BY <2>1, <2>3, FinalizeLocal DEF RestStep, LocalStep
  <2> QED
    BY <2>2, <2>3
<1>9. ASSUME RecoverOne PROVE LocalStep(u)
  BY <1>5, <1>6, <1>7, <1>8, <1>9 DEF RecoverOne
<1>10. ASSUME AuthorResume PROVE LocalStep(u)
  <2>1. ReopenStep(u) \/ AgeStep(u)
    BY <1>10, PlanType, PlanReopenable, ApplyRecoveryLocal DEF AuthorResume
  <2> QED
    BY <2>1 DEF LocalStep
<1>11. ASSUME NEW scope \in Scopes, AuthorRegenerate(scope) PROVE LocalStep(u)
  <2> DEFINE missing == scope \ Succeeded
  <2>1. missing \in SUBSET Task
    BY GraphAssumption
  <2>2. /\ RecoveryOpen /\ ApplyRecovery(Plan(missing))
        /\ \A t \in missing : task[t].status \in ReopenableStatus /\ EpochHeadroom(t)
    BY <1>11 DEF AuthorRegenerate, Reopenable
  <2> HIDE DEF missing
  <2>3. ReopenStep(u) \/ AgeStep(u)
    BY <2>1, <2>2, PlanType, PlanReopenable, ApplyRecoveryLocal
  <2> QED
    BY <2>3 DEF LocalStep
<1>12. ASSUME UNCHANGED vars PROVE LocalStep(u)
  <2>1. SameRows(u) /\ SameMoney(u) /\ task' = task
    BY <1>12 DEF vars, SameRows, SameMoney
  <2> QED
    BY <2>1 DEF RestStep, LocalStep
<1> QED
  BY <1>1, <1>2, <1>3, <1>4, <1>6, <1>9, <1>10, <1>11, <1>12 DEF Next

-----------------------------------------------------------------------------
(* The inductive invariant, task by task. *)

(* A stage is inserted by one success: until then its tasks are absent. *)
InsertedOnce ==
  \A t, u \in Task : Kind[u] \in Inserts(Kind[t]) /\ task[t].status # "succeeded"
                     => task[u].status = "absent"

(* Nothing runs before its dependencies, and no success is taken back. *)
DependenciesDone ==
  \A t \in Task : task[t].status \in {"running", "succeeded"} => Deps[t] \subseteq Succeeded

(* The epochs left cover the attempts left. *)
EpochsLeft(t) ==
  /\ task[t].attempt <= MaxAttempts[t]
  /\ task[t].epoch + (MaxAttempts[t] - task[t].attempt) <= MaxEpoch

(* The outbox rows of a task are of its past epochs, each in one place, and*)
(* of its current epoch only if it was queued in it.                       *)
RowsOnce(t) ==
  /\ \A e \in Nat : <<t, e>> \in waiting \cup consumed \cup dead =>
       e <= task[t].epoch /\ task[t].status # "absent"
  /\ \A e \in Nat : <<t, e>> \in waiting => <<t, e>> \notin consumed \cup dead
  /\ task[t].status \in {"absent", "blocked", "running", "outcome_unknown"} =>
       Current(t) \notin waiting \cup consumed \cup dead
  /\ task[t].status = "queued" => Current(t) \in waiting \cup dead

(* A task holds at most the reservation of its current claim, and the      *)
(* accounting column says so.                                              *)
Booked(t) ==
  /\ \A e \in Nat : <<t, e>> \in hold =>
       e = task[t].epoch /\ task[t].acct \in {"reserved", "pending_reconciliation"}
  /\ task[t].status = "running" /\ Provider(t) => Current(t) \in hold
  /\ task[t].status \in {"absent", "blocked", "queued", "failed", "canceled"} =>
       task[t].acct = "not_required"
  /\ task[t].status = "succeeded" => task[t].acct \in {"settled", "not_required"}
  /\ ~Provider(t) => task[t].acct = "not_required"

(* An unknown outcome that the sweep still looks at has no attempt left. *)
Swept(t) ==
  run \in ActiveRun /\ task[t].status = "outcome_unknown" /\ ~task[t].old =>
    task[t].attempt >= MaxAttempts[t]

Inv ==
  /\ TypeOK
  /\ InsertedOnce
  /\ DependenciesDone
  /\ \A t \in Task : EpochsLeft(t) /\ RowsOnce(t) /\ Booked(t) /\ Swept(t)

LEMMA InvUnpaid == Inv => Unpaid
BY DEF Inv, Booked, Unpaid

LEMMA BookedStep ==
  ASSUME TypeOK, NEW u \in Task, LocalStep(u), Booked(u), InsertedOnce
  PROVE  Booked(u)'
<1>0. task[u] \in TaskRow /\ task[u].epoch \in Nat
  BY RowType
<1>1. ASSUME RestStep(u) PROVE Booked(u)'
  BY <1>0, <1>1 DEF RestStep, SameMoney, Booked, Current, Provider
<1>2. ASSUME ClaimStep(u) PROVE Booked(u)'
  BY <1>0, <1>2 DEF ClaimStep, Claimed, TaskRow, Booked, Current, Provider
<1>3. ASSUME GiveUpStep(u) PROVE Booked(u)'
  BY <1>0, <1>3 DEF GiveUpStep, SameMoney, Booked, Current, Provider
<1>4. ASSUME FenceStep(u) \/ ExpireStep(u) PROVE Booked(u)'
  BY <1>0, <1>4 DEF FenceStep, ExpireStep, TaskRow, SameMoney, Booked, Current, Provider
<1>5. ASSUME SuccessStep(u) PROVE Booked(u)'
  BY <1>0, <1>5 DEF SuccessStep, Finished, TaskRow, Charges, Frees, SameMoney, Booked, Current, Provider
<1>6. ASSUME ReplayStep(u) PROVE Booked(u)'
  BY <1>0, <1>6 DEF ReplayStep, Requeued, TaskRow, Charges, Booked, Current, Provider
<1>7. ASSUME RetryStep(u) PROVE Booked(u)'
  BY <1>0, <1>7 DEF RetryStep, Requeued, TaskRow, Frees, SameMoney, Booked, Current, Provider
<1>8. ASSUME FailStep(u) PROVE Booked(u)'
  BY <1>0, <1>8 DEF FailStep, Finished, TaskRow, Frees, SameMoney, Booked, Current, Provider
<1>9. ASSUME UnknownStep(u) PROVE Booked(u)'
  BY <1>0, <1>9 DEF UnknownStep, Finished, TaskRow, SameMoney, Booked, Current, Provider
<1>10. ASSUME CancelStep(u) PROVE Booked(u)'
  BY <1>0, <1>10 DEF CancelStep, TaskRow, SameMoney, Booked, Current, Provider
<1>11. ASSUME InsertStep(u) PROVE Booked(u)'
  <2>1. task[u].status = "absent"
    BY <1>11 DEF InsertStep, InsertedOnce, Running
  <2>2. task'[u].acct = "not_required" /\ task'[u].status \in {"blocked", "queued"}
    BY <1>11, FirstStatusType DEF InsertStep, NewRow
  <2> QED
    BY <1>0, <1>11, <2>1, <2>2 DEF InsertStep, SameMoney, Booked, Current, Provider
<1>12. ASSUME JoinStep(u) PROVE Booked(u)'
  BY <1>0, <1>12 DEF JoinStep, TaskRow, SameMoney, Booked, Current, Provider
<1>13. ASSUME ReopenStep(u) PROVE Booked(u)'
  BY <1>0, <1>13 DEF ReopenStep, NewRow, ReopenableStatus, Charges, SameMoney, Booked, Current, Provider
<1>14. ASSUME AgeStep(u) PROVE Booked(u)'
  BY <1>0, <1>14 DEF AgeStep, TaskRow, SameMoney, Booked, Current, Provider
<1>15. ASSUME ReconcileStep(u) PROVE Booked(u)'
  BY <1>0, <1>15 DEF ReconcileStep, Charges, Booked, Current, Provider
<1> QED
  BY <1>1, <1>2, <1>3, <1>4, <1>5, <1>6, <1>7, <1>8, <1>9, <1>10, <1>11, <1>12, <1>13, <1>14,
     <1>15 DEF LocalStep

LEMMA RowsOnceStep ==
  ASSUME TypeOK, NEW u \in Task, LocalStep(u), RowsOnce(u), InsertedOnce
  PROVE  RowsOnce(u)'
<1>0. task[u] \in TaskRow /\ task[u].epoch \in Nat
  BY RowType
<1>1. ASSUME RestStep(u) \/ ReconcileStep(u) PROVE RowsOnce(u)'
  BY <1>0, <1>1 DEF RestStep, ReconcileStep, SameRows, RowsOnce, Current
<1>2. ASSUME ClaimStep(u) PROVE RowsOnce(u)'
  BY <1>0, <1>2 DEF ClaimStep, Claimed, TaskRow, RowsOnce, Current
<1>3. ASSUME GiveUpStep(u) PROVE RowsOnce(u)'
  BY <1>0, <1>3 DEF GiveUpStep, RowsOnce, Current
<1>4. ASSUME FenceStep(u) \/ ExpireStep(u) PROVE RowsOnce(u)'
  BY <1>0, <1>4 DEF FenceStep, ExpireStep, TaskRow, SameRows, RowsOnce, Current
<1>5. ASSUME SuccessStep(u) PROVE RowsOnce(u)'
  BY <1>0, <1>5 DEF SuccessStep, Finished, TaskRow, SameRows, RowsOnce, Current
<1>6. ASSUME ReplayStep(u) PROVE RowsOnce(u)'
  BY <1>0, <1>6 DEF ReplayStep, Requeued, TaskRow, SendsRow, RowsOnce, Current
<1>7. ASSUME RetryStep(u) PROVE RowsOnce(u)'
  BY <1>0, <1>7 DEF RetryStep, Requeued, TaskRow, SendsRow, RowsOnce, Current
<1>8. ASSUME FailStep(u) PROVE RowsOnce(u)'
  BY <1>0, <1>8 DEF FailStep, Finished, TaskRow, SameRows, RowsOnce, Current
<1>9. ASSUME UnknownStep(u) PROVE RowsOnce(u)'
  BY <1>0, <1>9 DEF UnknownStep, Finished, TaskRow, SameRows, RowsOnce, Current
<1>10. ASSUME CancelStep(u) PROVE RowsOnce(u)'
  BY <1>0, <1>10 DEF CancelStep, TaskRow, SameRows, RowsOnce, Current
<1>11. ASSUME InsertStep(u) PROVE RowsOnce(u)'
  <2>1. task[u].status = "absent"
    BY <1>11 DEF InsertStep, InsertedOnce, Running
  <2>2. /\ task'[u].epoch = 0 /\ task'[u].status = FirstStatus(Kind[u])
        /\ FirstStatus(Kind[u]) \in {"blocked", "queued"}
    BY <1>11, FirstStatusType DEF InsertStep, NewRow
  <2> QED
    BY <1>0, <1>11, <2>1, <2>2 DEF InsertStep, SameRows, SendsRow, RowsOnce, Current
<1>12. ASSUME JoinStep(u) PROVE RowsOnce(u)'
  BY <1>0, <1>12 DEF JoinStep, TaskRow, SendsRow, RowsOnce, Current
<1>13. ASSUME ReopenStep(u) PROVE RowsOnce(u)'
  <2>1. PICK status \in {"queued", "blocked"} :
          /\ task'[u] = [NewRow(status) EXCEPT !.epoch = task[u].epoch + 1, !.gen = task[u].gen + 1]
          /\ IF status = "queued" THEN SendsRow(u, task[u].epoch + 1) ELSE SameRows(u)
    BY <1>13 DEF ReopenStep
  <2>2. task'[u].epoch = task[u].epoch + 1 /\ task'[u].status = status
    BY <2>1 DEF NewRow
  <2> QED
    BY <1>0, <2>1, <2>2 DEF SameRows, SendsRow, RowsOnce, Current
<1>14. ASSUME AgeStep(u) PROVE RowsOnce(u)'
  BY <1>0, <1>14 DEF AgeStep, TaskRow, SameRows, RowsOnce, Current
<1> QED
  BY <1>1, <1>2, <1>3, <1>4, <1>5, <1>6, <1>7, <1>8, <1>9, <1>10, <1>11, <1>12, <1>13, <1>14
     DEF LocalStep

(* No step but a refund, a claim and a reopen moves the counters. *)
LEMMA EpochsLeftStep ==
  ASSUME TypeOK, NEW u \in Task, LocalStep(u), EpochsLeft(u)
  PROVE  EpochsLeft(u)'
<1>0. /\ task[u] \in TaskRow /\ task[u].epoch \in Nat /\ task[u].attempt \in Nat
      /\ MaxAttempts[u] \in Nat \ {0} /\ MaxEpoch \in Nat /\ TransientEpochLimit \in Nat \ {0}
      /\ TransientEpochLimit + MaxAttempts[u] - 1 <= MaxEpoch
  BY RowType, LimitAssumption DEF TaskRow
<1>1. ASSUME task'[u].epoch = task[u].epoch, task'[u].attempt = task[u].attempt
      PROVE  EpochsLeft(u)'
  BY <1>1 DEF EpochsLeft
<1>2. ASSUME RestStep(u) \/ ReconcileStep(u) \/ GiveUpStep(u) PROVE EpochsLeft(u)'
  BY <1>1, <1>2 DEF RestStep, ReconcileStep, GiveUpStep
<1>3. ASSUME FenceStep(u) \/ ExpireStep(u) \/ CancelStep(u) \/ JoinStep(u) \/ AgeStep(u)
      PROVE  EpochsLeft(u)'
  BY <1>0, <1>1, <1>3 DEF FenceStep, ExpireStep, CancelStep, JoinStep, AgeStep, TaskRow
<1>4. ASSUME SuccessStep(u) \/ FailStep(u) \/ UnknownStep(u) PROVE EpochsLeft(u)'
  BY <1>0, <1>1, <1>4 DEF SuccessStep, FailStep, UnknownStep, Finished, TaskRow
<1>5. ASSUME ReplayStep(u) PROVE EpochsLeft(u)'
  BY <1>0, <1>1, <1>5 DEF ReplayStep, Requeued, TaskRow
<1>6. ASSUME ClaimStep(u) PROVE EpochsLeft(u)'
  <2>1. task'[u].epoch = task[u].epoch + 1 /\ task'[u].attempt = task[u].attempt + 1
    BY <1>0, <1>6 DEF ClaimStep, Claimed, TaskRow
  <2> QED
    BY <1>0, <1>6, <2>1 DEF EpochsLeft, ClaimStep
<1>7. ASSUME RetryStep(u) PROVE EpochsLeft(u)'
  <2>1. PICK n \in Nat :
          /\ task'[u] = [Requeued(task[u]) EXCEPT !.attempt = n]
          /\ \/ n = task[u].attempt
             \/ n = task[u].attempt - 1 /\ task[u].epoch < TransientEpochLimit
    BY <1>7 DEF RetryStep
  <2>2. task'[u].epoch = task[u].epoch /\ task'[u].attempt = n
    BY <1>0, <2>1 DEF Requeued, TaskRow
  <2> QED
    BY <1>0, <2>1, <2>2 DEF EpochsLeft
<1>8. ASSUME InsertStep(u) PROVE EpochsLeft(u)'
  <2>1. task'[u].epoch = 0 /\ task'[u].attempt = 0
    BY <1>8 DEF InsertStep, NewRow
  <2> QED
    BY <1>0, <2>1 DEF EpochsLeft
<1>9. ASSUME ReopenStep(u) PROVE EpochsLeft(u)'
  <2>1. task'[u].epoch = task[u].epoch + 1 /\ task'[u].attempt = 0
    BY <1>9 DEF ReopenStep, NewRow
  <2> QED
    BY <1>0, <1>9, <2>1 DEF EpochsLeft, ReopenStep, EpochHeadroom
<1> QED
  BY <1>2, <1>3, <1>4, <1>5, <1>6, <1>7, <1>8, <1>9 DEF LocalStep

(* Where the status of a task may go. *)
LEMMA StatusStep ==
  ASSUME TypeOK, NEW u \in Task, LocalStep(u)
  PROVE  \/ task'[u].status = task[u].status
         \/ /\ task[u].status = "queued" /\ task'[u].status = "running"
            /\ Deps[u] \subseteq Succeeded /\ run \in ActiveRun
         \/ /\ task[u].status = "running"
            /\ task'[u].status \in {"succeeded", "queued", "failed", "outcome_unknown"}
         \/ /\ task[u].status = "outcome_unknown" /\ task'[u].status = "queued"
            /\ run \in ActiveRun
         \/ task[u].status \in {"blocked", "queued"} /\ task'[u].status = "canceled"
         \/ /\ InsertStep(u) /\ task'[u].status \in {"blocked", "queued"}
         \/ task[u].status = "blocked" /\ task'[u].status = "queued"
         \/ /\ task[u].status \in ReopenableStatus /\ task'[u].status \in {"blocked", "queued"}
            /\ RecoveryOpen /\ run' = "executing"
<1>0. task[u] \in TaskRow
  BY RowType
<1>1. ASSUME RestStep(u) \/ ReconcileStep(u) \/ GiveUpStep(u) PROVE task'[u].status = task[u].status
  BY <1>1 DEF RestStep, ReconcileStep, GiveUpStep
<1>2. ASSUME FenceStep(u) \/ ExpireStep(u) \/ AgeStep(u) PROVE task'[u].status = task[u].status
  BY <1>0, <1>2 DEF FenceStep, ExpireStep, AgeStep, TaskRow
<1>3. ASSUME SuccessStep(u) \/ FailStep(u) \/ UnknownStep(u)
      PROVE  /\ task[u].status = "running"
             /\ task'[u].status \in {"succeeded", "failed", "outcome_unknown"}
  BY <1>0, <1>3 DEF SuccessStep, FailStep, UnknownStep, Finished, TaskRow
<1>4. ASSUME ReplayStep(u) \/ RetryStep(u)
      PROVE  /\ \/ task[u].status = "running"
                \/ task[u].status = "outcome_unknown" /\ run \in ActiveRun
             /\ task'[u].status = "queued"
  BY <1>0, <1>4 DEF ReplayStep, RetryStep, Requeued, TaskRow
<1>5. ASSUME ClaimStep(u)
      PROVE  /\ task[u].status = "queued" /\ task'[u].status = "running"
             /\ Deps[u] \subseteq Succeeded /\ run \in ActiveRun
  BY <1>0, <1>5 DEF ClaimStep, Claimed, TaskRow
<1>6. ASSUME CancelStep(u)
      PROVE  task[u].status \in {"blocked", "queued"} /\ task'[u].status = "canceled"
  BY <1>0, <1>6 DEF CancelStep, TaskRow
<1>7. ASSUME JoinStep(u) PROVE task[u].status = "blocked" /\ task'[u].status = "queued"
  BY <1>0, <1>7 DEF JoinStep, TaskRow
<1>8. ASSUME InsertStep(u) PROVE task'[u].status \in {"blocked", "queued"}
  BY <1>8, FirstStatusType DEF InsertStep, NewRow
<1>9. ASSUME ReopenStep(u)
      PROVE  /\ task[u].status \in ReopenableStatus /\ task'[u].status \in {"blocked", "queued"}
             /\ RecoveryOpen /\ run' = "executing"
  BY <1>9 DEF ReopenStep, NewRow
<1> QED
  BY <1>1, <1>2, <1>3, <1>4, <1>5, <1>6, <1>7, <1>8, <1>9 DEF LocalStep

(* No success is taken back. *)
LEMMA SuccessStays ==
  ASSUME TypeOK, InsertedOnce, NEW u \in Task, LocalStep(u), task[u].status = "succeeded"
  PROVE  task'[u].status = "succeeded"
<1>1. ~InsertStep(u)
  BY DEF InsertStep, InsertedOnce, Running
<1> QED
  BY <1>1, StatusStep DEF ReopenableStatus

LEMMA DependenciesStep ==
  ASSUME TypeOK, InsertedOnce, DependenciesDone, \A u \in Task : LocalStep(u)
  PROVE  DependenciesDone'
<1>1. Succeeded \subseteq Succeeded'
  BY SuccessStays DEF Succeeded
<1> SUFFICES ASSUME NEW u \in Task, task'[u].status \in {"running", "succeeded"}
             PROVE  Deps[u] \subseteq Succeeded'
  BY DEF DependenciesDone
<1>2. Deps[u] \subseteq Succeeded
  BY StatusStep DEF DependenciesDone
<1> QED
  BY <1>1, <1>2

(* A stage appears with the success of the task that inserts it, which is  *)
(* the only one of its kind.                                               *)
LEMMA OneInserter ==
  ASSUME NEW t \in Task, NEW w \in Task, Kind[t] = Kind[w], Inserts(Kind[t]) # {}
  PROVE  t = w
<1>1. Kind[t] \in {"source_snapshot", "course_skeleton", "validate_architecture", "publish_inventory"}
  BY DEF Inserts
<1>2. StartRun = "planning"
  BY <1>1, PipelineAssumption, GraphAssumption DEF OfKind
<1>3. PICK v \in Task : OfKind(Kind[t]) = {v}
  BY <1>1, <1>2, PipelineAssumption
<1> QED
  BY <1>3 DEF OfKind

LEMMA InsertedOnceStep ==
  ASSUME TypeOK, InsertedOnce, \A u \in Task : LocalStep(u)
  PROVE  InsertedOnce'
<1> SUFFICES ASSUME NEW t \in Task, NEW u \in Task, Kind[u] \in Inserts(Kind[t]),
                    task'[t].status # "succeeded", task'[u].status # "absent"
             PROVE  FALSE
  BY DEF InsertedOnce
<1>1. task[u].status = "absent"
  BY SuccessStays DEF InsertedOnce
<1>2. InsertStep(u)
  BY <1>1, StatusStep DEF ReopenableStatus
<1>3. PICK w \in Task : Kind[u] \in Inserts(Kind[w]) /\ task'[w].status = "succeeded"
  BY <1>2 DEF InsertStep, Running
<1>4. Kind[w] = Kind[t]
  BY <1>3 DEF Inserts
<1>5. w = t
  BY <1>3, <1>4, OneInserter
<1> QED
  BY <1>3, <1>5

(* Only a recovery makes a run active again. *)
LEMMA Reactivated ==
  ASSUME TypeOK, [Next]_vars, run \notin ActiveRun, run' \in ActiveRun, NEW u \in Task
  PROVE  ReopenStep(u) \/ AgeStep(u)
<1>1. ASSUME NEW rows, StopRun(rows) PROVE FALSE
  BY <1>1 DEF StopRun
<1>2. ASSUME NEW t, NEW rows, StopRunAfterTerminalTask(t, rows) PROVE FALSE
  BY <1>1, <1>2 DEF StopRunAfterTerminalTask
<1>3. ASSUME NEW t, EndDispatched(t) PROVE FALSE
  BY <1>2, <1>3 DEF EndDispatched, Requeue
<1>4. ASSUME NEW t, NEW transient, EndUndispatched(t, transient) PROVE FALSE
  BY <1>2, <1>4 DEF EndUndispatched, Requeue
<1>5. ASSUME NEW k, RunAfterSuccess(k) PROVE FALSE
  BY <1>5 DEF RunAfterSuccess, FinalizerRun, ActiveRun
<1>6. ASSUME NEW x, WorkerStep(x) PROVE FALSE
  <2>1. CASE MarkProviderDispatched(x) \/ CallProvider(x) \/ Abandon(x)
    BY <2>1 DEF MarkProviderDispatched, CallProvider, Abandon
  <2>2. CASE Succeed(x)
    BY <1>5, <2>2 DEF Succeed
  <2>3. CASE FailProviderRejected(x)
    BY <1>2, <2>3 DEF FailProviderRejected
  <2>4. CASE RecoverClaimFailure(x)
    BY <1>3, <1>4, <2>4 DEF RecoverClaimFailure
  <2> QED
    BY <1>6, <2>1, <2>2, <2>3, <2>4 DEF WorkerStep
<1>7. ASSUME RecoverOne PROVE FALSE
  <2>1. ASSUME NEW t, RecoverTerminal(t) PROVE FALSE
    BY <1>2, <2>1 DEF RecoverTerminal, Requeue
  <2>2. ASSUME NEW t, RecoverExpired(t) PROVE FALSE
    BY <1>3, <1>4, <2>2 DEF RecoverExpired
  <2>3. CASE RecoverUndrained \/ \E t \in Task : ReconcileFinishedRunUnknown(t)
    BY <2>3 DEF RecoverUndrained, ReconcileFinishedRunUnknown
  <2>4. CASE StopStalledRecoveredRun
    BY <1>1, <2>4 DEF StopStalledRecoveredRun
  <2> QED
    BY <1>7, <2>1, <2>2, <2>3, <2>4 DEF RecoverOne
<1>8. ASSUME \/ \E t \in Task : ClaimExact(t) \/ GiveUpRow(t) \/ LeaseExpires(t)
             \/ AuthorStop
             \/ UNCHANGED vars
      PROVE  FALSE
  BY <1>8 DEF ClaimExact, GiveUpRow, LeaseExpires, AuthorStop, ActiveRun, vars
<1>9. ASSUME AuthorResume PROVE ReopenStep(u) \/ AgeStep(u)
  BY <1>9, PlanType, PlanReopenable, ApplyRecoveryLocal DEF AuthorResume
<1>10. ASSUME NEW scope \in Scopes, AuthorRegenerate(scope) PROVE ReopenStep(u) \/ AgeStep(u)
  <2> DEFINE missing == scope \ Succeeded
  <2>1. missing \in SUBSET Task
    BY GraphAssumption
  <2>2. /\ RecoveryOpen /\ ApplyRecovery(Plan(missing))
        /\ \A t \in missing : task[t].status \in ReopenableStatus /\ EpochHeadroom(t)
    BY <1>10 DEF AuthorRegenerate, Reopenable
  <2> HIDE DEF missing
  <2> QED
    BY <2>1, <2>2, PlanType, PlanReopenable, ApplyRecoveryLocal
<1> QED
  BY <1>6, <1>7, <1>8, <1>9, <1>10 DEF Next

LEMMA SweptStep ==
  ASSUME TypeOK, [Next]_vars, NEW u \in Task, LocalStep(u), Swept(u), InsertedOnce
  PROVE  Swept(u)'
<1> SUFFICES ASSUME run' \in ActiveRun, task'[u].status = "outcome_unknown", ~task'[u].old
             PROVE  task'[u].attempt >= MaxAttempts[u]
  BY DEF Swept
<1>0. task[u] \in TaskRow /\ task[u].attempt \in Nat /\ MaxAttempts[u] \in Nat
  BY RowType, LimitAssumption DEF TaskRow
<1>1. ~ReopenStep(u)
  BY DEF ReopenStep, NewRow
<1>2. ~AgeStep(u)
  BY <1>0 DEF AgeStep, TaskRow
<1>3. run \in ActiveRun
  BY <1>1, <1>2, Reactivated
<1>4. ASSUME RestStep(u) \/ ReconcileStep(u) \/ GiveUpStep(u)
      PROVE  task'[u].attempt >= MaxAttempts[u]
  BY <1>3, <1>4 DEF RestStep, ReconcileStep, GiveUpStep, Swept
<1>5. ASSUME UnknownStep(u) PROVE task'[u].attempt >= MaxAttempts[u]
  <2>1. task'[u].attempt = task[u].attempt
    BY <1>0, <1>5 DEF UnknownStep, Finished, TaskRow
  <2> QED
    BY <1>0, <1>3, <1>5, <2>1 DEF UnknownStep
<1>6. ASSUME task[u].status = "running", task'[u].status = "outcome_unknown"
      PROVE  UnknownStep(u)
  <2>1. ~(RestStep(u) \/ ReconcileStep(u) \/ GiveUpStep(u))
    BY <1>6 DEF RestStep, ReconcileStep, GiveUpStep
  <2>2. ~(FenceStep(u) \/ ExpireStep(u) \/ CancelStep(u) \/ JoinStep(u))
    BY <1>0, <1>6 DEF FenceStep, ExpireStep, CancelStep, JoinStep, TaskRow
  <2>3. ~(SuccessStep(u) \/ FailStep(u))
    BY <1>0, <1>6 DEF SuccessStep, FailStep, Finished, TaskRow
  <2>4. ~(ReplayStep(u) \/ RetryStep(u) \/ ClaimStep(u))
    BY <1>0, <1>6 DEF ReplayStep, RetryStep, Requeued, ClaimStep, Claimed, TaskRow
  <2>5. ~InsertStep(u)
    BY <1>6, FirstStatusType DEF InsertStep, NewRow
  <2> QED
    BY <1>1, <1>2, <2>1, <2>2, <2>3, <2>4, <2>5 DEF LocalStep
<1>7. ASSUME task[u].status = "outcome_unknown"
      PROVE  RestStep(u) \/ ReconcileStep(u) \/ GiveUpStep(u)
  <2>1. ~(ClaimStep(u) \/ FenceStep(u) \/ ExpireStep(u) \/ SuccessStep(u) \/ RetryStep(u)
           \/ FailStep(u) \/ UnknownStep(u) \/ CancelStep(u) \/ JoinStep(u))
    BY <1>7 DEF ClaimStep, FenceStep, ExpireStep, SuccessStep, RetryStep, FailStep, UnknownStep,
                CancelStep, JoinStep
  <2>2. ~ReplayStep(u)
    BY <1>0 DEF ReplayStep, Requeued, TaskRow
  <2>3. ~InsertStep(u)
    BY FirstStatusType DEF InsertStep, NewRow
  <2> QED
    BY <1>1, <1>2, <2>1, <2>2, <2>3 DEF LocalStep
<1>8. task[u].status \in {"running", "outcome_unknown"}
  BY StatusStep DEF ReopenableStatus
<1> QED
  BY <1>4, <1>5, <1>6, <1>7, <1>8

LEMMA InvInit == Init => Inv
<1> SUFFICES ASSUME Init PROVE Inv
  OBVIOUS
<1>1. TypeOK
  BY InitType
<1>2. ASSUME NEW t \in Task
      PROVE  LET new == task[t] IN
             /\ new.status = IF t \in FirstTasks THEN FirstStatus(Kind[t]) ELSE "absent"
             /\ new.attempt = 0 /\ new.epoch = 0 /\ new.acct = "not_required"
  BY DEF Init, NewRow
<1>3. ASSUME NEW t \in Task PROVE FirstStatus(Kind[t]) \in {"blocked", "queued"}
  BY FirstStatusType
<1>4. InsertedOnce
  <2> SUFFICES ASSUME NEW t \in Task, NEW u \in Task, Kind[u] \in Inserts(Kind[t])
               PROVE  u \notin FirstTasks
    BY <1>2 DEF InsertedOnce
  <2>1. Kind[t] \in {"source_snapshot", "course_skeleton", "validate_architecture", "publish_inventory"}
    BY DEF Inserts
  <2>2. StartRun = "planning"
    BY <2>1, PipelineAssumption, GraphAssumption DEF OfKind
  <2> QED
    BY <2>2 DEF FirstTasks, Inserts
<1>5. DependenciesDone
  BY <1>2, <1>3 DEF DependenciesDone
<1>6. ASSUME NEW t \in Task PROVE EpochsLeft(t)
  BY <1>2, LimitAssumption DEF EpochsLeft
<1>7. ASSUME NEW t \in Task PROVE Booked(t)
  BY <1>2, <1>3 DEF Booked, Init
<1>8. ASSUME NEW t \in Task PROVE Swept(t)
  BY <1>2, <1>3 DEF Swept
<1>9. ASSUME NEW t \in Task PROVE RowsOnce(t)
  <2>1. \A e \in Nat : <<t, e>> \in waiting <=>
          t \in FirstTasks /\ FirstStatus(Kind[t]) = "queued" /\ e = 0
    <3> HIDE DEF FirstTasks
    <3> QED
      BY DEF Init
  <2> QED
    BY <1>2, <1>3, <2>1 DEF RowsOnce, Current, Init
<1> QED
  BY <1>1, <1>4, <1>5, <1>6, <1>7, <1>8, <1>9 DEF Inv

LEMMA InvStep == Inv /\ [Next]_vars => Inv'
<1> SUFFICES ASSUME Inv, [Next]_vars PROVE Inv'
  OBVIOUS
<1>1. TypeOK /\ InsertedOnce /\ DependenciesDone /\ TypeOK'
  BY TypeStep DEF Inv
<1>2. \A u \in Task : LocalStep(u)
  BY <1>1, Locality, InvUnpaid
<1>3. InsertedOnce' /\ DependenciesDone'
  BY <1>1, <1>2, InsertedOnceStep, DependenciesStep
<1>4. ASSUME NEW u \in Task PROVE EpochsLeft(u)' /\ RowsOnce(u)' /\ Booked(u)' /\ Swept(u)'
  <2>1. EpochsLeft(u) /\ RowsOnce(u) /\ Booked(u) /\ Swept(u) /\ LocalStep(u)
    BY <1>2 DEF Inv
  <2> QED
    BY <1>1, <2>1, EpochsLeftStep, RowsOnceStep, BookedStep, SweptStep
<1> QED
  BY <1>1, <1>3, <1>4 DEF Inv

LEMMA Invariance == Spec => []Inv
BY InvInit, InvStep, PTL DEF Spec

-----------------------------------------------------------------------------
(* The outbox *)

(* A queued task can always reach a worker: whatever claims, give-ups,     *)
(* requeues, joins and reopens happened, the row of its current epoch      *)
(* waits, or the dispatcher gave it up.                                    *)
THEOREM QueuedReachesWorker == Spec => []QueuedIsDispatchable
<1>1. Inv => QueuedIsDispatchable
  BY DEF Inv, RowsOnce, QueuedIsDispatchable
<1> QED
  BY <1>1, Invariance, PTL

(* No requeue, join or reopen sends a row under the identity of one that   *)
(* was consumed or given up.                                               *)
THEOREM RowsAreNew == Spec => FreshRowIdentity
<1>1. ASSUME Inv, Inv', [Next]_vars PROVE waiting' \cap (consumed \cup dead) = {}
  <2>1. \A u \in Task : LocalStep(u)
    BY <1>1, Locality, InvUnpaid DEF Inv
  <2>2. TypeOK /\ TypeOK'
    BY <1>1 DEF Inv
  <2> SUFFICES ASSUME NEW u \in Task, NEW e \in Nat, <<u, e>> \in waiting',
                      <<u, e>> \in consumed \/ <<u, e>> \in dead
               PROVE  FALSE
    BY <2>2 DEF TypeOK, Lease
  <2>3. <<u, e>> \notin consumed' /\ <<u, e>> \notin dead'
    BY <1>1 DEF Inv, RowsOnce
  <2> QED
    BY <2>1, <2>3 DEF LocalStep, RestStep, ClaimStep, GiveUpStep, FenceStep, ExpireStep,
       SuccessStep, ReplayStep, RetryStep, FailStep, UnknownStep, CancelStep, InsertStep,
       JoinStep, ReopenStep, AgeStep, ReconcileStep, SameRows, SendsRow
<1>2. Inv /\ Inv' /\ [Next]_vars => [waiting' \cap (consumed \cup dead) = {}]_vars
  BY <1>1
<1> QED
  BY <1>2, Invariance, PTL DEF Spec, FreshRowIdentity

(* dispatch_epoch never leaves its column's range: the headroom that a     *)
(* recovery checks, and the limit on refunds, cover every later claim.     *)
THEOREM EpochsStayInRange == Spec => []EpochWithinRange
<1>1. ASSUME Inv PROVE EpochWithinRange
  <2> SUFFICES ASSUME NEW t \in Task PROVE task[t].epoch <= MaxEpoch
    BY DEF EpochWithinRange
  <2>1. EpochsLeft(t) /\ task[t].epoch \in Nat /\ task[t].attempt \in Nat
    BY <1>1 DEF Inv, TypeOK, TaskRow
  <2> QED
    BY <2>1, LimitAssumption DEF EpochsLeft
<1> QED
  BY <1>1, Invariance, PTL

-----------------------------------------------------------------------------
(* Reservations *)

(* No hold leaks and no provider task runs without one. *)
THEOREM HoldsOwned == Spec => []HoldsAreOwned
<1>1. ASSUME Inv PROVE HoldsAreOwned
  <2>1. ASSUME NEW l \in hold
        PROVE  l = Current(l[1]) /\ task[l[1]].acct \in {"reserved", "pending_reconciliation"}
    <3>1. PICK t \in Task, e \in Nat : l = <<t, e>>
      BY <1>1 DEF Inv, TypeOK, Lease
    <3>2. e = task[t].epoch /\ task[t].acct \in {"reserved", "pending_reconciliation"}
      BY <1>1, <3>1 DEF Inv, Booked
    <3> QED
      BY <3>1, <3>2 DEF Current
  <2>2. ASSUME NEW t \in Running, Provider(t) PROVE Current(t) \in hold
    BY <1>1, <2>2 DEF Inv, Booked, Running
  <2> QED
    BY <2>1, <2>2 DEF HoldsAreOwned
<1> QED
  BY <1>1, Invariance, PTL

(* The recovery sweep never meets a claim it must settle without its hold. *)
THEOREM SweepNeverThrows == Spec => []SweepCanSettle
<1>1. ASSUME Inv PROVE SweepCanSettle
  <2> SUFFICES ASSUME NEW t \in Task,
                      \/ TerminalCandidate(t) /\ Replayable(t)
                      \/ Expired(t) /\ Provider(t)
               PROVE  Current(t) \in hold
    BY DEF SweepCanSettle
  <2>1. ~(TerminalCandidate(t) /\ Replayable(t))
    <3>1. task[t].attempt \in Nat /\ MaxAttempts[t] \in Nat /\ Swept(t)
      BY <1>1, LimitAssumption DEF Inv, TypeOK, TaskRow
    <3> QED
      BY <3>1 DEF TerminalCandidate, NewFailure, Replayable, Swept
  <2> QED
    BY <1>1, <2>1 DEF Inv, Booked, Expired
<1> QED
  BY <1>1, Invariance, PTL

-----------------------------------------------------------------------------
(* Completion *)

(* When the finalizer runs, everything before it has succeeded: its stage  *)
(* was inserted by the inventory, and the planning stages before that.     *)
LEMMA FinalizerIsLast ==
  ASSUME Inv, NEW t \in Task, Kind[t] = "finalize_course", task[t].status = "running",
         NEW u \in Task, u # t
  PROVE  task[u].status = "succeeded"
<1>1. TypeOK /\ InsertedOnce /\ DependenciesDone
  BY DEF Inv
<1>2. ASSUME NEW w \in Task, NEW p \in Task, task[w].status # "absent",
             Kind[w] \in Inserts(Kind[p])
      PROVE  task[p].status = "succeeded"
  BY <1>1, <1>2 DEF InsertedOnce
<1>3. ASSUME NEW v \in Task, Kind[v] = "validate_chapter" PROVE task[v].status = "succeeded"
  <2>1. Deps[t] = OfKind("validate_chapter")
    BY PipelineAssumption DEF OfKind
  <2>2. Deps[t] \subseteq Succeeded
    BY <1>1 DEF DependenciesDone
  <2> QED
    BY <1>3, <2>1, <2>2 DEF OfKind, Succeeded
<1>4. CASE Kind[u] = "generate_unit"
  <2>1. PICK v \in Task : Kind[v] = "validate_chapter" /\ u \in Deps[v]
    BY <1>4, PipelineAssumption DEF OfKind
  <2>2. Deps[v] \subseteq Succeeded
    BY <1>1, <1>3, <2>1 DEF DependenciesDone
  <2> QED
    BY <2>1, <2>2 DEF Succeeded
<1>5. Kind[u] # "finalize_course"
  BY PipelineAssumption DEF OfKind
<1>6. ASSUME NEW p \in Task, Kind[p] = "publish_inventory" PROVE task[p].status = "succeeded"
  BY <1>2, <1>6 DEF Inserts
<1>7. ASSUME Kind[u] \in {"source_snapshot", "course_skeleton", "chapter_blueprint", "validate_architecture"}
      PROVE  \E p \in Task : Kind[p] = "publish_inventory"
  <2>1. StartRun = "planning"
    BY <1>7, PipelineAssumption, GraphAssumption DEF OfKind
  <2> QED
    BY <2>1, PipelineAssumption DEF OfKind
<1>8. ASSUME Kind[u] \in {"source_snapshot", "course_skeleton", "chapter_blueprint"}
      PROVE  \E a \in Task : Kind[a] = "validate_architecture" /\ task[a].status = "succeeded"
  <2>1. StartRun = "planning"
    BY <1>8, PipelineAssumption, GraphAssumption DEF OfKind
  <2>2. PICK a \in Task : Kind[a] = "validate_architecture"
    BY <2>1, PipelineAssumption DEF OfKind
  <2>3. PICK p \in Task : Kind[p] = "publish_inventory"
    BY <1>7, <1>8
  <2> QED
    BY <1>2, <1>6, <2>2, <2>3 DEF Inserts
<1>9. CASE Kind[u] = "validate_architecture"
  BY <1>2, <1>6, <1>7, <1>9 DEF Inserts
<1>10. CASE Kind[u] = "course_skeleton"
  BY <1>2, <1>8, <1>10 DEF Inserts
<1>11. CASE Kind[u] = "chapter_blueprint"
  <2>1. PICK a \in Task : Kind[a] = "validate_architecture" /\ task[a].status = "succeeded"
    BY <1>8, <1>11
  <2>2. Deps[a] = OfKind("chapter_blueprint") /\ Deps[a] \subseteq Succeeded
    BY <1>1, <2>1, PipelineAssumption DEF OfKind, DependenciesDone
  <2> QED
    BY <1>11, <2>2 DEF OfKind, Succeeded
<1>12. CASE Kind[u] = "source_snapshot"
  <2>1. PICK a \in Task : Kind[a] = "validate_architecture" /\ task[a].status = "succeeded"
    BY <1>8, <1>12
  <2>2. PICK k \in Task : Kind[k] = "course_skeleton"
    <3>1. StartRun = "planning"
      BY <1>12, PipelineAssumption, GraphAssumption DEF OfKind
    <3> QED
      BY <3>1, PipelineAssumption DEF OfKind
  <2>3. task[k].status = "succeeded"
    BY <1>2, <2>1, <2>2 DEF Inserts
  <2> QED
    BY <1>2, <1>12, <2>2, <2>3 DEF Inserts
<1>13. Kind[u] \in TaskKind
  BY GraphAssumption
<1> QED
  BY <1>3, <1>4, <1>5, <1>6, <1>9, <1>10, <1>11, <1>12, <1>13 DEF TaskKind

(* The run and its workspace *)
Settled ==
  /\ run = "ready" => ws = "ready" /\ \A t \in Task : task[t].status = "succeeded"
  /\ ws = "needs_action" =>
       run \in {"needs_action", "review"} /\ \A t \in Task : task[t].status \notin LiveStatus

StopsStep ==
  /\ run' \in {"needs_action", "review"}
  /\ \/ ws' = ws
     \/ ws' = "needs_action" /\ \A t \in Task : task'[t].status \notin LiveStatus

LEMMA CancelDrains ==
  ASSUME NEW rows \in Table, SyncNeedsAction(rows)
  PROVE  ws' = ws \/ (ws' = "needs_action" /\ \A t \in Task : task'[t].status \notin LiveStatus)
<1> SUFFICES ASSUME Drained(rows), NEW t \in Task PROVE task'[t].status \notin LiveStatus
  BY DEF SyncNeedsAction
<1>1. rows[t] \in TaskRow /\ rows[t].status # "running"
  BY DEF Table, Drained
<1>2. task'[t] = IF rows[t].status \in {"blocked", "queued"}
                 THEN [rows[t] EXCEPT !.status = "canceled", !.code = "other"] ELSE rows[t]
  BY DEF SyncNeedsAction, Cancel
<1> QED
  BY <1>1, <1>2 DEF TaskRow, LiveStatus

LEMMA StopRunStops ==
  ASSUME TypeOK, NEW t \in Task, NEW rows \in Table,
         StopRun(rows) \/ StopRunAfterTerminalTask(t, rows)
  PROVE  UNCHANGED <<run, ws>> \/ StopsStep
<1>1. ASSUME StopRun(rows) PROVE StopsStep
  <2>1. run' \in {"needs_action", "review"}
    BY <1>1 DEF StopRun, TypeOK, RunStatus
  <2> QED
    BY <1>1, <2>1, CancelDrains DEF StopRun, StopsStep
<1> QED
  BY <1>1 DEF StopRunAfterTerminalTask

(* The finalizer completes the run or sends it to review. *)
FinalStep ==
  /\ \/ run' = "ready" /\ ws' = "ready"
     \/ run' = "review" /\ ws' = "needs_action"
  /\ \A t \in Task : task'[t].status = "succeeded"

LEMMA RunAndWorkspaceStep ==
  ASSUME Inv, [Next]_vars
  PROVE  \/ UNCHANGED <<run, ws>>
         \/ StopsStep
         \/ run' = "executing" /\ ws' = "drafting"
         \/ FinalStep
<1> DEFINE Goal == \/ UNCHANGED <<run, ws>>
                   \/ StopsStep
                   \/ run' = "executing" /\ ws' = "drafting"
                   \/ FinalStep
<1>0. TypeOK /\ task \in Table
  BY DEF Inv, TypeOK, Table
<1>1. ASSUME NEW t \in Task, EndDispatched(t) PROVE Goal
  <2>1. task[t] \in TaskRow
    BY <1>0 DEF Table
  <2>2. [Finished(task[t], "outcome_unknown", "other") EXCEPT
           !.acct = "pending_reconciliation"] \in TaskRow
    BY <2>1, FinishedType DEF TaskStatus, ReopenableStatus
  <2>3. [task EXCEPT ![t] = [Finished(@, "outcome_unknown", "other") EXCEPT
                               !.acct = "pending_reconciliation"]] \in Table
    BY <1>0, <2>2 DEF Table
  <2> QED
    BY <1>0, <1>1, <2>3, StopRunStops DEF EndDispatched, Requeue
<1>2. ASSUME NEW t \in Task, NEW transient, EndUndispatched(t, transient) PROVE Goal
  <2>1. task[t] \in TaskRow
    BY <1>0 DEF Table
  <2>2. [Finished(task[t], "failed", "other") EXCEPT !.acct = "not_required"] \in TaskRow
    BY <2>1, FinishedType DEF TaskStatus, ReopenableStatus
  <2>3. [task EXCEPT ![t] = [Finished(@, "failed", "other") EXCEPT
                               !.acct = "not_required"]] \in Table
    BY <1>0, <2>2 DEF Table
  <2> QED
    BY <1>0, <1>2, <2>3, StopRunStops DEF EndUndispatched, Requeue
<1>3. ASSUME NEW x \in exec, FailProviderRejected(x) PROVE Goal
  <2> DEFINE t == x.task
             rows(code) == [task EXCEPT ![t] =
                              [Finished(@, "failed", code) EXCEPT !.acct = "not_required"]]
  <2>1. t \in Task /\ task[t] \in TaskRow
    BY <1>0 DEF TypeOK, Execution
  <2>2. PICK code \in {"stopping", "other"} : StopRunAfterTerminalTask(t, rows(code))
    BY <1>3 DEF FailProviderRejected
  <2>3. rows(code) \in Table
    <3> HIDE DEF t
    <3>1. [Finished(task[t], "failed", code) EXCEPT !.acct = "not_required"] \in TaskRow
      BY <2>1, FinishedType DEF TaskStatus, ReopenableStatus
    <3> QED
      BY <1>0, <2>1, <3>1 DEF Table
  <2> HIDE DEF t, rows
  <2> QED
    BY <1>0, <2>1, <2>2, <2>3, StopRunStops
<1>4. ASSUME NEW x \in exec, Succeed(x) PROVE Goal
  <2> DEFINE t == x.task
  <2>1. t \in Task /\ task[t].status = "running" /\ RunAfterSuccess(Kind[t])
    BY <1>0, <1>4 DEF TypeOK, Execution, Succeed, HoldsLease
  <2>2. CASE Kind[t] # "finalize_course"
    BY <2>1, <2>2 DEF RunAfterSuccess
  <2>3. CASE Kind[t] = "finalize_course"
    <3>1. \/ run' = "ready" /\ ws' = "ready"
          \/ run' = "review" /\ ws' = "needs_action"
      <4>1. RunAfterSuccess("finalize_course")
        BY <2>1, <2>3
      <4> QED
        BY <4>1 DEF RunAfterSuccess
    <3>2. ASSUME NEW u \in Task, u # t PROVE task'[u].status = "succeeded"
      <4>1. task[u].status = "succeeded"
        BY <2>1, <2>3, <3>2, FinalizerIsLast
      <4> QED
        BY <1>0, <4>1, SuccessStays, Locality, InvUnpaid DEF Inv
    <3>3. task'[t].status = "succeeded"
      <4> DEFINE settled == Provider(t) /\ ~(Provider(t) /\ FallbackOnly(t))
                 acct == IF settled THEN "settled" ELSE "not_required"
                 row == [Finished(task[t], "succeeded", "none") EXCEPT !.acct = acct]
      <4>1. AfterSuccess(t, [task EXCEPT ![t] = row])
        BY <1>4 DEF Succeed
      <4>2. row.status = "succeeded"
        BY <1>0, <2>1, RowType DEF Finished, TaskRow
      <4> HIDE DEF row, t
      <4>3. task'[t] = row
        BY <1>0, <2>1, <4>1, <4>2, AfterSuccessLocal
      <4> QED
        BY <4>2, <4>3
    <3> QED
      BY <3>1, <3>2, <3>3 DEF FinalStep
  <2> QED
    BY <2>2, <2>3
<1>5. ASSUME NEW x \in exec, WorkerStep(x) PROVE Goal
  <2>1. x.task \in Task
    BY <1>0 DEF TypeOK, Execution
  <2> QED
    BY <1>1, <1>2, <1>3, <1>4, <1>5, <2>1
       DEF WorkerStep, MarkProviderDispatched, CallProvider, RecoverClaimFailure, Abandon
<1>6. ASSUME RecoverOne PROVE Goal
  <2>1. ASSUME NEW t \in Task, RecoverTerminal(t) PROVE Goal
    BY <1>0, <2>1, StopRunStops DEF RecoverTerminal, Requeue
  <2>2. ASSUME NEW t \in Task, RecoverExpired(t) PROVE Goal
    BY <1>1, <1>2, <2>2 DEF RecoverExpired
  <2>3. ASSUME RecoverUndrained PROVE Goal
    BY <1>0, <2>3, CancelDrains DEF RecoverUndrained, Undrained, StopsStep
  <2>4. ASSUME NEW t \in Task, ReconcileFinishedRunUnknown(t) PROVE Goal
    BY <2>4 DEF ReconcileFinishedRunUnknown
  <2>5. ASSUME StopStalledRecoveredRun PROVE Goal
    BY <1>0, <2>5, StopRunStops DEF StopStalledRecoveredRun
  <2> QED
    BY <1>6, <2>1, <2>2, <2>3, <2>4, <2>5 DEF RecoverOne
<1>7. ASSUME AuthorStop PROVE Goal
  BY <1>0, <1>7, CancelDrains DEF AuthorStop, StopsStep
<1>8. ASSUME AuthorResume \/ \E scope \in Scopes : AuthorRegenerate(scope) PROVE Goal
  BY <1>8 DEF AuthorResume, AuthorRegenerate, ApplyRecovery
<1>9. ASSUME \/ \E t \in Task : ClaimExact(t) \/ GiveUpRow(t) \/ LeaseExpires(t)
             \/ UNCHANGED vars
      PROVE  Goal
  BY <1>9 DEF ClaimExact, GiveUpRow, LeaseExpires, vars
<1> HIDE DEF Goal
<1>10. Goal
  BY <1>5, <1>6, <1>7, <1>8, <1>9 DEF Next
<1> QED
  BY <1>10 DEF Goal

LEMMA SettledStep == Inv /\ Settled /\ [Next]_vars => Settled'
<1> SUFFICES ASSUME Inv, Settled, [Next]_vars PROVE Settled'
  OBVIOUS
<1>0. TypeOK /\ InsertedOnce /\ \A u \in Task : LocalStep(u)
  BY Locality, InvUnpaid DEF Inv
(* In a drained run nothing becomes live but by a recovery. *)
<1>1. ASSUME ws = "needs_action", run' # "executing", NEW u \in Task
      PROVE  task'[u].status \notin LiveStatus
  <2>1. run \notin ActiveRun /\ \A t \in Task : task[t].status \notin LiveStatus
    BY <1>1 DEF Settled, ActiveRun
  <2>2. ~InsertStep(u)
    BY <2>1 DEF InsertStep, Running, LiveStatus
  <2> QED
    BY <1>0, <1>1, <2>1, <2>2, StatusStep DEF LiveStatus
<1>2. CASE UNCHANGED <<run, ws>>
  <2>1. ASSUME run = "ready" PROVE \A u \in Task : task'[u].status = "succeeded"
    BY <1>0, <2>1, SuccessStays DEF Settled
  <2> QED
    BY <1>1, <1>2, <2>1 DEF Settled
<1>3. CASE StopsStep
  BY <1>1, <1>3 DEF StopsStep, Settled
<1>4. CASE run' = "executing" /\ ws' = "drafting"
  BY <1>4 DEF Settled
<1>5. CASE FinalStep
  BY <1>5 DEF FinalStep, Settled, LiveStatus
<1> QED
  BY <1>2, <1>3, <1>4, <1>5, RunAndWorkspaceStep

LEMMA SettledInvariance == Spec => [](Inv /\ Settled)
<1>1. Init => Settled
  BY GraphAssumption DEF Init, Settled
<1>2. Inv /\ Settled /\ [Next]_vars => (Inv /\ Settled)'
  BY InvStep, SettledStep
<1> QED
  BY <1>1, <1>2, InvInit, PTL DEF Spec

(* A ready run is complete: every task succeeded, no money is held and the *)
(* workspace is ready.                                                     *)
THEOREM ReadyIsComplete == Spec => []ReadyMeansComplete
<1>1. ASSUME Inv, Settled, run = "ready"
      PROVE  Succeeded = Task /\ hold = {} /\ ws = "ready"
  <2>1. Succeeded = Task /\ ws = "ready"
    BY <1>1 DEF Settled, Succeeded
  <2>2. ASSUME NEW t \in Task, NEW e \in Nat PROVE <<t, e>> \notin hold
    <3>1. task[t].status = "succeeded" /\ Booked(t)
      BY <1>1, <2>1 DEF Succeeded, Inv
    <3> QED
      BY <3>1 DEF Booked
  <2> QED
    BY <1>1, <2>1, <2>2 DEF Inv, TypeOK, Lease
<1>2. Inv /\ Settled => ReadyMeansComplete
  BY <1>1 DEF ReadyMeansComplete
<1> QED
  BY <1>2, SettledInvariance, PTL

(* The workspace asks the author to act only when the run is stopped and   *)
(* nothing of it is live.                                                  *)
THEOREM NeedsActionIsDrained == Spec => []DrainedBeforeNeedsAction
<1>1. Settled => DrainedBeforeNeedsAction
  BY DEF Settled, DrainedBeforeNeedsAction, LiveWork
<1> QED
  BY <1>1, SettledInvariance, PTL

-----------------------------------------------------------------------------
(* Provider calls *)

LeaseOf(x) == <<x.task, x.token>>

(* A call is fenced by one execution per lease, under a dispatched claim,  *)
(* and its reservation is held or charged from the fence on.               *)
CallOf(x) ==
  /\ x.phase \in {"fenced", "answered"} => LeaseOf(x) \in hold \cup ledger
  /\ x.phase # "claimed" /\ HoldsLease(x) => task[x.task].dispatched
  /\ x.phase # "answered" => LeaseOf(x) \notin paid
  /\ x.token <= task[x.task].epoch
  /\ task[x.task].status # "absent"

PaidLease(t, e) ==
  /\ <<t, e>> \in hold \cup ledger
  /\ e <= task[t].epoch
  /\ task[t].status # "absent"
  /\ task[t].status = "running" /\ e = task[t].epoch => task[t].dispatched

Called ==
  /\ \A x \in exec : CallOf(x)
  /\ \A x, y \in exec : LeaseOf(x) = LeaseOf(y) => x = y
  /\ \A t \in Task, e \in Nat : <<t, e>> \in paid => PaidLease(t, e)

LEMMA ExecutionStep ==
  ASSUME [Next]_vars
  PROVE  \/ \E t \in Task : ClaimExact(t)
         \/ \E y \in exec : MarkProviderDispatched(y) \/ CallProvider(y)
         \/ exec' \subseteq exec /\ paid' = paid
<1>1. ASSUME \E t \in Task : GiveUpRow(t) \/ LeaseExpires(t)
      PROVE  exec' \subseteq exec /\ paid' = paid
  BY <1>1 DEF GiveUpRow, LeaseExpires
<1>2. ASSUME NEW x \in exec,
             Succeed(x) \/ FailProviderRejected(x) \/ RecoverClaimFailure(x) \/ Abandon(x)
      PROVE  exec' \subseteq exec /\ paid' = paid
  BY <1>2 DEF Succeed, FailProviderRejected, RecoverClaimFailure, Abandon
<1>3. ASSUME RecoverOne PROVE exec' \subseteq exec /\ paid' = paid
  BY <1>3 DEF RecoverOne, RecoverTerminal, RecoverUndrained, RecoverExpired,
     ReconcileFinishedRunUnknown, StopStalledRecoveredRun
<1>4. ASSUME \/ AuthorStop \/ AuthorResume \/ \E scope \in Scopes : AuthorRegenerate(scope)
             \/ UNCHANGED vars
      PROVE  exec' \subseteq exec /\ paid' = paid
  BY <1>4 DEF AuthorStop, AuthorResume, AuthorRegenerate, ApplyRecovery, vars
<1> QED
  BY <1>1, <1>2, <1>3, <1>4 DEF Next, WorkerStep

(* A charge is never undone, and a hold is let go only for a claim that was*)
(* never dispatched or that the provider rejected.                         *)
LEMMA ChargeStays ==
  ASSUME TypeOK, NEW u \in Task, LocalStep(u), NEW e \in Nat, <<u, e>> \in hold \cup ledger
  PROVE  \/ <<u, e>> \in hold' \cup ledger'
         \/ /\ e = task[u].epoch /\ task[u].status = "running"
            /\ ~task[u].dispatched \/ \E x \in exec : x.task = u /\ FailProviderRejected(x)
<1>1. ASSUME RestStep(u) \/ GiveUpStep(u) \/ FenceStep(u) \/ ExpireStep(u) \/ UnknownStep(u)
             \/ CancelStep(u) \/ InsertStep(u) \/ JoinStep(u) \/ AgeStep(u)
      PROVE  <<u, e>> \in hold' \cup ledger'
  <2>1. SameMoney(u)
    BY <1>1 DEF RestStep, GiveUpStep, FenceStep, ExpireStep, UnknownStep, CancelStep, InsertStep,
                JoinStep, AgeStep
  <2> QED
    BY <2>1 DEF SameMoney
<1>2. ASSUME Charges(u) \/ SameMoney(u) PROVE <<u, e>> \in hold' \cup ledger'
  BY <1>2 DEF Charges, SameMoney
<1>3. ASSUME ReplayStep(u) \/ ReopenStep(u) \/ ReconcileStep(u) \/ ClaimStep(u)
      PROVE  <<u, e>> \in hold' \cup ledger'
  BY <1>2, <1>3 DEF ReplayStep, ReopenStep, ReconcileStep, ClaimStep
<1>4. ASSUME Frees(u) PROVE <<u, e>> \in hold' \cup ledger' \/ e = task[u].epoch
  BY <1>4 DEF Frees, SameMoney
<1>5. ASSUME SuccessStep(u) \/ RetryStep(u) \/ FailStep(u)
      PROVE  \/ <<u, e>> \in hold' \cup ledger'
             \/ /\ e = task[u].epoch /\ task[u].status = "running"
                /\ ~task[u].dispatched \/ \E x \in exec : x.task = u /\ FailProviderRejected(x)
  BY <1>2, <1>4, <1>5 DEF SuccessStep, RetryStep, FailStep
<1> QED
  BY <1>1, <1>3, <1>5 DEF LocalStep

(* A claim that runs was taken now or ran before, and stays dispatched. *)
LEMMA RunningStep ==
  ASSUME TypeOK, NEW u \in Task, LocalStep(u), task'[u].status = "running"
  PROVE  \/ task'[u].epoch = task[u].epoch + 1
         \/ /\ task[u].status = "running" /\ task'[u].epoch = task[u].epoch
            /\ task[u].dispatched => task'[u].dispatched
<1>0. task[u] \in TaskRow
  BY RowType
<1>1. ASSUME RestStep(u) \/ ReconcileStep(u) \/ GiveUpStep(u) PROVE task'[u] = task[u]
  BY <1>1 DEF RestStep, ReconcileStep, GiveUpStep
<1>2. ASSUME FenceStep(u) \/ ExpireStep(u) \/ AgeStep(u)
      PROVE  /\ task'[u].status = task[u].status /\ task'[u].epoch = task[u].epoch
             /\ task[u].dispatched => task'[u].dispatched
  BY <1>0, <1>2 DEF FenceStep, ExpireStep, AgeStep, TaskRow
<1>3. ASSUME ClaimStep(u) PROVE task'[u].epoch = task[u].epoch + 1
  BY <1>0, <1>3 DEF ClaimStep, Claimed, TaskRow
<1>4. ~(SuccessStep(u) \/ FailStep(u) \/ UnknownStep(u))
  BY <1>0 DEF SuccessStep, FailStep, UnknownStep, Finished, TaskRow
<1>5. ~(ReplayStep(u) \/ RetryStep(u))
  BY <1>0 DEF ReplayStep, RetryStep, Requeued, TaskRow
<1>6. ~(CancelStep(u) \/ JoinStep(u))
  BY <1>0 DEF CancelStep, JoinStep, TaskRow
<1>7. ~InsertStep(u)
  BY FirstStatusType DEF InsertStep, NewRow
<1>8. ~ReopenStep(u)
  BY DEF ReopenStep, NewRow
<1> QED
  BY <1>1, <1>2, <1>3, <1>4, <1>5, <1>6, <1>7, <1>8 DEF LocalStep

LEMMA EpochGrows ==
  ASSUME TypeOK, InsertedOnce, NEW u \in Task, LocalStep(u), task[u].status # "absent"
  PROVE  task'[u].status # "absent" /\ task'[u].epoch \in {task[u].epoch, task[u].epoch + 1}
<1>0. task[u] \in TaskRow /\ task[u].epoch \in Nat
  BY RowType
<1>1. ~InsertStep(u)
  BY DEF InsertStep, InsertedOnce, Running
<1>2. task'[u].status # "absent"
  BY <1>1, StatusStep
<1>3. ASSUME RestStep(u) \/ ReconcileStep(u) \/ GiveUpStep(u) PROVE task'[u].epoch = task[u].epoch
  BY <1>3 DEF RestStep, ReconcileStep, GiveUpStep
<1>4. ASSUME FenceStep(u) \/ ExpireStep(u) \/ AgeStep(u) \/ CancelStep(u) \/ JoinStep(u)
      PROVE  task'[u].epoch = task[u].epoch
  BY <1>0, <1>4 DEF FenceStep, ExpireStep, AgeStep, CancelStep, JoinStep, TaskRow
<1>5. ASSUME ClaimStep(u) \/ ReopenStep(u) PROVE task'[u].epoch = task[u].epoch + 1
  BY <1>0, <1>5 DEF ClaimStep, Claimed, ReopenStep, NewRow, TaskRow
<1>6. ASSUME SuccessStep(u) \/ FailStep(u) \/ UnknownStep(u) PROVE task'[u].epoch = task[u].epoch
  BY <1>0, <1>6 DEF SuccessStep, FailStep, UnknownStep, Finished, TaskRow
<1>7. ASSUME ReplayStep(u) \/ RetryStep(u) PROVE task'[u].epoch = task[u].epoch
  BY <1>0, <1>7 DEF ReplayStep, RetryStep, Requeued, TaskRow
<1> QED
  BY <1>0, <1>1, <1>2, <1>3, <1>4, <1>5, <1>6, <1>7 DEF LocalStep

(* What a step leaves of an execution that goes on, as long as its lease   *)
(* was not billed by the step.                                             *)
LEMMA CallGoesOn ==
  ASSUME Inv, Called, NEW x \in exec, LocalStep(x.task), LeaseOf(x) \in paid' => LeaseOf(x) \in paid
  PROVE  CallOf(x)'
<1> DEFINE u == x.task
           e == x.token
<1>0. TypeOK /\ InsertedOnce /\ x \in Execution /\ u \in Task /\ e \in Nat /\ CallOf(x)
  BY DEF Inv, TypeOK, Execution, Called
<1>1. task[u].epoch \in Nat /\ e <= task[u].epoch /\ task[u].status # "absent"
  BY <1>0, RowType DEF CallOf
<1>2. task'[u].status # "absent" /\ task'[u].epoch \in {task[u].epoch, task[u].epoch + 1}
  BY <1>0, <1>1, EpochGrows
<1>3. ASSUME x.phase \in {"fenced", "answered"} PROVE LeaseOf(x) \in hold' \cup ledger'
  <2>1. <<u, e>> \in hold \cup ledger
    BY <1>0, <1>3 DEF CallOf, LeaseOf
  <2>2. ASSUME e = task[u].epoch, task[u].status = "running" PROVE task[u].dispatched
    BY <1>0, <1>3, <2>2 DEF CallOf, HoldsLease
  <2>3. ASSUME e = task[u].epoch, NEW z \in exec, z.task = u, FailProviderRejected(z) PROVE FALSE
    <3>1. z.phase = "rejected" /\ z.token = task[u].epoch
      BY <2>3 DEF FailProviderRejected, HoldsLease
    <3>2. LeaseOf(z) = LeaseOf(x)
      BY <2>3, <3>1 DEF LeaseOf
    <3>3. z = x
      BY <3>2 DEF Called
    <3> QED
      BY <1>3, <3>1, <3>3
  <2>4. <<u, e>> \in hold' \cup ledger'
    BY <1>0, <2>1, <2>2, <2>3, ChargeStays
  <2> QED
    BY <2>4 DEF LeaseOf
<1>4. ASSUME x.phase # "claimed", HoldsLease(x)' PROVE task'[u].dispatched
  <2>1. task'[u].status = "running" /\ task'[u].epoch = e
    BY <1>4 DEF HoldsLease
  <2>2. /\ task[u].status = "running" /\ task'[u].epoch = task[u].epoch
        /\ task[u].dispatched => task'[u].dispatched
    BY <1>0, <1>1, <2>1, RunningStep
  <2> QED
    BY <1>0, <1>4, <2>1, <2>2 DEF CallOf, HoldsLease
<1>5. ASSUME x.phase # "answered" PROVE LeaseOf(x) \notin paid'
  BY <1>0, <1>5 DEF CallOf
<1>6. e <= task'[u].epoch
  BY <1>0, <1>1, <1>2
<1> QED
  BY <1>2, <1>3, <1>4, <1>5, <1>6 DEF CallOf, LeaseOf

LEMMA BillStays ==
  ASSUME Inv, Inv', Called, NEW u \in Task, NEW e \in Nat, LocalStep(u), <<u, e>> \in paid
  PROVE  PaidLease(u, e)'
<1>0. TypeOK /\ InsertedOnce /\ PaidLease(u, e) /\ task[u].epoch \in Nat /\ task'[u].epoch \in Nat
  BY RowType DEF Inv, Called, TypeOK, TaskRow
<1>1. task'[u].status # "absent" /\ task'[u].epoch \in {task[u].epoch, task[u].epoch + 1}
  BY <1>0, EpochGrows DEF PaidLease
<1>2. ASSUME e = task[u].epoch, NEW z \in exec, z.task = u, FailProviderRejected(z) PROVE FALSE
  <2>1. z.phase = "rejected" /\ z.token = task[u].epoch
    BY <1>2 DEF FailProviderRejected, HoldsLease
  <2>2. LeaseOf(z) = <<u, e>> /\ CallOf(z)
    BY <1>2, <2>1 DEF LeaseOf, Called
  <2> QED
    BY <2>1, <2>2 DEF CallOf
<1>3. <<u, e>> \in hold' \cup ledger'
  BY <1>0, <1>2, ChargeStays DEF PaidLease
<1>4. ASSUME task'[u].status = "running", e = task'[u].epoch PROVE task'[u].dispatched
  BY <1>0, <1>4, RunningStep DEF PaidLease
<1> QED
  BY <1>0, <1>1, <1>3, <1>4 DEF PaidLease

LEMMA CalledStep == Inv /\ Inv' /\ Called /\ [Next]_vars => Called'
<1> SUFFICES ASSUME Inv, Inv', Called, [Next]_vars PROVE Called'
  OBVIOUS
<1>0. TypeOK /\ TypeOK' /\ InsertedOnce /\ \A u \in Task : LocalStep(u)
  BY Locality, InvUnpaid DEF Inv
<1>1. ASSUME NEW x \in exec PROVE x \in Execution /\ x.task \in Task /\ x.token \in Nat /\ CallOf(x)
  BY <1>0 DEF TypeOK, Execution, Called
<1>2. ASSUME NEW x \in exec, LeaseOf(x) \in paid' => LeaseOf(x) \in paid PROVE CallOf(x)'
  BY <1>0, <1>1, <1>2, CallGoesOn
<1>3. ASSUME paid' = paid, NEW t \in Task, NEW e \in Nat, <<t, e>> \in paid' PROVE PaidLease(t, e)'
  BY <1>0, <1>3, BillStays
<1>4. CASE exec' \subseteq exec /\ paid' = paid
  BY <1>2, <1>3, <1>4 DEF Called, LeaseOf
<1>5. ASSUME NEW t \in Task, ClaimExact(t) PROVE Called'
  <2> PICK new : new = [task |-> t, token |-> task[t].epoch + 1, phase |-> "claimed"]
    OBVIOUS
  <2>1. exec' = exec \cup {new} /\ paid' = paid
    BY <1>5 DEF ClaimExact
  <2>2. task[t].epoch \in Nat /\ task'[t].epoch = task[t].epoch + 1 /\ task'[t].status = "running"
    <3>1. task[t] \in TaskRow /\ task'[t] = Claimed(task[t], Provider(t))
      BY <1>0, <1>5 DEF TypeOK, ClaimExact
    <3> QED
      BY <3>1 DEF Claimed, TaskRow
  <2>0. new.task = t /\ new.token = task[t].epoch + 1 /\ new.phase = "claimed"
    OBVIOUS
  <2>3. CallOf(new)'
    <3>1. <<t, task[t].epoch + 1>> \notin paid
      BY <2>2 DEF Called, PaidLease
    <3>2. LeaseOf(new) \notin paid'
      BY <2>0, <2>1, <3>1 DEF LeaseOf
    <3>3. new.token <= task'[t].epoch
      BY <2>0, <2>2
    <3> QED
      BY <2>0, <2>2, <3>2, <3>3 DEF CallOf, LeaseOf
  <2>4. ASSUME NEW y \in exec PROVE LeaseOf(y) # LeaseOf(new)
    <3>1. y.task = t => y.token <= task[t].epoch /\ y.token \in Nat
      BY <1>1 DEF CallOf
    <3>2. ~(y.task = t /\ y.token = task[t].epoch + 1)
      BY <2>2, <3>1
    <3> QED
      BY <2>0, <3>2 DEF LeaseOf
  <2>5. \A x \in exec' : CallOf(x)'
    BY <1>2, <2>1, <2>3
  <2>6. \A x, y \in exec' : LeaseOf(x) = LeaseOf(y) => x = y
    BY <2>1, <2>4 DEF Called
  <2> QED
    BY <1>3, <2>1, <2>5, <2>6 DEF Called, LeaseOf
(* The phase of y moves on; LeaseOf keeps its execution unique. *)
<1>6. ASSUME NEW y \in exec, NEW phase, Advance(y, phase), NEW new, new = [y EXCEPT !.phase = phase]
      PROVE  /\ exec' = (exec \ {y}) \cup {new}
             /\ LeaseOf(new) = LeaseOf(y) /\ new.phase = phase
             /\ new.task = y.task /\ new.token = y.token
             /\ \A x, z \in exec' : LeaseOf(x) = LeaseOf(z) => x = z
  <2>1. /\ LeaseOf(new) = LeaseOf(y) /\ new.phase = phase
        /\ new.task = y.task /\ new.token = y.token
    BY <1>1, <1>6 DEF LeaseOf, Execution
  <2>2. exec' = (exec \ {y}) \cup {new}
    BY <1>6 DEF Advance
  <2> QED
    BY <2>1, <2>2 DEF Called
<1>7. ASSUME NEW y \in exec, MarkProviderDispatched(y) PROVE Called'
  <2> DEFINE new == [y EXCEPT !.phase = "fenced"]
  <2>1. Advance(y, "fenced") /\ paid' = paid /\ hold' = hold
    BY <1>7 DEF MarkProviderDispatched, accounting
  <2>2. /\ exec' = (exec \ {y}) \cup {new}
        /\ LeaseOf(new) = LeaseOf(y) /\ new.phase = "fenced"
        /\ new.task = y.task /\ new.token = y.token
        /\ \A x, z \in exec' : LeaseOf(x) = LeaseOf(z) => x = z
    BY <1>6, <2>1
  <2>3. LeaseOf(y) \in hold
    <3>1. Booked(y.task) /\ task[y.task].status = "running" /\ task[y.task].epoch = y.token
      BY <1>1, <1>7 DEF Inv, MarkProviderDispatched, HoldsLease
    <3>2. Provider(y.task)
      BY <1>7 DEF MarkProviderDispatched
    <3> QED
      BY <3>1, <3>2 DEF Booked, Current, LeaseOf
  <2>4. /\ task'[y.task].dispatched /\ task'[y.task].status = task[y.task].status
        /\ task'[y.task].epoch = task[y.task].epoch
    <3>1. task[y.task] \in TaskRow /\ task'[y.task] = [task[y.task] EXCEPT !.dispatched = TRUE]
      BY <1>0, <1>1, <1>7 DEF TypeOK, MarkProviderDispatched
    <3> QED
      BY <3>1 DEF TaskRow
  <2>5. LeaseOf(y) \notin paid
    BY <1>1, <1>7 DEF CallOf, MarkProviderDispatched
  <2> HIDE DEF new
  <2>6. CallOf(new)'
    BY <1>1, <2>1, <2>2, <2>3, <2>4, <2>5 DEF CallOf, LeaseOf
  <2>7. \A x \in exec' : CallOf(x)'
    BY <1>2, <2>1, <2>2, <2>6
  <2> QED
    BY <1>3, <2>1, <2>2, <2>7 DEF Called, LeaseOf
<1>8. ASSUME NEW y \in exec, CallProvider(y) PROVE Called'
  <2>1. /\ y.phase = "fenced" /\ task' = task /\ hold' = hold /\ ledger' = ledger
        /\ \/ Advance(y, "answered") /\ paid' = paid \cup {LeaseOf(y)}
           \/ Advance(y, "rejected") /\ paid' = paid
    BY <1>8 DEF CallProvider, accounting, LeaseOf
  <2>2. /\ LeaseOf(y) \in hold' \cup ledger' /\ LeaseOf(y) \notin paid
        /\ HoldsLease(y) => task[y.task].dispatched
        /\ y.token <= task[y.task].epoch /\ task[y.task].status # "absent"
    BY <1>1, <2>1 DEF CallOf
  <2>3. PICK phase \in {"answered", "rejected"} :
          /\ Advance(y, phase)
          /\ paid' = IF phase = "answered" THEN paid \cup {LeaseOf(y)} ELSE paid
    BY <2>1
  <2> DEFINE new == [y EXCEPT !.phase = phase]
  <2>4. /\ exec' = (exec \ {y}) \cup {new}
        /\ LeaseOf(new) = LeaseOf(y) /\ new.phase = phase
        /\ new.task = y.task /\ new.token = y.token
        /\ \A x, z \in exec' : LeaseOf(x) = LeaseOf(z) => x = z
    BY <1>6, <2>3
  <2> HIDE DEF new
  <2>5. CallOf(new)'
    BY <2>1, <2>2, <2>3, <2>4 DEF CallOf, LeaseOf, HoldsLease
  <2>6. ASSUME NEW x \in exec, x # y PROVE CallOf(x)'
    <3>1. LeaseOf(x) # LeaseOf(y)
      BY <2>6 DEF Called
    <3> QED
      BY <1>2, <2>3, <2>6, <3>1
  <2>7. ASSUME NEW t \in Task, NEW e \in Nat, <<t, e>> \in paid' PROVE PaidLease(t, e)'
    <3>1. CASE <<t, e>> \in paid
      BY <1>0, <3>1, BillStays
    <3>2. CASE <<t, e>> = LeaseOf(y)
      <4>1. t = y.task /\ e = y.token
        BY <3>2 DEF LeaseOf
      <4> QED
        BY <2>1, <2>2, <3>2, <4>1 DEF PaidLease, HoldsLease
    <3> QED
      BY <2>3, <2>7, <3>1, <3>2
  <2> QED
    BY <2>4, <2>5, <2>6, <2>7 DEF Called, LeaseOf
<1> QED
  BY <1>4, <1>5, <1>7, <1>8, ExecutionStep

LEMMA CalledInvariance == Spec => [](Inv /\ Called)
<1>1. Init => Called
  BY DEF Init, Called
<1>2. Inv /\ Called /\ [Next]_vars => (Inv /\ Called)'
  BY InvStep, CalledStep
<1> QED
  BY <1>1, <1>2, InvInit, PTL DEF Spec

(* Every provider call that was made is held or charged, never released,   *)
(* whatever the lease, the sweep and the author did after the fence.       *)
THEOREM PaidIsCharged == Spec => []PaidCallIsCharged
<1>1. ASSUME Inv, Called PROVE PaidCallIsCharged
  <2>1. paid \subseteq Lease
    BY <1>1 DEF Inv, TypeOK
  <2> QED
    BY <1>1, <2>1 DEF Called, PaidLease, PaidCallIsCharged, Lease
<1> QED
  BY <1>1, CalledInvariance, PTL

-----------------------------------------------------------------------------
(* Calls per generation *)

(* The leases of t under which a call was made or may still be made. *)
Calls(t) ==
  {l \in Lease : /\ l[1] = t
                 /\ l \in paid \/ \E y \in exec : y.phase = "fenced" /\ LeaseOf(y) = l}

(* One call for each reopen, and one once the claim was dispatched. *)
Allowance(row) == row.gen + (IF row.replay \/ row.dispatched THEN 1 ELSE 0)

Metered(t) ==
  IsFiniteSet(Calls(t)) /\ Cardinality(Calls(t)) <= Allowance(task[t])

(* Only a dispatch fence opens a new call. *)
LEMMA CallsStep ==
  ASSUME TypeOK, [Next]_vars, NEW u \in Task
  PROVE  \/ Calls(u)' \subseteq Calls(u)
         \/ \E y \in exec : /\ MarkProviderDispatched(y) /\ y.task = u
                            /\ Calls(u)' \subseteq Calls(u) \cup {LeaseOf(y)}
<1>0. ASSUME NEW x \in exec PROVE x \in Execution
  BY DEF TypeOK
<1>1. CASE exec' \subseteq exec /\ paid' = paid
  BY <1>1 DEF Calls, LeaseOf
<1>2. ASSUME NEW t \in Task, ClaimExact(t) PROVE Calls(u)' \subseteq Calls(u)
  <2>1. /\ exec' = exec \cup {[task |-> t, token |-> task[t].epoch + 1, phase |-> "claimed"]}
        /\ paid' = paid
    BY <1>2 DEF ClaimExact
  <2>2. ASSUME NEW y \in exec', y.phase = "fenced" PROVE y \in exec
    BY <2>1, <2>2
  <2> QED
    BY <2>1, <2>2 DEF Calls, LeaseOf
<1>3. ASSUME NEW y \in exec, MarkProviderDispatched(y)
      PROVE  Calls(u)' \subseteq Calls(u) \cup IF y.task = u THEN {LeaseOf(y)} ELSE {}
  <2> DEFINE new == [y EXCEPT !.phase = "fenced"]
  <2>1. exec' = (exec \ {y}) \cup {new} /\ paid' = paid
    BY <1>3 DEF MarkProviderDispatched, Advance
  <2>2. new.task = y.task /\ new.token = y.token
    BY <1>0 DEF Execution
  <2> HIDE DEF new
  <2>3. ASSUME NEW l \in Calls(u)', l \notin Calls(u) PROVE l = LeaseOf(y) /\ y.task = u
    <3>1. l \in Lease /\ l[1] = u /\ l \notin paid'
      BY <2>1, <2>3 DEF Calls
    <3>2. PICK z \in exec' : z.phase = "fenced" /\ LeaseOf(z) = l
      BY <2>3, <3>1 DEF Calls, LeaseOf
    <3>3. z \notin exec
      BY <2>3, <3>1, <3>2 DEF Calls
    <3>4. LeaseOf(y) = l
      BY <2>1, <2>2, <3>2, <3>3 DEF LeaseOf
    <3> QED
      BY <3>1, <3>4 DEF LeaseOf
  <2> QED
    BY <2>3
<1>4. ASSUME NEW y \in exec, CallProvider(y) PROVE Calls(u)' \subseteq Calls(u)
  <2>1. /\ y.phase = "fenced" /\ paid' \subseteq paid \cup {LeaseOf(y)}
        /\ \E phase \in {"answered", "rejected"} : Advance(y, phase)
    BY <1>4 DEF CallProvider, LeaseOf
  <2>2. ASSUME NEW z \in exec', z.phase = "fenced" PROVE z \in exec
    <3>1. PICK phase \in {"answered", "rejected"} : z \in exec \/ z = [y EXCEPT !.phase = phase]
      BY <2>1 DEF Advance
    <3>2. y \in Execution
      BY <1>0
    <3> QED
      BY <2>2, <3>1, <3>2 DEF Execution
  <2>3. ASSUME NEW l \in Calls(u)' PROVE l \in Calls(u)
    <3>1. l \in Lease /\ l[1] = u
      BY <2>3 DEF Calls
    <3>2. l \in paid' \/ \E z \in exec' : z.phase = "fenced" /\ LeaseOf(z) = l
      BY <2>3 DEF Calls, LeaseOf
    <3>3. l \in paid \/ \E z \in exec : z.phase = "fenced" /\ LeaseOf(z) = l
      BY <2>1, <2>2, <3>2
    <3> QED
      BY <3>1, <3>3 DEF Calls
  <2> QED
    BY <2>3
<1> QED
  BY <1>1, <1>2, <1>3, <1>4, ExecutionStep

(* The allowance of a task never shrinks, but when its row is inserted. *)
LEMMA AllowanceStep ==
  ASSUME TypeOK, NEW u \in Task, LocalStep(u), ~InsertStep(u)
  PROVE  Allowance(task'[u]) \in Nat /\ Allowance(task'[u]) >= Allowance(task[u])
<1>0. task[u] \in TaskRow /\ task[u].gen \in Nat
  BY RowType DEF TaskRow
<1>1. ASSUME RestStep(u) \/ ReconcileStep(u) \/ GiveUpStep(u) PROVE task'[u] = task[u]
  BY <1>1 DEF RestStep, ReconcileStep, GiveUpStep
<1>2. ASSUME FenceStep(u) \/ ExpireStep(u) \/ AgeStep(u) \/ CancelStep(u) \/ JoinStep(u)
      PROVE  /\ task'[u].gen = task[u].gen /\ task'[u].replay = task[u].replay
             /\ task[u].dispatched => task'[u].dispatched
  BY <1>0, <1>2 DEF FenceStep, ExpireStep, AgeStep, CancelStep, JoinStep, TaskRow
<1>3. ASSUME ClaimStep(u)
      PROVE  /\ task'[u].gen = task[u].gen /\ task'[u].replay = task[u].replay
             /\ task'[u].dispatched = task[u].dispatched
  BY <1>0, <1>3 DEF ClaimStep, Claimed, TaskRow
<1>4. ASSUME SuccessStep(u) \/ FailStep(u) \/ UnknownStep(u)
      PROVE  /\ task'[u].gen = task[u].gen /\ task'[u].replay = task[u].replay
             /\ task'[u].dispatched = task[u].dispatched
  BY <1>0, <1>4 DEF SuccessStep, FailStep, UnknownStep, Finished, TaskRow
<1>5. ASSUME ReplayStep(u) \/ RetryStep(u)
      PROVE  /\ task'[u].gen = task[u].gen
             /\ task'[u].replay = (task[u].replay \/ task[u].dispatched)
  BY <1>0, <1>5 DEF ReplayStep, RetryStep, Requeued, TaskRow
<1>6. ASSUME ReopenStep(u) PROVE task'[u].gen = task[u].gen + 1
  BY <1>0, <1>6 DEF ReopenStep, NewRow
<1>7. /\ task'[u].gen = task[u].gen
      /\ task[u].replay \/ task[u].dispatched => task'[u].replay \/ task'[u].dispatched
      \/ task'[u].gen = task[u].gen + 1
  BY <1>1, <1>2, <1>3, <1>4, <1>5, <1>6 DEF LocalStep
<1> QED
  BY <1>0, <1>7 DEF Allowance

LEMMA MeteredStep ==
  ASSUME Inv, Called, [Next]_vars, NEW u \in Task, Kind[u] = "generate_unit", Metered(u)
  PROVE  Metered(u)'
<1>0. TypeOK /\ InsertedOnce /\ LocalStep(u)
  BY Locality, InvUnpaid DEF Inv
<1>1. IsFiniteSet(Calls(u)) /\ Cardinality(Calls(u)) \in Nat
      /\ Cardinality(Calls(u)) <= Allowance(task[u])
  BY FS_CardinalityType DEF Metered
<1>2. task[u] \in TaskRow /\ task[u].gen \in Nat /\ Allowance(task[u]) \in Nat
  BY <1>0, RowType DEF TaskRow, Allowance
<1>3. CASE Calls(u)' \subseteq Calls(u)
  <2>1. IsFiniteSet(Calls(u)') /\ Cardinality(Calls(u)') <= Cardinality(Calls(u))
        /\ Cardinality(Calls(u)') \in Nat
    BY <1>1, <1>3, FS_Subset, FS_CardinalityType
  <2>2. CASE InsertStep(u)
    <3>1. task[u].status = "absent"
      BY <1>0, <2>2 DEF InsertStep, InsertedOnce, Running
    <3>2. Calls(u) = {}
      <4>1. ASSUME NEW l \in Calls(u) PROVE FALSE
        <5>1. PICK e \in Nat : l = <<u, e>>
          BY <4>1 DEF Calls, Lease
        <5>2. CASE l \in paid
          BY <3>1, <5>1, <5>2 DEF Called, PaidLease
        <5>3. CASE \E y \in exec : LeaseOf(y) = l
          BY <3>1, <5>1, <5>3 DEF Called, CallOf, LeaseOf
        <5> QED
          BY <4>1, <5>2, <5>3 DEF Calls
      <4> QED
        BY <4>1
    <3>3. Cardinality(Calls(u)') = 0
      BY <1>3, <3>2, FS_EmptySet
    <3>4. Allowance(task'[u]) = 0
      BY <2>2 DEF InsertStep, NewRow, Allowance
    <3> QED
      BY <2>1, <3>3, <3>4 DEF Metered, Allowance
  <2>3. CASE ~InsertStep(u)
    <3>1. Allowance(task'[u]) \in Nat /\ Allowance(task'[u]) >= Allowance(task[u])
      BY <1>0, <2>3, AllowanceStep
    <3>2. Cardinality(Calls(u)') <= Allowance(task'[u])
      BY <1>1, <1>2, <2>1, <3>1
    <3> QED
      BY <2>1, <3>2 DEF Metered, Allowance
  <2> QED
    BY <2>2, <2>3
<1>4. ASSUME NEW y \in exec, MarkProviderDispatched(y), y.task = u,
             Calls(u)' \subseteq Calls(u) \cup {LeaseOf(y)}
      PROVE  Metered(u)'
  <2>1. /\ IsFiniteSet(Calls(u) \cup {LeaseOf(y)})
        /\ Cardinality(Calls(u) \cup {LeaseOf(y)}) <= Cardinality(Calls(u)) + 1
        /\ Cardinality(Calls(u) \cup {LeaseOf(y)}) \in Nat
    <3>1. /\ IsFiniteSet(Calls(u) \cup {LeaseOf(y)})
          /\ \/ Cardinality(Calls(u) \cup {LeaseOf(y)}) = Cardinality(Calls(u))
             \/ Cardinality(Calls(u) \cup {LeaseOf(y)}) = Cardinality(Calls(u)) + 1
      BY <1>1, FS_AddElement
    <3> QED
      BY <1>1, <3>1
  <2>2. /\ IsFiniteSet(Calls(u)') /\ Cardinality(Calls(u)') \in Nat
        /\ Cardinality(Calls(u)') <= Cardinality(Calls(u) \cup {LeaseOf(y)})
    BY <1>4, <2>1, FS_Subset, FS_CardinalityType
  <2>3. ~task[u].replay /\ ~task[u].dispatched
    BY <1>4 DEF MarkProviderDispatched, FallbackOnly
  <2>4. task'[u].gen = task[u].gen /\ task'[u].dispatched
    BY <1>0, <1>2, <1>4 DEF MarkProviderDispatched, TypeOK, TaskRow
  <2>5. Allowance(task[u]) = task[u].gen /\ Allowance(task'[u]) = task[u].gen + 1
    BY <1>2, <2>3, <2>4 DEF Allowance
  <2>6. Cardinality(Calls(u)') <= Allowance(task'[u])
    BY <1>1, <1>2, <2>1, <2>2, <2>5
  <2> QED
    BY <2>2, <2>6 DEF Metered, Allowance
<1> QED
  BY <1>0, <1>3, <1>4, CallsStep

Meters == \A t \in Task : Kind[t] = "generate_unit" => Metered(t)

(* The author pays for at most one call of a unit per generation, whatever *)
(* crashes, expiries, retries and late calls happen.                       *)
THEOREM OneCallEach == Spec => []OneCallPerGeneration
<1>1. ASSUME Init PROVE Meters
  <2> SUFFICES ASSUME NEW t \in Task PROVE Metered(t)
    BY DEF Meters
  <2>1. Calls(t) = {}
    BY <1>1 DEF Init, Calls
  <2>2. Allowance(task[t]) = 0
    BY <1>1 DEF Init, NewRow, Allowance
  <2> QED
    BY <2>1, <2>2, FS_EmptySet DEF Metered
<1>2. Inv /\ Called /\ Meters /\ [Next]_vars => Meters'
  BY MeteredStep DEF Meters
<1>3. ASSUME Inv, Meters PROVE OneCallPerGeneration
  <2> SUFFICES ASSUME NEW t \in Task, Kind[t] = "generate_unit"
               PROVE  Cardinality({l \in paid : l[1] = t}) <= task[t].gen + 1
    BY DEF OneCallPerGeneration
  <2>1. {l \in paid : l[1] = t} \subseteq Calls(t)
    BY <1>3 DEF Inv, TypeOK, Calls
  <2>2. /\ IsFiniteSet(Calls(t)) /\ Cardinality(Calls(t)) \in Nat
        /\ Cardinality(Calls(t)) <= Allowance(task[t])
    BY <1>3, FS_CardinalityType DEF Meters, Metered
  <2>3. task[t].gen \in Nat
    BY <1>3 DEF Inv, TypeOK, TaskRow
  <2>4. Allowance(task[t]) \in Nat /\ Allowance(task[t]) <= task[t].gen + 1
    BY <2>3 DEF Allowance
  <2>5. /\ Cardinality({l \in paid : l[1] = t}) \in Nat
        /\ Cardinality({l \in paid : l[1] = t}) <= Cardinality(Calls(t))
    BY <2>1, <2>2, FS_Subset, FS_CardinalityType
  <2> QED
    BY <2>2, <2>3, <2>4, <2>5
<1> QED
  BY <1>1, <1>2, <1>3, CalledInvariance, PTL DEF Spec

=============================================================================
