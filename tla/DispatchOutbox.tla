--------------------------- MODULE DispatchOutbox ---------------------------
(***************************************************************************)
(* The transactional outbox between the V2 task tables and RabbitMQ:       *)
(* dispatcher processes lease a pending row, publish outside the database  *)
(* transaction, and confirm with a fenced compare-and-set; workers resolve *)
(* each delivered copy against the row and the task it names.              *)
(*                                                                         *)
(* Time is abstract: a lease may expire at any moment.  A dispatcher has   *)
(* one claim in flight (dispatchOneOrchestrationV2Outbox is awaited) and   *)
(* forgets it in a crash, so its name identifies its lease token.          *)
(* A broker keeps a count of copies per row, delivered-but-unacknowledged  *)
(* ones included, because an unacknowledged copy is delivered again.       *)
(***************************************************************************)
EXTENDS Integers

CONSTANTS
  Row,          \* outbox rows: (task, dispatch epoch) pairs
  Dispatcher,   \* dispatcher processes serving the lane of these rows
  MaxAttempts,  \* MaxAttempts[d]: outbox max_attempts configured in d
  MaxCopies,    \* bound: copies of one row the broker may hold
  None          \* no row, no token

ASSUME MaxAttemptsAssumption == MaxAttempts \in [Dispatcher -> Nat \ {0}]
ASSUME MaxCopiesAssumption == MaxCopies \in Nat \ {0}
ASSUME NoneAssumption == None \notin Row \cup Dispatcher

VARIABLES
  outbox,     \* outbox[r]: the columns of the outbox row
  disp,       \* disp[d]: the claim dispatcher d is working on
  broker,     \* broker[r]: copies of r's envelope held by RabbitMQ
  deferring,  \* deferring[r]: copies between capacity verdict and deferral
  authority   \* authority[r]: what the task and run tables say about r

vars == <<outbox, disp, broker, deferring, authority>>

-----------------------------------------------------------------------------
(* State *)

RowStatus == {"pending", "publishing", "published", "consumed", "dead"}

(* failure_code is not null exactly in status 'dead', so it has no field.  *)
OutboxRow ==
  [status : RowStatus, attempt : Nat, token : Dispatcher \cup {None},
   live : BOOLEAN]

(* "claimed": claimNext returned, publish in progress; "confirmed" and     *)
(* "failed": publishConfirmed resolved or threw.                           *)
Claim == [row : Row \cup {None}, phase : {"idle", "claimed", "confirmed", "failed"}]

Idle == [row |-> None, phase |-> "idle"]

Authority == {"queued", "over", "withdrawn"}

TypeOK ==
  /\ outbox \in [Row -> OutboxRow]
  /\ disp \in [Dispatcher -> Claim]
  /\ broker \in [Row -> 0..MaxCopies]
  /\ deferring \in [Row -> Nat]
  /\ authority \in [Row -> Authority]

(* A row is inserted pending with the queued task, in one transaction. *)
Init ==
  /\ outbox = [r \in Row |->
       [status |-> "pending", attempt |-> 0, token |-> None, live |-> FALSE]]
  /\ disp = [d \in Dispatcher |-> Idle]
  /\ broker = [r \in Row |-> 0]
  /\ deferring = [r \in Row |-> 0]
  /\ authority = [r \in Row |-> "queued"]

-----------------------------------------------------------------------------
(* Dispatcher *)

(* A pending row at the attempt limit is eligible only for a task that     *)
(* still waits for it (its attempts then start again at 1).  It can be     *)
(* pending at the limit when another process was configured with a higher  *)
(* max_attempts.                                                           *)
Eligible(d, r) ==
  /\ outbox[r].status = "pending"
  /\ outbox[r].attempt < MaxAttempts[d] \/ authority[r] = "queued"

(* claimNext; FOR UPDATE SKIP LOCKED makes it atomic on one row. *)
ClaimNext(d, r) ==
  /\ disp[d] = Idle
  /\ Eligible(d, r)
  /\ outbox' = [outbox EXCEPT ![r] =
       [status |-> "publishing",
        attempt |-> IF @.attempt >= MaxAttempts[d] THEN 1 ELSE @.attempt + 1,
        token |-> d, live |-> TRUE]]
  /\ disp' = [disp EXCEPT ![d] = [row |-> r, phase |-> "claimed"]]
  /\ UNCHANGED <<broker, deferring, authority>>

Enqueue(r) ==
  /\ broker[r] < MaxCopies
  /\ broker' = [broker EXCEPT ![r] = @ + 1]

(* publishConfirmed resolves: the broker holds the envelope. *)
PublishConfirmed(d) ==
  /\ disp[d].phase = "claimed"
  /\ Enqueue(disp[d].row)
  /\ disp' = [disp EXCEPT ![d].phase = "confirmed"]
  /\ UNCHANGED <<outbox, deferring, authority>>

(* publishConfirmed throws; the envelope may have reached the broker. *)
PublishUnconfirmed(d) ==
  /\ disp[d].phase = "claimed"
  /\ Enqueue(disp[d].row) \/ UNCHANGED broker
  /\ disp' = [disp EXCEPT ![d].phase = "failed"]
  /\ UNCHANGED <<outbox, deferring, authority>>

(* Mutant: the lease token is not compared. *)
HoldsRow(d, r) == outbox[r].status = "publishing"

(* The WHERE clauses of the fenced updates: still this claim's row. *)
HoldsToken(d, r) == outbox[r].status = "publishing" /\ outbox[r].token = d

(* markPublished; a lost lease throws and changes nothing. *)
MarkPublished(d) ==
  LET r == disp[d].row IN
  /\ disp[d].phase = "confirmed"
  /\ outbox' = IF HoldsToken(d, r) /\ outbox[r].live
               THEN [outbox EXCEPT ![r].status = "published",
                                   ![r].token = None, ![r].live = FALSE]
               ELSE outbox
  /\ disp' = [disp EXCEPT ![d] = Idle]
  /\ UNCHANGED <<broker, deferring, authority>>

(* Where a row goes when an attempt is given up under limit n. *)
AfterAttempt(r, n) ==
  [outbox EXCEPT ![r].status = IF outbox[r].attempt >= n THEN "dead" ELSE "pending",
                 ![r].token = None, ![r].live = FALSE]

(* releaseAfterPublishFailure: fenced by the token, not by the clock. *)
ReleaseAfterPublishFailure(d) ==
  LET r == disp[d].row IN
  /\ disp[d].phase = "failed"
  /\ outbox' = IF HoldsToken(d, r) THEN AfterAttempt(r, MaxAttempts[d]) ELSE outbox
  /\ disp' = [disp EXCEPT ![d] = Idle]
  /\ UNCHANGED <<broker, deferring, authority>>

(* lease_expires_at passes. *)
LeaseExpires(r) ==
  /\ outbox[r].status = "publishing"
  /\ outbox[r].live
  /\ outbox' = [outbox EXCEPT ![r].live = FALSE]
  /\ UNCHANGED <<disp, broker, deferring, authority>>

(* Mutant: recovery skips the rows that used their last attempt. *)
RecoverBelowLimit(d, r) ==
  /\ disp[d] = Idle
  /\ outbox[r].status = "publishing"
  /\ ~outbox[r].live
  /\ outbox[r].attempt < MaxAttempts[d]
  /\ outbox' = AfterAttempt(r, MaxAttempts[d])
  /\ UNCHANGED <<disp, broker, deferring, authority>>

(* recoverOne, run by an idle dispatcher at the start of its cycle. *)
RecoverOne(d, r) ==
  /\ disp[d] = Idle
  /\ outbox[r].status = "publishing"
  /\ ~outbox[r].live
  /\ outbox' = AfterAttempt(r, MaxAttempts[d])
  /\ UNCHANGED <<disp, broker, deferring, authority>>

(* A dispatcher dies, or a lease update fails with a database error, with  *)
(* its claim in flight; a publish in progress may still reach the broker.  *)
DispatcherCrash(d) ==
  /\ disp[d] # Idle
  /\ \/ disp[d].phase = "claimed" /\ Enqueue(disp[d].row)
     \/ UNCHANGED broker
  /\ disp' = [disp EXCEPT ![d] = Idle]
  /\ UNCHANGED <<outbox, deferring, authority>>

-----------------------------------------------------------------------------
(* Worker: handleOrchestrationV2Delivery and claimExact, one action for    *)
(* each disposition.                                                       *)

(* A copy of r that no worker holds between a verdict and its deferral. *)
Delivered(r) == broker[r] > deferring[r]

Ack(r) == broker' = [broker EXCEPT ![r] = @ - 1]

(* The acknowledgement may be lost with the channel. *)
AckOrLose(r) == Ack(r) \/ UNCHANGED broker

(* 'claimed': the task becomes running and the row consumed. *)
ClaimExact(r) ==
  /\ Delivered(r)
  /\ outbox[r].status = "published"
  /\ authority[r] = "queued"
  /\ outbox' = [outbox EXCEPT ![r].status = "consumed"]
  /\ authority' = [authority EXCEPT ![r] = "over"]
  /\ AckOrLose(r)
  /\ UNCHANGED <<disp, deferring>>

(* 'duplicate': the row is consumed already, or is consumed now because    *)
(* its task runs or ended.                                                 *)
DeliverDuplicate(r) ==
  /\ Delivered(r)
  /\ \/ outbox[r].status = "consumed"
     \/ outbox[r].status = "published" /\ authority[r] = "over"
  /\ outbox' = [outbox EXCEPT ![r].status = "consumed"]
  /\ AckOrLose(r)
  /\ UNCHANGED <<disp, deferring, authority>>

(* 'stale': acknowledged without a change. *)
DeliverStale(r) ==
  /\ Delivered(r)
  /\ \/ outbox[r].status \in {"pending", "dead"}
     \/ outbox[r].status = "published" /\ authority[r] = "withdrawn"
  /\ Ack(r)
  /\ UNCHANGED <<outbox, disp, deferring, authority>>

(* Mutant: a copy that races its publication is acknowledged as stale. *)
AckPublicationRace(r) ==
  /\ Delivered(r)
  /\ outbox[r].status = "publishing"
  /\ Ack(r)
  /\ UNCHANGED <<outbox, disp, deferring, authority>>

(* 'deferred' for a publication race: requeued without a change. *)
DeliverPublicationRace(r) ==
  /\ Delivered(r)
  /\ outbox[r].status = "publishing"
  /\ UNCHANGED vars

(* 'deferred' for capacity: the claim transaction ends without a change;   *)
(* deferPublished is a second transaction.                                 *)
CapacityVerdict(r) ==
  /\ Delivered(r)
  /\ outbox[r].status = "published"
  /\ authority[r] = "queued"
  /\ deferring' = [deferring EXCEPT ![r] = @ + 1]
  /\ UNCHANGED <<outbox, disp, broker, authority>>

StillDeferrable(r) == outbox[r].status = "published" /\ authority[r] = "queued"

(* Mutant: the deferral does not check the row and the task again. *)
DeferOnVerdict(r) ==
  /\ deferring[r] > 0
  /\ outbox' = [outbox EXCEPT ![r].status = "pending", ![r].attempt = 0]
  /\ deferring' = [deferring EXCEPT ![r] = @ - 1]
  /\ AckOrLose(r)
  /\ UNCHANGED <<disp, authority>>

(* deferPublished commits: the row is pending again, then the copy is      *)
(* acknowledged.                                                           *)
DeferPublished(r) ==
  /\ deferring[r] > 0
  /\ StillDeferrable(r)
  /\ outbox' = [outbox EXCEPT ![r].status = "pending", ![r].attempt = 0]
  /\ deferring' = [deferring EXCEPT ![r] = @ - 1]
  /\ AckOrLose(r)
  /\ UNCHANGED <<disp, authority>>

(* deferPublished found nothing to defer, threw, or the worker died: the   *)
(* copy goes back to the queue.                                            *)
DeferUnconfirmed(r) ==
  /\ deferring[r] > 0
  /\ deferring' = [deferring EXCEPT ![r] = @ - 1]
  /\ UNCHANGED <<outbox, disp, broker, authority>>

-----------------------------------------------------------------------------
(* The task and run tables, seen from the row: the run is stopped, the     *)
(* task canceled, finished or queued again at a later epoch.  A row that   *)
(* lost its authority never regains it.                                    *)
Withdraw(r) ==
  /\ \E a \in {"over", "withdrawn"} :
       authority' = [authority EXCEPT ![r] = a]
  /\ UNCHANGED <<outbox, disp, broker, deferring>>

DispatcherNext(d) ==
  \/ \E r \in Row : ClaimNext(d, r) \/ RecoverOne(d, r)
  \/ PublishConfirmed(d)
  \/ PublishUnconfirmed(d)
  \/ MarkPublished(d)
  \/ ReleaseAfterPublishFailure(d)
  \/ DispatcherCrash(d)

WorkerNext(r) ==
  \/ ClaimExact(r)
  \/ DeliverDuplicate(r)
  \/ DeliverStale(r)
  \/ DeliverPublicationRace(r)
  \/ CapacityVerdict(r)
  \/ DeferPublished(r)
  \/ DeferUnconfirmed(r)

Next ==
  \/ \E d \in Dispatcher : DispatcherNext(d)
  \/ \E r \in Row : WorkerNext(r) \/ LeaseExpires(r) \/ Withdraw(r)

Spec == Init /\ [][Next]_vars

(* The dispatcher loop polls and awaits each call; a consumer is subscribed*)
(* and requeues are redelivered; the clock passes every lease; admission   *)
(* slots are freed again and again, so a delivery that keeps coming back   *)
(* is not refused for capacity every time.                                 *)
Fairness ==
  /\ \A d \in Dispatcher :
       /\ WF_vars(PublishConfirmed(d) \/ PublishUnconfirmed(d))
       /\ WF_vars(MarkPublished(d))
       /\ WF_vars(ReleaseAfterPublishFailure(d))
  /\ \A r \in Row :
       /\ SF_vars(\E d \in Dispatcher : ClaimNext(d, r))
       /\ SF_vars(\E d \in Dispatcher : RecoverOne(d, r))
       /\ WF_vars(LeaseExpires(r))
       /\ SF_vars(ClaimExact(r))
       /\ WF_vars(DeferPublished(r) \/ DeferUnconfirmed(r))

LiveSpec == Spec /\ Fairness

-----------------------------------------------------------------------------
(* Properties *)

(* A published row whose task still waits has a copy in the broker: the    *)
(* published compare-and-set follows the confirm, a copy that races it is  *)
(* requeued, and a capacity deferral returns the row to 'pending' before   *)
(* the copy is acknowledged.  Nothing rescans published rows               *)
(* (published_recovery_seconds has no reader), so a published row without  *)
(* a copy would strand its task.                                           *)
PublishedIsDeliverable ==
  \A r \in Row :
    outbox[r].status = "published" /\ authority[r] = "queued" => broker[r] > 0

(* The inductive invariant behind PublishedIsDeliverable and LeaseFences:  *)
(* a claim in flight names a row; only a publishing row has a live lease;  *)
(* a worker holds no more copies than the broker knows; and a confirmed    *)
(* claim that still holds its row's token has its copy, since a copy is    *)
(* acknowledged only while the row is not publishing.                      *)
ClaimNamesRow == \A d \in Dispatcher : disp[d] # Idle => disp[d].row \in Row

LiveIsPublishing == \A r \in Row : outbox[r].live => outbox[r].status = "publishing"

HeldCopies == \A r \in Row : deferring[r] <= broker[r]

ConfirmedHasCopy ==
  \A d \in Dispatcher :
    disp[d].phase = "confirmed" /\ HoldsToken(d, disp[d].row) => broker[disp[d].row] > 0

Inductive ==
  /\ TypeOK
  /\ ClaimNamesRow
  /\ LiveIsPublishing
  /\ HeldCopies
  /\ ConfirmedHasCopy
  /\ PublishedIsDeliverable

(* A dispatcher that lost its claim never writes to the row: only the      *)
(* holder of the current token moves a row out of 'publishing' while the   *)
(* lease is live (markPublished, releaseAfterPublishFailure), and a row    *)
(* becomes published only under a live lease of a confirmed claim.         *)
LeaseFences ==
  [][\A r \in Row :
       /\ (outbox[r].live /\ outbox'[r].status # "publishing") =>
            disp[outbox[r].token].row = r /\ disp'[outbox[r].token] = Idle
       /\ (outbox[r].status # "published" /\ outbox'[r].status = "published") =>
            outbox[r].live /\ disp[outbox[r].token] = [row |-> r, phase |-> "confirmed"]
    ]_vars

(* A row whose task waits for it is claimed, given up at the attempt limit *)
(* or withdrawn: dispatcher crashes, lost leases, unconfirmed publishes and*)
(* capacity deferrals delay it and never leave it unattended.              *)
WaitingRowIsResolved ==
  \A r \in Row :
    authority[r] = "queued" ~>
      authority[r] # "queued" \/ outbox[r].status = "dead"

(* Every row leaves the waiting state once, to a worker only while its     *)
(* task is queued at the row's epoch.                                      *)
Delivery == INSTANCE OutboxDelivery WITH
  phase <- [r \in Row |->
             CASE outbox[r].status \in {"pending", "publishing", "published"} -> "waiting"
               [] outbox[r].status = "consumed" -> "taken"
               [] OTHER -> "dead"]

(* The outbox implements OutboxDelivery. *)
ImplementsOutboxDelivery == Delivery!Spec

=============================================================================
