--------------------------- MODULE OutboxDelivery ---------------------------
(***************************************************************************)
(* What the transactional outbox of AI-ID orchestration V2 promises to the *)
(* code that queues a task: an outbox row, one per task and dispatch epoch,*)
(* waits until a worker takes it or the dispatcher gives it up, and leaves *)
(* the waiting state once.  A worker takes a row only while the task is    *)
(* still queued at the row's epoch in a running course generation.         *)
(* DispatchOutbox is the mechanism that is shown to implement this.        *)
(***************************************************************************)

CONSTANT Row

VARIABLES
  phase,      \* phase[r]: where row r stands
  authority   \* authority[r]: what the task and run tables say about row r

vars == <<phase, authority>>

Phase == {"waiting", "taken", "dead"}

(* "queued": the task is queued at the row's epoch, its dependencies have  *)
(* succeeded and the run is planning or executing; "over": the task is     *)
(* running or terminal; "withdrawn": blocked, queued at a later epoch, or  *)
(* its run is stopped.                                                     *)
Authority == {"queued", "over", "withdrawn"}

TypeOK ==
  /\ phase \in [Row -> Phase]
  /\ authority \in [Row -> Authority]

Init ==
  /\ phase = [r \in Row |-> "waiting"]
  /\ authority = [r \in Row |-> "queued"]

(* A worker claims the task through its row. *)
Take(r) ==
  /\ phase[r] = "waiting"
  /\ authority[r] = "queued"
  /\ phase' = [phase EXCEPT ![r] = "taken"]
  /\ authority' = [authority EXCEPT ![r] = "over"]

(* A worker finds that the task no longer needs the row. *)
Spend(r) ==
  /\ phase[r] = "waiting"
  /\ authority[r] = "over"
  /\ phase' = [phase EXCEPT ![r] = "taken"]
  /\ UNCHANGED authority

(* The dispatcher exhausts its publish attempts. *)
GiveUp(r) ==
  /\ phase[r] = "waiting"
  /\ phase' = [phase EXCEPT ![r] = "dead"]
  /\ UNCHANGED authority

(* The task or its run moves on by other means; a row that lost its        *)
(* authority never regains it, because a requeue opens a new epoch.        *)
Withdraw(r) ==
  /\ \E a \in {"over", "withdrawn"} :
       authority' = [authority EXCEPT ![r] = a]
  /\ UNCHANGED phase

Next == \E r \in Row : Take(r) \/ Spend(r) \/ GiveUp(r) \/ Withdraw(r)

Spec == Init /\ [][Next]_vars

=============================================================================
