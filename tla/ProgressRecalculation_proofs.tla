--------------------- MODULE ProgressRecalculation_proofs ---------------------
(* Theorems about ProgressRecalculation for any number of enrollments,     *)
(* consumer slots, batch size, batches per turn and retries.               *)
EXTENDS ProgressRecalculation, TLAPS

(* Publishing keeps the queue well typed. *)
LEMMA PublishedType ==
  ASSUME NEW q \in [0..MaxRetries -> 0..MaxCopies], NEW r \in 0..MaxRetries
  PROVE  Published(q, r) \in [0..MaxRetries -> 0..MaxCopies]
  BY BoundAssumption, SizeAssumption DEF Published

(* The end of a batch is a cursor again, not before its start. *)
LEMMA LastOfType ==
  ASSUME NEW c \in 0..N
  PROVE  LastOf(c) \in 0..N /\ LastOf(c) >= c
  BY SizeAssumption DEF LastOf

(* Every reachable state satisfies the inductive invariant. *)
THEOREM InductiveInvariant == Spec => []Inductive
<1>1. Init => Inductive
  BY BoundAssumption, SizeAssumption
  DEF Init, Inductive, TypeOK, JobRow, Slot, Busy, IdleSlot, Enrollment, Started,
      WithinLimits, RowCovered, WorkersCovered, Covered
<1>2. Inductive /\ [Next]_vars => Inductive'
  <2> SUFFICES ASSUME Inductive, [Next]_vars PROVE Inductive'
    OBVIOUS
  <2> USE SizeAssumption, BoundAssumption
  <2> USE DEF Inductive
  <2>0. 0 \in 0..MaxRetries /\ 0 \in 0..N /\ 0 \in 0..MaxBatches
    OBVIOUS
  <2>q. Published(queue, 0) \in [0..MaxRetries -> 0..MaxCopies]
    BY <2>0, PublishedType DEF TypeOK
  <2>1. ASSUME Schedule PROVE Inductive'
    <3> USE DEF Schedule, Requested, Fault, NoFault
    <3>1. TypeOK'
      <4>1. job' \in JobRow
        BY <2>1, <2>0 DEF TypeOK, JobRow
      <4>2. queue' \in [0..MaxRetries -> 0..MaxCopies]
        BY <2>1, <2>q DEF TypeOK
      <4>3. worker' \in [Worker -> Slot]
        BY <2>1 DEF TypeOK, JobRow, Slot, Busy, LastOf
      <4>4. poll' \in {"idle", "wake"} /\ calc' \in [Enrollment -> 0..MaxRequests]
        BY <2>1 DEF TypeOK
      <4>5. requests' \in 0..MaxRequests /\ faults' \in 0..MaxFaults
        BY <2>1 DEF TypeOK
      <4> QED BY <4>1, <4>2, <4>3, <4>4, <4>5 DEF TypeOK
    <3>2. Started'
      BY <2>1 DEF Started, TypeOK, JobRow, Slot, Busy, Published
    <3>3. RowCovered'
      BY <2>1, LastOfType DEF RowCovered, WorkersCovered, Covered, Started, TypeOK, JobRow, Slot, Busy, Enrollment
    <3>4. WorkersCovered'
      BY <2>1 DEF RowCovered, WorkersCovered, Covered, Started, TypeOK, JobRow, Slot, Busy, Enrollment, LastOf
    <3>5. WithinLimits'
      BY <2>1 DEF WithinLimits, TypeOK, Slot, Busy
    <3> QED BY <3>1, <3>2, <3>3, <3>4, <3>5
  <2>2. ASSUME NEW w \in Worker, NEW r \in 0..MaxRetries, Claim(w, r) PROVE Inductive'
    <3> USE DEF Claim, Deliver, FirstPhase
    <3>1. TypeOK'
      <4>1. job' \in JobRow
        BY <2>2 DEF TypeOK, JobRow, Slot, Busy, LastOf
      <4>2. queue' \in [0..MaxRetries -> 0..MaxCopies]
        BY <2>2, PublishedType DEF TypeOK, Slot
      <4>3. worker' \in [Worker -> Slot]
        <5> DEFINE s == [phase |-> FirstPhase, cursor |-> job.cursor, slices |-> 0, retries |-> r]
        <5>1. s \in Slot
          BY <2>0 DEF TypeOK, JobRow, Slot, Busy
        <5>2. worker' = [worker EXCEPT ![w] = s] \/ worker' = worker
          BY <2>2
        <5> QED BY <5>1, <5>2 DEF TypeOK
      <4>4. poll' \in {"idle", "wake"} /\ calc' \in [Enrollment -> 0..MaxRequests]
        BY <2>2 DEF TypeOK
      <4>5. requests' \in 0..MaxRequests /\ faults' \in 0..MaxFaults
        BY <2>2 DEF TypeOK
      <4> QED BY <4>1, <4>2, <4>3, <4>4, <4>5 DEF TypeOK
    <3>2. Started'
      BY <2>2 DEF Started, TypeOK, JobRow, Slot, Busy, Published
    <3>3. RowCovered'
      BY <2>2, LastOfType DEF RowCovered, WorkersCovered, Covered, Started, TypeOK, JobRow, Slot, Busy, Enrollment
    <3>4. WorkersCovered'
      <4>1. calc' = calc
        BY <2>2
      <4>2. ASSUME NEW v \in Worker
            PROVE  \/ worker'[v] = worker[v]
                   \/ /\ worker'[v].cursor = job.cursor
                      /\ worker'[v].phase \in {"slice", "yield"}
        BY <2>2 DEF TypeOK
      <4> QED BY <4>1, <4>2 DEF RowCovered, WorkersCovered, Covered, LastOf
    <3>5. WithinLimits'
      <4>1. ASSUME NEW v \in Worker
            PROVE  \/ worker'[v] = worker[v]
                   \/ worker'[v].slices = 0 /\ worker'[v].phase = FirstPhase
        BY <2>2 DEF TypeOK
      <4> QED BY <4>1 DEF WithinLimits
    <3> QED BY <3>1, <3>2, <3>3, <3>4, <3>5
  <2>3. ASSUME NEW w \in Worker, NEW r \in 0..MaxRetries, ClaimThrows(w, r) PROVE Inductive'
    <3> USE DEF ClaimThrows, Deliver, Fault, IdleSlot
    <3>1. TypeOK'
      <4>1. job' \in JobRow
        BY <2>3 DEF TypeOK, JobRow, Slot, Busy, LastOf
      <4>2. queue' \in [0..MaxRetries -> 0..MaxCopies]
        BY <2>3, PublishedType DEF TypeOK, Slot
      <4>3. worker' \in [Worker -> Slot]
        <5> DEFINE s == [IdleSlot EXCEPT !.phase = "error", !.retries = r]
        <5>1. s \in Slot
          BY <2>0 DEF Slot, Busy
        <5>2. worker' = [worker EXCEPT ![w] = s]
          BY <2>3
        <5> QED BY <5>1, <5>2 DEF TypeOK
      <4>4. poll' \in {"idle", "wake"} /\ calc' \in [Enrollment -> 0..MaxRequests]
        BY <2>3 DEF TypeOK
      <4>5. requests' \in 0..MaxRequests /\ faults' \in 0..MaxFaults
        BY <2>3 DEF TypeOK
      <4> QED BY <4>1, <4>2, <4>3, <4>4, <4>5 DEF TypeOK
    <3>2. Started'
      BY <2>3 DEF Started, TypeOK, JobRow, Slot, Busy, Published
    <3>3. RowCovered'
      BY <2>3, LastOfType DEF RowCovered, WorkersCovered, Covered, Started, TypeOK, JobRow, Slot, Busy, Enrollment
    <3>4. WorkersCovered'
      <4>1. calc' = calc
        BY <2>3
      <4>2. ASSUME NEW v \in Worker
            PROVE  \/ worker'[v] = worker[v]
                   \/ worker'[v].cursor = 0 /\ worker'[v].phase = "error"
        BY <2>3 DEF TypeOK
      <4>3. Covered(0)
        BY DEF Covered, Enrollment
      <4> QED BY <4>1, <4>2, <4>3 DEF WorkersCovered, Covered, LastOf
    <3>5. WithinLimits'
      BY <2>3 DEF WithinLimits, TypeOK, Slot, Busy
    <3> QED BY <3>1, <3>2, <3>3, <3>4, <3>5
  <2>4. ASSUME NEW w \in Worker, RunSlice(w) PROVE Inductive'
    <3> USE DEF RunSlice, Move, Batch
    <3>1. TypeOK'
      <4>1. job' \in JobRow
        BY <2>4 DEF TypeOK, JobRow, Slot, Busy, LastOf
      <4>2. queue' \in [0..MaxRetries -> 0..MaxCopies]
        BY <2>4, PublishedType DEF TypeOK, Slot
      <4>3. worker' \in [Worker -> Slot]
        BY <2>4 DEF TypeOK, JobRow, Slot, Busy, LastOf
      <4>4. poll' \in {"idle", "wake"} /\ calc' \in [Enrollment -> 0..MaxRequests]
        BY <2>4 DEF TypeOK
      <4>5. requests' \in 0..MaxRequests /\ faults' \in 0..MaxFaults
        BY <2>4 DEF TypeOK
      <4> QED BY <4>1, <4>2, <4>3, <4>4, <4>5 DEF TypeOK
    <3>2. Started'
      BY <2>4 DEF Started, TypeOK, JobRow, Slot, Busy, Published
    <3>3. RowCovered'
      BY <2>4, LastOfType DEF RowCovered, WorkersCovered, Covered, Started, TypeOK, JobRow, Slot, Busy, Enrollment
    <3>4. WorkersCovered'
      <4> DEFINE c == worker[w].cursor
      <4>1. requests > 0
        BY <2>4 DEF Started, TypeOK
      <4>2. c \in 0..N /\ Covered(c)
        BY DEF TypeOK, Slot, WorkersCovered
      <4>3. \A e \in Enrollment : (calc[e] > 0 => calc'[e] > 0) /\ (e \in Batch(c) => calc'[e] > 0)
        BY <2>4, <4>1
      <4>4. \A e \in Enrollment : e <= LastOf(c) => calc'[e] > 0
        BY <4>2, <4>3 DEF Covered, Enrollment, LastOf
      <4>5. c >= N => \A e \in Enrollment : calc'[e] > 0
        BY <4>2, <4>3 DEF Covered, Enrollment
      <4>6. ASSUME NEW v \in Worker
            PROVE  /\ worker'[v].cursor = worker[v].cursor
                   /\ \/ worker'[v] = worker[v]
                      \/ /\ worker'[v].phase = IF c >= N THEN "complete" ELSE "cursor"
                         /\ v = w
        BY <2>4 DEF TypeOK
      <4>7. ASSUME NEW v \in Worker
            PROVE  /\ Covered(worker[v].cursor)'
                   /\ worker'[v].phase = "cursor" => Covered(LastOf(worker[v].cursor))'
                   /\ worker'[v].phase = "complete" => Covered(N)'
        <5>1. CASE worker'[v] = worker[v]
          BY <4>3, <5>1 DEF WorkersCovered, Covered, LastOf
        <5>2. CASE v = w /\ worker'[v].phase = IF c >= N THEN "complete" ELSE "cursor"
          BY <4>2, <4>3, <4>4, <4>5, <4>6, <5>2 DEF Covered, LastOf
        <5> QED BY <4>6, <5>1, <5>2
      <4> QED BY <4>7 DEF WorkersCovered
    <3>5. WithinLimits'
      BY <2>4 DEF WithinLimits, TypeOK, Slot, Busy
    <3> QED BY <3>1, <3>2, <3>3, <3>4, <3>5
  <2>5. ASSUME NEW w \in Worker, UpdateCursor(w) PROVE Inductive'
    <3> USE DEF UpdateCursor
    <3>1. TypeOK'
      <4>1. job' \in JobRow
        <5>1. worker[w].cursor \in 0..N
          BY DEF TypeOK, Slot
        <5>2. LastOf(worker[w].cursor) \in 0..N
          BY <5>1, LastOfType
        <5> QED BY <2>5, <5>2 DEF TypeOK, JobRow
      <4>2. queue' \in [0..MaxRetries -> 0..MaxCopies]
        BY <2>5, PublishedType DEF TypeOK, Slot
      <4>3. worker' \in [Worker -> Slot]
        <5>1. worker[w] \in Slot /\ worker[w].cursor \in 0..N
          BY DEF TypeOK, Slot
        <5>2. LastOf(worker[w].cursor) \in 0..N
          BY <5>1, LastOfType
        <5>3. worker[w].slices + 1 \in 0..MaxBatches
          BY <2>5, <5>1 DEF WithinLimits, Slot
        <5>4. worker'[w] \in Slot
          BY <2>5, <5>1, <5>2, <5>3 DEF TypeOK, Slot, Busy
        <5>5. /\ worker' = [v \in Worker |-> worker'[v]]
              /\ \A v \in Worker : v # w => worker'[v] = worker[v]
          BY <2>5 DEF TypeOK
        <5> QED BY <5>4, <5>5 DEF TypeOK
      <4>4. poll' \in {"idle", "wake"} /\ calc' \in [Enrollment -> 0..MaxRequests]
        BY <2>5 DEF TypeOK
      <4>5. requests' \in 0..MaxRequests /\ faults' \in 0..MaxFaults
        BY <2>5 DEF TypeOK
      <4> QED BY <4>1, <4>2, <4>3, <4>4, <4>5 DEF TypeOK
    <3>2. Started'
      BY <2>5 DEF Started, TypeOK, JobRow, Slot, Busy, Published
    <3>3. RowCovered'
      BY <2>5, LastOfType DEF RowCovered, WorkersCovered, Covered, Started, TypeOK, JobRow, Slot, Busy, Enrollment
    <3>4. WorkersCovered'
      <4> DEFINE c == worker[w].cursor
      <4>1. calc' = calc
        BY <2>5
      <4>2. c \in 0..N /\ Covered(LastOf(c))
        BY <2>5 DEF TypeOK, Slot, WorkersCovered
      <4>3. ASSUME NEW v \in Worker
            PROVE  \/ worker'[v] = worker[v]
                   \/ /\ worker'[v].cursor = LastOf(c)
                      /\ worker'[v].phase # "cursor"
                      /\ worker'[v].phase = "complete" => c + BatchSize > N
        BY <2>5 DEF TypeOK
      <4>4. c + BatchSize > N => Covered(N)
        BY <4>2 DEF LastOf
      <4>5. ASSUME NEW v \in Worker
            PROVE  /\ Covered(worker[v].cursor)'
                   /\ worker'[v].phase = "cursor" => Covered(LastOf(worker[v].cursor))'
                   /\ worker'[v].phase = "complete" => Covered(N)'
        <5>1. CASE worker'[v] = worker[v]
          BY <4>1, <5>1 DEF WorkersCovered, Covered, LastOf
        <5>2. CASE worker'[v] # worker[v]
          BY <4>1, <4>2, <4>3, <4>4, <5>2 DEF Covered, LastOf
        <5> QED BY <5>1, <5>2
      <4> QED BY <4>5 DEF WorkersCovered
    <3>5. WithinLimits'
      BY <2>5 DEF WithinLimits, TypeOK, Slot, Busy
    <3> QED BY <3>1, <3>2, <3>3, <3>4, <3>5
  <2>6. ASSUME NEW w \in Worker, Complete(w) PROVE Inductive'
    <3> USE DEF Complete, Finished, Move, Ack, IdleSlot
    <3>1. TypeOK'
      <4>1. job' \in JobRow
        <5>1. Finished \in JobRow
          <6>1. [status |-> "queued", rerun |-> FALSE, cursor |-> 0] \in JobRow
            BY <2>0 DEF JobRow
          <6>2. [job EXCEPT !.status = "succeeded"] \in JobRow
            BY DEF TypeOK, JobRow
          <6> QED BY <6>1, <6>2
        <5>2. job' = Finished \/ job' = job
          BY <2>6, Zenon
        <5> QED BY <5>1, <5>2 DEF TypeOK
      <4>2. queue' \in [0..MaxRetries -> 0..MaxCopies]
        BY <2>6, PublishedType DEF TypeOK, Slot
      <4>3. worker' \in [Worker -> Slot]
        <5>1. IdleSlot \in Slot
          BY <2>0 DEF Slot, Busy
        <5>2. \/ worker' = [worker EXCEPT ![w] = IdleSlot]
              \/ worker' = [worker EXCEPT ![w].phase = "wake"]
          BY <2>6
        <5>3. [worker EXCEPT ![w].phase = "wake"] \in [Worker -> Slot]
          BY DEF TypeOK, Slot, Busy
        <5>4. [worker EXCEPT ![w] = IdleSlot] \in [Worker -> Slot]
          BY <5>1 DEF TypeOK
        <5> QED BY <5>2, <5>3, <5>4
      <4>4. poll' \in {"idle", "wake"} /\ calc' \in [Enrollment -> 0..MaxRequests]
        BY <2>6 DEF TypeOK
      <4>5. requests' \in 0..MaxRequests /\ faults' \in 0..MaxFaults
        BY <2>6 DEF TypeOK
      <4> QED BY <4>1, <4>2, <4>3, <4>4, <4>5 DEF TypeOK
    <3>2. Started'
      BY <2>6 DEF Started, TypeOK, JobRow, Slot, Busy, Published
    <3>3. RowCovered'
      BY <2>6, LastOfType DEF RowCovered, WorkersCovered, Covered, Started, TypeOK, JobRow, Slot, Busy, Enrollment
    <3>4. WorkersCovered'
      BY <2>6 DEF RowCovered, WorkersCovered, Covered, Started, TypeOK, JobRow, Slot, Busy, Enrollment, LastOf
    <3>5. WithinLimits'
      <4>1. \/ worker' = [worker EXCEPT ![w] = IdleSlot]
            \/ worker' = [worker EXCEPT ![w].phase = "wake"]
        BY <2>6
      <4>2. CASE worker' = [worker EXCEPT ![w] = IdleSlot]
        BY <4>2 DEF WithinLimits, TypeOK
      <4>3. CASE worker' = [worker EXCEPT ![w].phase = "wake"]
        BY <4>3 DEF WithinLimits, TypeOK, Slot
      <4> QED BY <4>1, <4>2, <4>3
    <3> QED BY <3>1, <3>2, <3>3, <3>4, <3>5
  <2>7. ASSUME NEW w \in Worker, YieldTurn(w) PROVE Inductive'
    <3> USE DEF YieldTurn, Move
    <3>1. TypeOK'
      <4>1. job' \in JobRow
        BY <2>7 DEF TypeOK, JobRow, Slot, Busy, LastOf
      <4>2. queue' \in [0..MaxRetries -> 0..MaxCopies]
        BY <2>7, PublishedType DEF TypeOK, Slot
      <4>3. worker' \in [Worker -> Slot]
        BY <2>7 DEF TypeOK, JobRow, Slot, Busy, LastOf
      <4>4. poll' \in {"idle", "wake"} /\ calc' \in [Enrollment -> 0..MaxRequests]
        BY <2>7 DEF TypeOK
      <4>5. requests' \in 0..MaxRequests /\ faults' \in 0..MaxFaults
        BY <2>7 DEF TypeOK
      <4> QED BY <4>1, <4>2, <4>3, <4>4, <4>5 DEF TypeOK
    <3>2. Started'
      BY <2>7 DEF Started, TypeOK, JobRow, Slot, Busy, Published
    <3>3. RowCovered'
      BY <2>7, LastOfType DEF RowCovered, WorkersCovered, Covered, Started, TypeOK, JobRow, Slot, Busy, Enrollment
    <3>4. WorkersCovered'
      BY <2>7 DEF RowCovered, WorkersCovered, Covered, Started, TypeOK, JobRow, Slot, Busy, Enrollment, LastOf
    <3>5. WithinLimits'
      BY <2>7 DEF WithinLimits, TypeOK, Slot, Busy
    <3> QED BY <3>1, <3>2, <3>3, <3>4, <3>5
  <2>8. ASSUME NEW w \in Worker, Wake(w) PROVE Inductive'
    <3> USE DEF Wake, Ack, IdleSlot
    <3>1. TypeOK'
      <4>1. job' \in JobRow
        BY <2>8 DEF TypeOK, JobRow, Slot, Busy, LastOf
      <4>2. queue' \in [0..MaxRetries -> 0..MaxCopies]
        BY <2>8, <2>q DEF TypeOK
      <4>3. worker' \in [Worker -> Slot]
        BY <2>8 DEF TypeOK, JobRow, Slot, Busy, LastOf
      <4>4. poll' \in {"idle", "wake"} /\ calc' \in [Enrollment -> 0..MaxRequests]
        BY <2>8 DEF TypeOK
      <4>5. requests' \in 0..MaxRequests /\ faults' \in 0..MaxFaults
        BY <2>8 DEF TypeOK
      <4> QED BY <4>1, <4>2, <4>3, <4>4, <4>5 DEF TypeOK
    <3>2. Started'
      BY <2>8 DEF Started, TypeOK, JobRow, Slot, Busy, Published
    <3>3. RowCovered'
      BY <2>8, LastOfType DEF RowCovered, WorkersCovered, Covered, Started, TypeOK, JobRow, Slot, Busy, Enrollment
    <3>4. WorkersCovered'
      BY <2>8 DEF RowCovered, WorkersCovered, Covered, Started, TypeOK, JobRow, Slot, Busy, Enrollment, LastOf
    <3>5. WithinLimits'
      BY <2>8 DEF WithinLimits, TypeOK, Slot, Busy
    <3> QED BY <3>1, <3>2, <3>3, <3>4, <3>5
  <2>9. ASSUME NEW w \in Worker, MarkRetryable(w) PROVE Inductive'
    <3> USE DEF MarkRetryable, Move, Fault, NoFault
    <3>1. TypeOK'
      <4>1. job' \in JobRow
        BY <2>9 DEF TypeOK, JobRow, Slot, Busy, LastOf
      <4>2. queue' \in [0..MaxRetries -> 0..MaxCopies]
        BY <2>9, PublishedType DEF TypeOK, Slot
      <4>3. worker' \in [Worker -> Slot]
        BY <2>9 DEF TypeOK, JobRow, Slot, Busy, LastOf
      <4>4. poll' \in {"idle", "wake"} /\ calc' \in [Enrollment -> 0..MaxRequests]
        BY <2>9 DEF TypeOK
      <4>5. requests' \in 0..MaxRequests /\ faults' \in 0..MaxFaults
        BY <2>9 DEF TypeOK
      <4> QED BY <4>1, <4>2, <4>3, <4>4, <4>5 DEF TypeOK
    <3>2. Started'
      BY <2>9 DEF Started, TypeOK, JobRow, Slot, Busy, Published
    <3>3. RowCovered'
      BY <2>9, LastOfType DEF RowCovered, WorkersCovered, Covered, Started, TypeOK, JobRow, Slot, Busy, Enrollment
    <3>4. WorkersCovered'
      BY <2>9 DEF RowCovered, WorkersCovered, Covered, Started, TypeOK, JobRow, Slot, Busy, Enrollment, LastOf
    <3>5. WithinLimits'
      BY <2>9 DEF WithinLimits, TypeOK, Slot, Busy
    <3> QED BY <3>1, <3>2, <3>3, <3>4, <3>5
  <2>10. ASSUME NEW w \in Worker, Republish(w) PROVE Inductive'
    <3> USE DEF Republish, Ack, IdleSlot, Fault, NoFault
    <3>1. TypeOK'
      <4>1. job' \in JobRow
        BY <2>10 DEF TypeOK, JobRow, Slot, Busy, LastOf
      <4>2. queue' \in [0..MaxRetries -> 0..MaxCopies]
        <5>1. worker[w].retries \in 0..MaxRetries /\ worker[w].retries + 1 \in 0..MaxRetries
          BY <2>10 DEF TypeOK, Slot, WithinLimits
        <5>2. /\ Published(queue, worker[w].retries) \in [0..MaxRetries -> 0..MaxCopies]
              /\ Published(queue, worker[w].retries + 1) \in [0..MaxRetries -> 0..MaxCopies]
          BY <5>1, PublishedType DEF TypeOK
        <5>3. Published(Published(queue, worker[w].retries + 1), worker[w].retries)
                \in [0..MaxRetries -> 0..MaxCopies]
          BY <5>1, <5>2, PublishedType
        <5> QED BY <2>10, <5>2, <5>3
      <4>3. worker' \in [Worker -> Slot]
        BY <2>10 DEF TypeOK, JobRow, Slot, Busy, LastOf
      <4>4. poll' \in {"idle", "wake"} /\ calc' \in [Enrollment -> 0..MaxRequests]
        BY <2>10 DEF TypeOK
      <4>5. requests' \in 0..MaxRequests /\ faults' \in 0..MaxFaults
        BY <2>10 DEF TypeOK
      <4> QED BY <4>1, <4>2, <4>3, <4>4, <4>5 DEF TypeOK
    <3>2. Started'
      BY <2>10 DEF Started, TypeOK, JobRow, Slot, Busy, Published
    <3>3. RowCovered'
      BY <2>10, LastOfType DEF RowCovered, WorkersCovered, Covered, Started, TypeOK, JobRow, Slot, Busy, Enrollment
    <3>4. WorkersCovered'
      BY <2>10 DEF RowCovered, WorkersCovered, Covered, Started, TypeOK, JobRow, Slot, Busy, Enrollment, LastOf
    <3>5. WithinLimits'
      BY <2>10 DEF WithinLimits, TypeOK, Slot, Busy
    <3> QED BY <3>1, <3>2, <3>3, <3>4, <3>5
  <2>11. ASSUME NEW w \in Worker, MarkFailed(w) PROVE Inductive'
    <3> USE DEF MarkFailed, Ack, IdleSlot, Fault, NoFault
    <3>1. TypeOK'
      <4>1. job' \in JobRow
        BY <2>11 DEF TypeOK, JobRow, Slot, Busy, LastOf
      <4>2. queue' \in [0..MaxRetries -> 0..MaxCopies]
        BY <2>11, PublishedType DEF TypeOK, Slot
      <4>3. worker' \in [Worker -> Slot]
        BY <2>11 DEF TypeOK, JobRow, Slot, Busy, LastOf
      <4>4. poll' \in {"idle", "wake"} /\ calc' \in [Enrollment -> 0..MaxRequests]
        BY <2>11 DEF TypeOK
      <4>5. requests' \in 0..MaxRequests /\ faults' \in 0..MaxFaults
        BY <2>11 DEF TypeOK
      <4> QED BY <4>1, <4>2, <4>3, <4>4, <4>5 DEF TypeOK
    <3>2. Started'
      BY <2>11 DEF Started, TypeOK, JobRow, Slot, Busy, Published
    <3>3. RowCovered'
      BY <2>11, LastOfType DEF RowCovered, WorkersCovered, Covered, Started, TypeOK, JobRow, Slot, Busy, Enrollment
    <3>4. WorkersCovered'
      BY <2>11 DEF RowCovered, WorkersCovered, Covered, Started, TypeOK, JobRow, Slot, Busy, Enrollment, LastOf
    <3>5. WithinLimits'
      BY <2>11 DEF WithinLimits, TypeOK, Slot, Busy
    <3> QED BY <3>1, <3>2, <3>3, <3>4, <3>5
  <2>12. ASSUME NEW w \in Worker, Throw(w) PROVE Inductive'
    <3> USE DEF Throw, Move, Fault
    <3>1. TypeOK'
      <4>1. job' \in JobRow
        BY <2>12 DEF TypeOK, JobRow, Slot, Busy, LastOf
      <4>2. queue' \in [0..MaxRetries -> 0..MaxCopies]
        BY <2>12, <2>q DEF TypeOK
      <4>3. worker' \in [Worker -> Slot]
        BY <2>12 DEF TypeOK, JobRow, Slot, Busy, LastOf
      <4>4. poll' \in {"idle", "wake"} /\ calc' \in [Enrollment -> 0..MaxRequests]
        BY <2>12 DEF TypeOK
      <4>5. requests' \in 0..MaxRequests /\ faults' \in 0..MaxFaults
        BY <2>12 DEF TypeOK
      <4> QED BY <4>1, <4>2, <4>3, <4>4, <4>5 DEF TypeOK
    <3>2. Started'
      BY <2>12 DEF Started, TypeOK, JobRow, Slot, Busy, Published
    <3>3. RowCovered'
      BY <2>12, LastOfType DEF RowCovered, WorkersCovered, Covered, Started, TypeOK, JobRow, Slot, Busy, Enrollment
    <3>4. WorkersCovered'
      BY <2>12 DEF RowCovered, WorkersCovered, Covered, Started, TypeOK, JobRow, Slot, Busy, Enrollment, LastOf
    <3>5. WithinLimits'
      BY <2>12 DEF WithinLimits, TypeOK, Slot, Busy
    <3> QED BY <3>1, <3>2, <3>3, <3>4, <3>5
  <2>13. ASSUME NEW w \in Worker, Crash(w) PROVE Inductive'
    <3> USE DEF Crash, Ack, IdleSlot, Fault
    <3>1. TypeOK'
      <4>1. job' \in JobRow
        BY <2>13 DEF TypeOK, JobRow, Slot, Busy, LastOf
      <4>2. queue' \in [0..MaxRetries -> 0..MaxCopies]
        BY <2>13, PublishedType DEF TypeOK, Slot
      <4>3. worker' \in [Worker -> Slot]
        BY <2>13 DEF TypeOK, JobRow, Slot, Busy, LastOf
      <4>4. poll' \in {"idle", "wake"} /\ calc' \in [Enrollment -> 0..MaxRequests]
        BY <2>13 DEF TypeOK
      <4>5. requests' \in 0..MaxRequests /\ faults' \in 0..MaxFaults
        BY <2>13 DEF TypeOK
      <4> QED BY <4>1, <4>2, <4>3, <4>4, <4>5 DEF TypeOK
    <3>2. Started'
      BY <2>13 DEF Started, TypeOK, JobRow, Slot, Busy, Published
    <3>3. RowCovered'
      BY <2>13, LastOfType DEF RowCovered, WorkersCovered, Covered, Started, TypeOK, JobRow, Slot, Busy, Enrollment
    <3>4. WorkersCovered'
      BY <2>13 DEF RowCovered, WorkersCovered, Covered, Started, TypeOK, JobRow, Slot, Busy, Enrollment, LastOf
    <3>5. WithinLimits'
      BY <2>13 DEF WithinLimits, TypeOK, Slot, Busy
    <3> QED BY <3>1, <3>2, <3>3, <3>4, <3>5
  <2>14. ASSUME PollRequeue PROVE Inductive'
    <3> USE DEF PollRequeue, RequeueStale, Owned, Fault, NoFault
    <3>1. TypeOK'
      <4>1. job' \in JobRow
        BY <2>14 DEF TypeOK, JobRow, Slot, Busy, LastOf
      <4>2. queue' \in [0..MaxRetries -> 0..MaxCopies]
        BY <2>14, PublishedType DEF TypeOK, Slot
      <4>3. worker' \in [Worker -> Slot]
        BY <2>14 DEF TypeOK, JobRow, Slot, Busy, LastOf
      <4>4. poll' \in {"idle", "wake"} /\ calc' \in [Enrollment -> 0..MaxRequests]
        BY <2>14 DEF TypeOK
      <4>5. requests' \in 0..MaxRequests /\ faults' \in 0..MaxFaults
        BY <2>14 DEF TypeOK
      <4> QED BY <4>1, <4>2, <4>3, <4>4, <4>5 DEF TypeOK
    <3>2. Started'
      BY <2>14 DEF Started, TypeOK, JobRow, Slot, Busy, Published
    <3>3. RowCovered'
      BY <2>14, LastOfType DEF RowCovered, WorkersCovered, Covered, Started, TypeOK, JobRow, Slot, Busy, Enrollment
    <3>4. WorkersCovered'
      BY <2>14 DEF RowCovered, WorkersCovered, Covered, Started, TypeOK, JobRow, Slot, Busy, Enrollment, LastOf
    <3>5. WithinLimits'
      BY <2>14 DEF WithinLimits, TypeOK, Slot, Busy
    <3> QED BY <3>1, <3>2, <3>3, <3>4, <3>5
  <2>15. ASSUME PollWake PROVE Inductive'
    <3> USE DEF PollWake, Fault, NoFault
    <3>1. TypeOK'
      <4>1. job' \in JobRow
        BY <2>15 DEF TypeOK, JobRow, Slot, Busy, LastOf
      <4>2. queue' \in [0..MaxRetries -> 0..MaxCopies]
        BY <2>15, <2>q DEF TypeOK
      <4>3. worker' \in [Worker -> Slot]
        BY <2>15 DEF TypeOK, JobRow, Slot, Busy, LastOf
      <4>4. poll' \in {"idle", "wake"} /\ calc' \in [Enrollment -> 0..MaxRequests]
        BY <2>15 DEF TypeOK
      <4>5. requests' \in 0..MaxRequests /\ faults' \in 0..MaxFaults
        BY <2>15 DEF TypeOK
      <4> QED BY <4>1, <4>2, <4>3, <4>4, <4>5 DEF TypeOK
    <3>2. Started'
      BY <2>15 DEF Started, TypeOK, JobRow, Slot, Busy, Published
    <3>3. RowCovered'
      BY <2>15, LastOfType DEF RowCovered, WorkersCovered, Covered, Started, TypeOK, JobRow, Slot, Busy, Enrollment
    <3>4. WorkersCovered'
      BY <2>15 DEF RowCovered, WorkersCovered, Covered, Started, TypeOK, JobRow, Slot, Busy, Enrollment, LastOf
    <3>5. WithinLimits'
      BY <2>15 DEF WithinLimits, TypeOK, Slot, Busy
    <3> QED BY <3>1, <3>2, <3>3, <3>4, <3>5
  <2>16. CASE UNCHANGED vars
    BY <2>16 DEF vars, TypeOK, Started, WithinLimits, RowCovered, WorkersCovered, Covered, LastOf
  <2> QED
    BY <2>1, <2>2, <2>3, <2>4, <2>5, <2>6, <2>7, <2>8, <2>9, <2>10, <2>11, <2>12, <2>13, <2>14, <2>15, <2>16 DEF Next, Step
<1> QED
  BY <1>1, <1>2, PTL DEF Spec

(* Every reachable state is well typed. *)
THEOREM TypeCorrect == Spec => []TypeOK
<1>1. Inductive => TypeOK
  BY DEF Inductive
<1> QED BY <1>1, InductiveInvariant, PTL

(* No job succeeds with an enrollment left out, however many workers,      *)
(* crashes, stalls and duplicate wake-ups move its cursor.                 *)
THEOREM NothingSkipped == Spec => []NoneSkipped
<1>1. Inductive => NoneSkipped
  BY SizeAssumption DEF Inductive, RowCovered, Covered, NoneSkipped, Enrollment
<1> QED BY <1>1, InductiveInvariant, PTL

=============================================================================
