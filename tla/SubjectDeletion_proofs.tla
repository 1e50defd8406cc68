----------------------- MODULE SubjectDeletion_proofs -----------------------
(***************************************************************************)
(* Proofs about SubjectDeletion: its type invariant, with the bound on the *)
(* attempts of a job, and its three safety invariants, for every set of    *)
(* workers, every subject and every number of faults.                      *)
(*                                                                         *)
(* Three arguments carry them.                                             *)
(*  - Attempts: every claim of a running job was paid for by a fault.      *)
(*  - Purged: which phases a worker of each kind of job can be in, and     *)
(*    what has been deleted once it is there.                              *)
(*  - Manifest: which objects are listed before each phase.  Entries are   *)
(*    only dropped by the success of the job and objects only leave the    *)
(*    bucket, so a set of objects, once listed, stays listed.              *)
(***************************************************************************)
EXTENDS SubjectDeletion, FiniteSetTheorems, DataLemmas

-----------------------------------------------------------------------------
(* The inductive invariants *)

(* A worker that cannot give up without a fault: a worker that releases    *)
(* its items met one already, and the purge of a user that is gone by now  *)
(* fails by itself.                                                        *)
Committed(w) ==
  /\ Active(w)
  /\ worker[w].phase # "release"
  /\ subject = "gone" => worker[w].phase \notin {"rows", "subject"}

(* Nothing has happened to a subject that nobody asked to delete. *)
Untouched ==
  /\ job.status = "none" /\ job.attempts = 0 /\ ~job.terminal
  /\ \A w \in Worker : worker[w].phase = "idle"

Attempts ==
  /\ subject = "active" => Untouched
  /\ job.attempts <= MaxAttempts + faults
  /\ job.status \in {"none", "queued"} => job.attempts < MaxAttempts
  /\ job.status = "failed" => job.terminal
  /\ job.status = "running" /\ job.attempts = MaxAttempts + faults =>
       job.lease # "lapsed" /\ \E w \in Worker : Committed(w)

Draining == {"claim", "remove", "mark", "release", "succeed"}

Listing == {"refs", "scan", "advance", "seal", "check", "rows", "subject"}

PhaseFits(w) ==
  /\ kind = "block" => worker[w].phase \notin Listing
  /\ kind # "block" => worker[w].phase # "block"
  /\ worker[w].phase = "feedback" => kind = "user"
  /\ kind # "user" /\ worker[w].phase \in Draining => subject = "gone"
  /\ worker[w].phase = "succeed" => subject = "gone"
  /\ worker[w].batch \cap Foreign = {}

Purged ==
  /\ subject = "gone" => rows = {}
  /\ job.status = "succeeded" => subject = "gone"
  /\ job.terminal => job.status = "failed"
  /\ \A o \in Foreign : item[o] = "none"
  /\ kind # "user" => rows \subseteq store
  /\ Foreign \subseteq store
  /\ \A w \in Worker : PhaseFits(w)

(* The objects of S that are still in the bucket are in the manifest. *)
Listed(S) == \A o \in S : o \in store => item[o] # "none"

Owned == Prefixed \ Foreign

UpTo(S, a) == {o \in S : o <= a}

(* What a user's job lists before the scan of the prefix. *)
FirstNamed == IF kind = "user" THEN Row \ Feedback ELSE Row

(* What is listed before a worker reaches its phase. *)
Manifest(w) ==
  /\ worker[w].phase = "refs" => Listed(UpTo(Row, worker[w].at))
  /\ worker[w].phase \in {"scan", "advance"} =>
       Listed(FirstNamed) /\ Listed(UpTo(Owned, worker[w].at))
  /\ worker[w].phase = "feedback" => Listed(Row \ Feedback) /\ Listed(Owned)
  /\ worker[w].phase \in Draining \cup {"seal", "check", "rows", "subject"} =>
       Listed(Row) /\ Listed(Owned)

(* What is listed according to the committed rows, for whoever comes next. *)
Saved ==
  /\ Listed(Row \ rows)
  /\ kind # "block" =>
       /\ Listed(UpTo(Owned, cursor.at))
       /\ cursor.completed => Listed(Owned)
       /\ job.manifested \/ subject = "gone" => Listed(Row) /\ Listed(Owned)

Known == Saved /\ (kind # "block" => \A w \in Worker : Manifest(w))

Removed ==
  /\ \A o \in Object : item[o] = "done" => o \notin store
  /\ \A w \in Worker : worker[w].phase = "mark" => worker[w].batch \cap store = {}

Remembered == Removed /\ (job.status # "succeeded" => Known)


-----------------------------------------------------------------------------
(* Pages *)

(* A page of a keyset pagination after a: it is empty only when nothing    *)
(* follows a, and up to its last key it leaves nothing out.                *)
LEMMA PageFacts ==
  ASSUME NEW S, S \subseteq Object, NEW a \in 0..N
  PROVE  /\ PageOf(S, a) \subseteq S
         /\ PageOf(S, a) = {} => \A o \in S : o <= a
         /\ PageOf(S, a) # {} =>
              /\ LastOf(PageOf(S, a)) \in PageOf(S, a)
              /\ \A o \in S : o <= LastOf(PageOf(S, a)) => o <= a \/ o \in PageOf(S, a)
<1> DEFINE Upto(o) == {p \in S : a < p /\ p <= o}
           P == PageOf(S, a)
<1>1. N \in Nat /\ PageSize \in Nat /\ PageSize >= 1 /\ S \subseteq Nat /\ S \subseteq 0..N /\ a \in Nat
  BY SubjectAssumption DEF Object
<1>2. IsFiniteSet(S)
  <2>1. IsFiniteSet(0..N)
    BY <1>1, FS_Interval
  <2> QED
    BY <1>1, <2>1, FS_Subset
<1>3. \A o : IsFiniteSet(Upto(o)) /\ Cardinality(Upto(o)) \in Nat
  <2>1. \A o : Upto(o) \subseteq S
    OBVIOUS
  <2> HIDE DEF Upto
  <2> QED
    BY <1>2, <2>1, FS_Subset, FS_CardinalityType
<1>4. \A o : o \in P <=> o \in S /\ o > a /\ Cardinality(Upto(o)) <= PageSize
  BY DEF PageOf
<1>5. P \subseteq S
  BY <1>4
<1>6. ASSUME P = {}, NEW o \in S
      PROVE  o <= a
  <2> SUFFICES ASSUME o > a
               PROVE  FALSE
    BY <1>1
  <2> DEFINE T == {p \in S : a < p}
  <2>1. T \subseteq Nat /\ o \in T
    BY <1>1
  <2>2. PICK m \in T : \A p \in T : m <= p
    <3> HIDE DEF T
    <3> QED
      BY <2>1, HasLeast
  <2>3. Upto(m) = {m}
    <3>1. m \in S /\ m \in Nat /\ a < m
      BY <1>1, <2>2
    <3>2. ASSUME NEW p \in S, a < p, p <= m
          PROVE  p = m
      <4>1. m <= p /\ p \in Nat
        BY <1>1, <2>2, <3>2
      <4> QED
        BY <3>1, <3>2, <4>1
    <3>3. m <= m
      BY <3>1
    <3> QED
      BY <3>1, <3>2, <3>3
  <2>4. Cardinality(Upto(m)) = 1
    BY <2>3, FS_Singleton
  <2>5. m \in P
    BY <1>1, <1>4, <2>4
  <2> QED
    BY <1>6, <2>5
<1>7. ASSUME P # {}
      PROVE  LastOf(P) \in P /\ \A o \in S : o <= LastOf(P) => o <= a \/ o \in P
  <2> HIDE DEF P
  <2>1. P \subseteq 0..N
    BY <1>1, <1>5
  <2>2. \E x \in P : \A y \in P : y <= x
    BY <1>1, <1>7, <2>1, HasGreatest
  <2>3. LastOf(P) \in P /\ \A y \in P : y <= LastOf(P)
    BY <2>2 DEF LastOf
  <2>4. ASSUME NEW o \in S, o <= LastOf(P), o > a
        PROVE  o \in P
    <3>1. o \in Nat /\ LastOf(P) \in Nat /\ LastOf(P) \in S
      BY <1>1, <1>5, <2>3
    <3>2. Upto(o) \subseteq Upto(LastOf(P))
      <4>1. ASSUME NEW p \in S, a < p, p <= o
            PROVE  p <= LastOf(P)
        BY <1>1, <2>4, <3>1, <4>1
      <4> QED
        BY <4>1
    <3>3. Cardinality(Upto(o)) <= Cardinality(Upto(LastOf(P)))
      <4> HIDE DEF Upto
      <4> QED
        BY <1>3, <3>2, FS_Subset
    <3>4. Cardinality(Upto(LastOf(P))) <= PageSize
      BY <1>4, <2>3
    <3>5. Cardinality(Upto(o)) <= PageSize
      <4> HIDE DEF Upto
      <4> QED
        BY <1>1, <1>3, <3>3, <3>4
    <3> QED
      BY <1>4, <2>4, <3>5
  <2> QED
    BY <1>1, <2>3, <2>4
<1> QED
  BY <1>5, <1>6, <1>7

-----------------------------------------------------------------------------
(* Type correctness and the attempts of a job *)

(* Every step of a worker leaves it in one of the phases of the code. *)
LEMMA PhaseTypes ==
  /\ FirstPhase \in Running /\ AfterScan \in Running /\ AfterPurge \in Running
  /\ \A k : AfterManifest(k) \in Running
BY DEF FirstPhase, AfterScan, AfterPurge, AfterManifest, Running

(* The job row is requested unmarked, unclaimed and never attempted. *)
LEMMA InitAttempts == Init => TypeOK /\ Attempts
<1> SUFFICES ASSUME Init
             PROVE  TypeOK /\ Attempts
  OBVIOUS
<1> USE SubjectAssumption, BoundAssumption
<1>1. job \in JobRow
  BY DEF Init, JobRow
<1>2. IdleSlot \in Slot
  BY DEF IdleSlot, Slot
<1>3. NoCursor \in [at : 0..N, completed : BOOLEAN]
  BY DEF NoCursor
<1> QED
  BY <1>1, <1>2, <1>3 DEF Init, TypeOK, Attempts, Untouched, IdleSlot, ItemStatus

(* Every action keeps every row within its type.  The attempts are left to *)
(* the invariant on the faults that pay for them.                          *)
LEMMA TypeStep ==
  ASSUME TypeOK, Next, job'.attempts <= MaxAttempts + faults'
  PROVE  TypeOK'
<1> USE SubjectAssumption, BoundAssumption
<1>1. /\ MaxAttempts \in Nat /\ MaxFaults \in Nat /\ MaxCopies \in Nat
      /\ faults \in 0..MaxFaults /\ wakes \in 0..MaxCopies /\ retries \in 0..MaxRetries
      /\ N \in Nat /\ MaxRetries \in Nat
  BY DEF TypeOK
<1>2. Published \in 0..MaxCopies
  BY <1>1 DEF Published
<1>3. Fault \/ NoFault => faults' \in 0..MaxFaults
  BY <1>1 DEF Fault, NoFault
<1>4. Publish => wakes' \in 0..MaxCopies /\ faults' \in 0..MaxFaults
  BY <1>1, <1>2, <1>3 DEF Publish
<1>5. IdleSlot \in Slot
  BY DEF IdleSlot, Slot
<1>6. /\ job.attempts \in Nat
      /\ job \in [status : {"none", "queued", "running", "succeeded", "failed"},
                  terminal : BOOLEAN, attempts : Nat, lease : {"none", "live", "lapsed"},
                  due : BOOLEAN, manifested : BOOLEAN]
  BY <1>1 DEF TypeOK, JobRow
<1> DEFINE Row0 == [status : {"none", "queued", "running", "succeeded", "failed"},
                    terminal : BOOLEAN, attempts : Nat, lease : {"none", "live", "lapsed"},
                    due : BOOLEAN, manifested : BOOLEAN]
<1>7. job' \in Row0 /\ faults' \in 0..MaxFaults => job' \in JobRow
  BY <1>1 DEF JobRow
<1>8. \A w \in Worker, p \in Running \cup {"idle", "failed", "exhausted"} :
        Go(w, p) => worker' \in [Worker -> Slot]
  BY DEF Go, TypeOK, Slot
<1>9. \A w \in Worker, p \in Running \cup {"idle", "failed", "exhausted"}, a \in 0..N :
        GoAt(w, p, a) => worker' \in [Worker -> Slot]
  <2> SUFFICES ASSUME NEW w \in Worker, NEW p \in Running \cup {"idle", "failed", "exhausted"},
                      NEW a \in 0..N, GoAt(w, p, a)
               PROVE  worker' \in [Worker -> Slot]
    OBVIOUS
  <2>1. [worker[w] EXCEPT !.phase = p, !.at = a] \in Slot
    BY DEF TypeOK, Slot
  <2>2. worker' = [worker EXCEPT ![w] = [worker[w] EXCEPT !.phase = p, !.at = a]]
    BY DEF GoAt, TypeOK
  <2> QED
    BY <2>1, <2>2 DEF TypeOK
<1>10. \A w \in Worker : worker' = [worker EXCEPT ![w] = IdleSlot] => worker' \in [Worker -> Slot]
  BY <1>5 DEF TypeOK
<1>11. \A w \in Worker : worker[w] \in Slot /\ worker[w].at \in 0..N /\ worker[w].batch \subseteq Object
  BY DEF TypeOK, Slot
<1>12. \A S : Registered(S) \in [Object -> ItemStatus]
  BY DEF Registered, TypeOK, ItemStatus
<1>13. \A S : \A s \in ItemStatus : Settled(S, s) \in [Object -> ItemStatus]
  BY DEF Settled, TypeOK, ItemStatus
<1>14. Retryable \in Row0
  <2>1. (job.attempts >= MaxAttempts) \in BOOLEAN
    OBVIOUS
  <2>2. (IF job.attempts >= MaxAttempts THEN "failed" ELSE "queued") \in {"queued", "failed"}
    BY Zenon
  <2> DEFINE st == IF job.attempts >= MaxAttempts THEN "failed" ELSE "queued"
             done == job.attempts >= MaxAttempts
  <2>3. Retryable = IF job.status # "running" THEN job
                    ELSE [job EXCEPT !.status = st, !.terminal = done, !.lease = "none", !.due = done]
    BY DEF Retryable
  <2> HIDE DEF st, done
  <2>4. st \in {"queued", "failed"} /\ done \in BOOLEAN
    BY <2>1, <2>2, Zenon DEF st, done
  <2> QED
    BY <1>6, <2>3, <2>4
<1>15. \A S : \A a \in 0..N : S \subseteq Object /\ PageOf(S, a) # {} => LastOf(PageOf(S, a)) \in 0..N
  <2> SUFFICES ASSUME NEW S, NEW a \in 0..N, S \subseteq Object, PageOf(S, a) # {}
               PROVE  LastOf(PageOf(S, a)) \in 0..N
    OBVIOUS
  <2>1. LastOf(PageOf(S, a)) \in S
    BY PageFacts
  <2>2. S \subseteq 1..N
    BY DEF Object
  <2>3. 1..N \subseteq 0..N
    BY <1>1
  <2> QED
    BY <2>1, <2>2, <2>3, Zenon
<1>16. NamedByRows \subseteq Object /\ Scannable \subseteq Object
  BY DEF NamedByRows, Scannable, TypeOK, Object
<1> HIDE DEF Row0
<1>17. kind' = kind
  BY DEF Next, RequestCourse, RequestUser, Enqueue, OperatorRetry, Sweep, BackoffEnds, LeaseLapses,
     ItemLapses, Deliver, Step, Touch, Throw, Crash, Stall, Resume, RegisterRefs, ScanPage,
     AdvanceCursor, RegisterFeedback, SealManifest, CheckSubject, PurgeCourse, PurgeUser, DeleteBatch,
     DeleteSubject, PurgeLeaves, ClaimItems, RemoveObjects, MarkItems, ReleaseItems, Succeed,
     RunFailed, RetriesExhausted
<1>20. CASE RequestCourse \/ RequestUser
  <2>1. job' \in Row0
    BY <1>6, <1>20 DEF RequestCourse, RequestUser, Enqueue, Row0
  <2> QED
    BY <1>4, <1>7, <1>20, <2>1 DEF RequestCourse, RequestUser, Enqueue, TypeOK
<1>21. CASE OperatorRetry
  <2>1. job' \in Row0
    BY <1>6, <1>21 DEF OperatorRetry, Row0
  <2> QED
    BY <1>1, <1>4, <1>7, <1>21, <2>1 DEF OperatorRetry, TypeOK
<1>22. CASE Sweep
  BY <1>1, <1>22 DEF Sweep, TypeOK
<1>23. CASE BackoffEnds
  BY <1>23 DEF BackoffEnds, TypeOK, JobRow
<1>24. CASE LeaseLapses
  BY <1>24 DEF LeaseLapses, TypeOK, JobRow
<1>25. ASSUME NEW o \in Object, ItemLapses(o)
       PROVE  TypeOK'
  BY <1>25 DEF ItemLapses, TypeOK, ItemStatus
<1>26. ASSUME NEW w \in Worker, Deliver(w)
       PROVE  TypeOK'
  <2>1. wakes' \in 0..MaxCopies
    BY <1>1, <1>26 DEF Deliver
  <2>2. job' \in Row0
    <3>1. job.attempts + 1 \in Nat
      BY <1>6
    <3> QED
      BY <1>6, <1>26, <3>1 DEF Deliver, Row0
  <2>3. [IdleSlot EXCEPT !.phase = FirstPhase] \in Slot
    BY <1>5, PhaseTypes DEF Slot
  <2>4. worker' \in [Worker -> Slot]
    BY <1>26, <2>3 DEF Deliver, TypeOK
  <2> QED
    BY <1>7, <1>26, <2>1, <2>2, <2>4 DEF Deliver, TypeOK
<1>27. ASSUME NEW w \in Worker, RegisterRefs(w)
       PROVE  TypeOK'
  <2>1. item' \in [Object -> ItemStatus]
    BY <1>12, <1>27 DEF RegisterRefs
  <2>2. cursor.at \in 0..N /\ AfterScan \in Running /\ "scan" \in Running /\ "refs" \in Running /\ 0 \in 0..N
    BY <1>1, PhaseTypes DEF TypeOK, Running
  <2>3. worker' \in [Worker -> Slot]
    <3> DEFINE page == IF kind = "user" THEN NamedByRows ELSE PageOf(NamedByRows, worker[w].at)
    <3>1. CASE page = {} \/ kind = "user"
      BY <1>9, <1>27, <2>2, <3>1 DEF RegisterRefs
    <3>2. CASE ~(page = {} \/ kind = "user")
      <4>1. page = PageOf(NamedByRows, worker[w].at) /\ GoAt(w, "refs", LastOf(page))
        BY <1>27, <3>2 DEF RegisterRefs
      <4>2. LastOf(page) \in 0..N
        <5> HIDE DEF page
        <5> QED
          BY <1>11, <1>15, <1>16, <3>2, <4>1
      <4> QED
        BY <1>9, <2>2, <4>1, <4>2
    <3> QED
      BY <3>1, <3>2
  <2> QED
    BY <1>27, <2>1, <2>3 DEF RegisterRefs, TypeOK
<1>28. ASSUME NEW w \in Worker, ScanPage(w)
       PROVE  TypeOK'
  <2> DEFINE page == PageOf(Scannable, worker[w].at)
  <2>1. "advance" \in Running /\ AfterScan \in Running
    BY PhaseTypes DEF Running
  <2>2. CASE page = {}
    <3>1. worker' \in [Worker -> Slot]
      BY <1>8, <1>28, <2>1, <2>2 DEF ScanPage
    <3> QED
      BY <1>28, <2>2, <3>1 DEF ScanPage, TypeOK
  <2>3. CASE page # {}
    <3>1. LastOf(page) \in 0..N
      BY <1>11, <1>15, <1>16, <2>3
    <3>2. worker' \in [Worker -> Slot]
      BY <1>9, <1>28, <2>1, <2>3, <3>1 DEF ScanPage
    <3>3. item' \in [Object -> ItemStatus]
      BY <1>12, <1>28, <2>3 DEF ScanPage
    <3> QED
      BY <1>28, <2>3, <3>2, <3>3 DEF ScanPage, TypeOK
  <2> QED
    BY <2>2, <2>3
<1>29. ASSUME NEW w \in Worker, AdvanceCursor(w)
       PROVE  TypeOK'
  <2>1. worker' \in [Worker -> Slot]
    BY <1>8, <1>29 DEF AdvanceCursor, Running
  <2> QED
    BY <1>11, <1>29, <2>1 DEF AdvanceCursor, TypeOK, ScannedTo
<1>30. ASSUME NEW w \in Worker, RegisterFeedback(w)
       PROVE  TypeOK'
  <2>1. worker' \in [Worker -> Slot]
    BY <1>8, <1>30 DEF RegisterFeedback, Running
  <2> QED
    BY <1>12, <1>30, <2>1 DEF RegisterFeedback, TypeOK
<1>31. ASSUME NEW w \in Worker, SealManifest(w)
       PROVE  TypeOK'
  <2>1. worker' \in [Worker -> Slot]
    BY <1>8, <1>31, PhaseTypes DEF SealManifest
  <2>2. job' \in JobRow
    <3>1. (job.manifested \/ job.status = "running") \in BOOLEAN
      BY Zenon
    <3> QED
      BY <1>31, <3>1 DEF SealManifest, TypeOK, JobRow
  <2> QED
    BY <1>31, <2>1, <2>2 DEF SealManifest, TypeOK
<1>32. ASSUME NEW w \in Worker, CheckSubject(w) \/ PurgeCourse(w) \/ PurgeUser(w)
       PROVE  TypeOK'
  <2>1. worker' \in [Worker -> Slot]
    <3>1. (\E p \in {AfterPurge, "rows", "subject"} : Go(w, p)) \/ worker' = worker
      BY <1>32 DEF CheckSubject, PurgeCourse, PurgeUser, DeleteBatch
    <3> QED
      BY <1>8, <3>1, PhaseTypes DEF TypeOK, Running
  <2> QED
    BY <1>32, <2>1 DEF CheckSubject, PurgeCourse, PurgeUser, DeleteBatch, TypeOK
<1>33. ASSUME NEW w \in Worker, DeleteSubject(w)
       PROVE  TypeOK'
  <2>1. worker' \in [Worker -> Slot]
    BY <1>8, <1>33, PhaseTypes DEF DeleteSubject
  <2> QED
    BY <1>33, <2>1 DEF DeleteSubject, TypeOK
<1>34. ASSUME NEW w \in Worker, PurgeLeaves(w)
       PROVE  TypeOK'
  <2>1. worker' \in [Worker -> Slot]
    BY <1>8, <1>34 DEF PurgeLeaves, TypeOK, Running
  <2>2. item' \in [Object -> ItemStatus]
    BY <1>12, <1>34 DEF PurgeLeaves, LeafItems, TypeOK
  <2> QED
    BY <1>34, <2>1, <2>2 DEF PurgeLeaves, TypeOK
<1>35. ASSUME NEW w \in Worker, ClaimItems(w)
       PROVE  TypeOK'
  <2>1. PICK batch \in SUBSET Pending :
          /\ item' = [o \in Object |-> IF o \in batch THEN "leased"
                                       ELSE IF item[o] = "lapsed" THEN "pending" ELSE item[o]]
          /\ worker' = [worker EXCEPT ![w].batch = batch, ![w].phase =
               IF batch # {} THEN "remove" ELSE IF kind = "user" THEN "check" ELSE "succeed"]
    BY <1>35 DEF ClaimItems
  <2>2. item' \in [Object -> ItemStatus]
    BY <2>1 DEF TypeOK, ItemStatus
  <2>3. batch \in SUBSET Object
    BY <2>1 DEF Pending
  <2>4. worker' \in [Worker -> Slot]
    <3> DEFINE next == IF batch # {} THEN "remove" ELSE IF kind = "user" THEN "check" ELSE "succeed"
    <3>1. next \in Running
      BY DEF Running
    <3> HIDE DEF next
    <3>2. [worker[w] EXCEPT !.batch = batch, !.phase = next] \in Slot
      BY <1>11, <2>3, <3>1 DEF Slot
    <3>3. worker' = [worker EXCEPT ![w] = [worker[w] EXCEPT !.batch = batch, !.phase = next]]
      BY <2>1 DEF next, TypeOK
    <3> QED
      BY <3>2, <3>3 DEF TypeOK
  <2> QED
    BY <1>35, <2>2, <2>4 DEF ClaimItems, TypeOK
<1>36. ASSUME NEW w \in Worker, RemoveObjects(w)
       PROVE  TypeOK'
  <2>1. worker' \in [Worker -> Slot] /\ faults' \in 0..MaxFaults
    BY <1>3, <1>8, <1>36 DEF RemoveObjects, Running
  <2>2. job' \in JobRow
    BY <1>36 DEF RemoveObjects, TypeOK
  <2> QED
    BY <1>36, <2>1, <2>2 DEF RemoveObjects, TypeOK
<1>37. ASSUME NEW w \in Worker, MarkItems(w)
       PROVE  TypeOK'
  <2>1. worker' \in [Worker -> Slot] /\ faults' \in 0..MaxFaults
    BY <1>3, <1>8, <1>37 DEF MarkItems, Running
  <2>2. item' \in [Object -> ItemStatus]
    BY <1>13, <1>37 DEF MarkItems, TypeOK, ItemStatus
  <2> QED
    BY <1>37, <2>1, <2>2 DEF MarkItems, TypeOK
<1>38. ASSUME NEW w \in Worker, ReleaseItems(w)
       PROVE  TypeOK'
  <2>1. worker' \in [Worker -> Slot] /\ faults' \in 0..MaxFaults
    BY <1>3, <1>8, <1>38 DEF ReleaseItems
  <2>2. item' \in [Object -> ItemStatus]
    BY <1>13, <1>38 DEF ReleaseItems, TypeOK, ItemStatus
  <2> QED
    BY <1>38, <2>1, <2>2 DEF ReleaseItems, TypeOK
<1>39. ASSUME NEW w \in Worker, Succeed(w)
       PROVE  TypeOK'
  <2>1. worker' \in [Worker -> Slot]
    BY <1>10, <1>39 DEF Succeed
  <2>2. job' \in JobRow
    BY <1>39 DEF Succeed, TypeOK, JobRow
  <2>3. item' \in [Object -> ItemStatus] /\ cursor' \in [at : 0..N, completed : BOOLEAN]
    BY <1>39 DEF Succeed, ItemStatus, NoCursor
  <2> QED
    BY <1>39, <2>1, <2>2, <2>3 DEF Succeed, TypeOK
<1>40. ASSUME NEW w \in Worker, RunFailed(w)
       PROVE  TypeOK'
  <2>1. worker' \in [Worker -> Slot] /\ faults' \in 0..MaxFaults /\ wakes' \in 0..MaxCopies
    <3>1. worker' \in [Worker -> Slot]
      BY <1>8, <1>10, <1>40 DEF RunFailed
    <3>2. faults' \in 0..MaxFaults /\ wakes' \in 0..MaxCopies
      BY <1>1, <1>2, <1>3, <1>40 DEF RunFailed
    <3> QED
      BY <3>1, <3>2
  <2>2. job' \in Row0
    BY <1>6, <1>14, <1>40 DEF RunFailed, Row0
  <2> QED
    BY <1>7, <1>40, <2>1, <2>2 DEF RunFailed, TypeOK
<1>41. ASSUME NEW w \in Worker, RetriesExhausted(w)
       PROVE  TypeOK'
  <2>1. worker' \in [Worker -> Slot] /\ faults' \in 0..MaxFaults
    BY <1>3, <1>10, <1>41 DEF RetriesExhausted
  <2>2. job' \in Row0
    BY <1>6, <1>14, <1>41 DEF RetriesExhausted, Row0
  <2> QED
    BY <1>7, <1>41, <2>1, <2>2 DEF RetriesExhausted, TypeOK
<1>42. ASSUME NEW w \in Worker, Touch(w)
       PROVE  TypeOK'
  <2>1. job' \in JobRow
    BY <1>42 DEF Touch, TypeOK, JobRow
  <2> QED
    BY <1>42, <2>1 DEF Touch, TypeOK
<1>43. ASSUME NEW w \in Worker, Throw(w)
       PROVE  TypeOK'
  <2>1. worker' \in [Worker -> Slot] /\ faults' \in 0..MaxFaults
    BY <1>3, <1>8, <1>43 DEF Throw
  <2> QED
    BY <1>43, <2>1 DEF Throw, TypeOK
<1>44. ASSUME NEW w \in Worker, Crash(w)
       PROVE  TypeOK'
  <2>1. worker' \in [Worker -> Slot] /\ faults' \in 0..MaxFaults
    BY <1>3, <1>10, <1>44 DEF Crash
  <2> QED
    BY <1>2, <1>44, <2>1 DEF Crash, TypeOK
<1>45. ASSUME NEW w \in Worker, Stall(w) \/ Resume(w)
       PROVE  TypeOK'
  <2>1. faults' \in 0..MaxFaults
    BY <1>1, <1>3, <1>45 DEF Stall, Resume
  <2>2. worker' \in [Worker -> Slot]
    <3>1. CASE Stall(w)
      BY <3>1 DEF Stall, TypeOK, Slot
    <3>2. CASE Resume(w)
      BY <3>2 DEF Resume, TypeOK, Slot
    <3> QED
      BY <1>45, <3>1, <3>2
  <2> QED
    BY <1>45, <2>1, <2>2 DEF Stall, Resume, TypeOK
<1> QED
  BY <1>20, <1>21, <1>22, <1>23, <1>24, <1>25, <1>26, <1>27, <1>28, <1>29, <1>30, <1>31, <1>32,
     <1>33, <1>34, <1>35, <1>36, <1>37, <1>38, <1>39, <1>40, <1>41, <1>42, <1>43, <1>44, <1>45
  DEF Next, Step

(* A step that meets a fault pays for one more claim of a running job. *)
LEMMA FaultPays ==
  ASSUME TypeOK, Attempts, faults' = faults + 1, job' = job,
         subject' = "active" => Untouched'
  PROVE  Attempts'
<1>1. job.attempts \in Nat /\ faults \in Nat /\ MaxAttempts \in Nat
  BY SubjectAssumption, BoundAssumption DEF TypeOK, JobRow
<1> QED
  BY <1>1 DEF Attempts

(* A step that leaves the job and the faults alone hands the run on from   *)
(* one worker to another.                                                  *)
LEMMA RunGoesOn ==
  ASSUME TypeOK, Attempts, faults' = faults, job' = job,
         subject' = "active" => Untouched',
         (\E w \in Worker : Committed(w)) => \E w \in Worker : Committed(w)'
  PROVE  Attempts'
<1>1. job.attempts \in Nat /\ faults \in Nat /\ MaxAttempts \in Nat
  BY SubjectAssumption, BoundAssumption DEF TypeOK, JobRow
<1> QED
  BY <1>1 DEF Attempts

(* Every claim of a running job was paid for by a fault: its lease lapses  *)
(* only when no worker is active, and a worker gives up by a fault only.   *)
LEMMA AttemptsStep ==
  ASSUME TypeOK, Attempts, Next
  PROVE  Attempts'
<1> DEFINE Kept(w) == \A u \in Worker \ {w} : worker'[u] = worker[u]
<1>1. job.attempts \in Nat /\ faults \in Nat /\ MaxAttempts \in Nat /\ MaxAttempts >= 1
  BY SubjectAssumption, BoundAssumption DEF TypeOK, JobRow
<1>2. ASSUME NEW w \in Worker, NEW p, Go(w, p)
      PROVE  Kept(w) /\ worker'[w].phase = p /\ worker'[w].stalled = worker[w].stalled
  BY <1>2 DEF Go, TypeOK, Slot
<1>3. ASSUME NEW w \in Worker, NEW p, NEW a, GoAt(w, p, a)
      PROVE  Kept(w) /\ worker'[w].phase = p /\ worker'[w].stalled = worker[w].stalled
  BY <1>3 DEF GoAt, TypeOK, Slot
<1>4. ASSUME NEW w \in Worker, worker' = [worker EXCEPT ![w] = IdleSlot]
      PROVE  Kept(w) /\ worker'[w].phase = "idle"
  BY <1>4 DEF IdleSlot, TypeOK
<1>5. ASSUME NEW w \in Worker, worker[w].phase # "idle"
      PROVE  subject # "active"
  BY <1>5 DEF Attempts, Untouched
<1>6. ASSUME NEW w \in Worker, Active(w)
      PROVE  subject # "active"
  BY <1>5, <1>6 DEF Active, Running
(* a worker that goes on with the job *)
<1>7. ASSUME NEW w \in Worker, Kept(w), Active(w), job' = job, faults' = faults,
             worker'[w].phase \in Running \ {"release", "rows", "subject"},
             worker'[w].stalled = worker[w].stalled,
             subject' \in {subject, "gone"}
      PROVE  Attempts'
  <2>1. Committed(w)'
    BY <1>7 DEF Committed, Active
  <2> QED
    BY <1>6, <1>7, <2>1, RunGoesOn
<1>8. ASSUME NEW w \in Worker, Kept(w), job' = job, faults' = faults, subject' = subject,
             subject # "active" \/ worker'[w].phase = "idle", ~Committed(w)
      PROVE  Attempts'
  <2>1. ASSUME NEW u \in Worker, Committed(u)
        PROVE  Committed(u)'
    BY <1>8, <2>1 DEF Committed, Active
  <2>2. subject' = "active" => Untouched'
    BY <1>8 DEF Attempts, Untouched
  <2> QED
    BY <1>8, <2>1, <2>2, RunGoesOn
<1>20. CASE RequestCourse \/ RequestUser
  <2>1. job.attempts = 0 /\ job'.status = "queued" /\ job'.attempts = 0 /\ subject' = "requested"
    BY <1>20 DEF RequestCourse, RequestUser, Enqueue, Attempts, Untouched, TypeOK, JobRow
  <2>2. faults' = faults \/ faults' = faults + 1
    BY <1>1, <1>20 DEF RequestCourse, RequestUser, Enqueue, Publish, Fault, NoFault
  <2>3. 0 <= MaxAttempts + faults' /\ 0 < MaxAttempts
    BY <1>1, <2>2
  <2> QED
    BY <2>1, <2>3 DEF Attempts
<1>21. CASE OperatorRetry
  <2>1. job'.status = "queued" /\ job'.attempts = 0 /\ subject' = subject /\ subject # "active"
    BY <1>21 DEF OperatorRetry, Attempts, Untouched, TypeOK, JobRow
  <2>2. faults' = faults \/ faults' = faults + 1
    BY <1>1, <1>21 DEF OperatorRetry, Publish, Fault, NoFault
  <2>3. 0 <= MaxAttempts + faults' /\ 0 < MaxAttempts
    BY <1>1, <2>2
  <2> QED
    BY <2>1, <2>3 DEF Attempts
<1>22. CASE Sweep \/ \E o \in Object : ItemLapses(o)
  <2>1. job' = job /\ faults' = faults /\ subject' = subject /\ worker' = worker
    BY <1>22 DEF Sweep, ItemLapses
  <2> QED
    BY <2>1 DEF Attempts, Untouched, Committed, Active
<1>23. CASE BackoffEnds
  <2>1. job'.status = job.status /\ job'.attempts = job.attempts /\ job'.lease = job.lease /\ job'.terminal = job.terminal
    BY <1>23 DEF BackoffEnds, TypeOK, JobRow
  <2> QED
    BY <1>23, <2>1 DEF BackoffEnds, Attempts, Untouched, Committed, Active
<1>24. CASE LeaseLapses
  <2>1. job'.status = job.status /\ job'.attempts = job.attempts /\ job'.terminal = job.terminal
    BY <1>24 DEF LeaseLapses, TypeOK, JobRow
  <2>2. \A w \in Worker : ~Committed(w)
    BY <1>24 DEF LeaseLapses, Committed
  <2> QED
    BY <1>24, <2>1, <2>2 DEF LeaseLapses, Attempts, Untouched
<1>26. ASSUME NEW w \in Worker, Deliver(w)
       PROVE  Attempts'
  <2>1. faults' = faults /\ subject' = subject
    BY <1>26 DEF Deliver
  <2>2. CASE ~Runnable
    BY <1>26, <2>1, <2>2 DEF Deliver, Attempts, Untouched, Committed, Active
  <2>3. CASE Runnable
    <3>1. /\ job'.status = "running" /\ job'.attempts = job.attempts + 1 /\ job'.lease = "live"
          /\ job'.terminal = job.terminal
      BY <1>26, <2>3 DEF Deliver, TypeOK, JobRow
    <3>2. job.attempts < MaxAttempts + faults
      BY <1>1, <2>3 DEF Runnable, Attempts
    <3>3. subject # "active"
      BY <2>3 DEF Attempts, Untouched, Runnable
    <3>4. worker'[w].phase = FirstPhase /\ worker'[w].stalled = FALSE
      BY <1>26, <2>3 DEF Deliver, IdleSlot, TypeOK
    <3>5. FirstPhase \in Running \ {"release", "rows", "subject"}
      BY DEF FirstPhase, AfterManifest, Running
    <3>6. Committed(w)'
      BY <3>4, <3>5 DEF Committed, Active
    <3> QED
      BY <1>1, <2>1, <3>1, <3>2, <3>3, <3>6 DEF Attempts
  <2> QED
    BY <2>2, <2>3
<1>27. ASSUME NEW w \in Worker, RegisterRefs(w)
       PROVE  Attempts'
  <2>1. Kept(w) /\ worker'[w].phase \in {AfterScan, "scan", "refs"} /\ worker'[w].stalled = worker[w].stalled
    <3>1. \E p \in {AfterScan, "scan", "refs"} : \E a : GoAt(w, p, a)
      BY <1>27 DEF RegisterRefs
    <3> QED
      BY <1>3, <3>1
  <2> QED
    BY <1>7, <1>27, <2>1 DEF RegisterRefs, AfterScan, Running
<1>28. ASSUME NEW w \in Worker, ScanPage(w)
       PROVE  Attempts'
  <2>1. Kept(w) /\ worker'[w].phase \in {AfterScan, "advance"} /\ worker'[w].stalled = worker[w].stalled
    BY <1>2, <1>3, <1>28 DEF ScanPage
  <2> QED
    BY <1>7, <1>28, <2>1 DEF ScanPage, AfterScan, Running
<1>29. ASSUME NEW w \in Worker, AdvanceCursor(w) \/ RegisterFeedback(w)
       PROVE  Attempts'
  <2>1. Kept(w) /\ worker'[w].phase \in {"scan", "seal"} /\ worker'[w].stalled = worker[w].stalled
    BY <1>2, <1>29 DEF AdvanceCursor, RegisterFeedback
  <2> QED
    BY <1>7, <1>29, <2>1 DEF AdvanceCursor, RegisterFeedback, Running
<1>31. ASSUME NEW w \in Worker, SealManifest(w)
       PROVE  Attempts'
  <2>1. Kept(w) /\ worker'[w].phase = AfterManifest(kind) /\ worker'[w].stalled = worker[w].stalled
    BY <1>2, <1>31 DEF SealManifest
  <2>2. Committed(w)'
    BY <1>31, <2>1 DEF SealManifest, Committed, Active, AfterManifest, Running
  <2>3. /\ job'.status = job.status /\ job'.attempts = job.attempts /\ job'.terminal = job.terminal
        /\ job'.lease = job.lease /\ faults' = faults /\ subject' = subject
    BY <1>31 DEF SealManifest, TypeOK, JobRow
  <2>4. subject # "active"
    BY <1>6, <1>31 DEF SealManifest
  <2> QED
    BY <2>2, <2>3, <2>4 DEF Attempts
<1>32. ASSUME NEW w \in Worker, CheckSubject(w) \/ PurgeCourse(w) \/ PurgeUser(w)
       PROVE  Attempts'
  <2>1. job' = job /\ faults' = faults /\ subject' = subject /\ subject # "active"
    BY <1>6, <1>32 DEF CheckSubject, PurgeCourse, PurgeUser, DeleteBatch
  <2>2. CASE worker[w].phase = "rows" /\ subject = "gone"
    <3>1. Kept(w)
      BY <1>2, <1>32, <2>2 DEF CheckSubject, PurgeCourse, PurgeUser, DeleteBatch
    <3>2. ~Committed(w)
      BY <2>2 DEF Committed
    <3> QED
      BY <1>8, <2>1, <3>1, <3>2
  <2>3. CASE ~(worker[w].phase = "rows" /\ subject = "gone")
    <3>1. /\ worker'[w].stalled = worker[w].stalled
          /\ \/ worker'[w].phase = AfterPurge
             \/ worker'[w].phase \in {"rows", "subject"} /\ subject # "gone"
      BY <1>2, <1>32, <2>3 DEF CheckSubject, PurgeCourse, PurgeUser, DeleteBatch
    <3>2. Active(w)
      BY <1>32 DEF CheckSubject, PurgeCourse, PurgeUser, DeleteBatch
    <3>3. Committed(w)'
      BY <2>1, <3>1, <3>2 DEF Committed, Active, AfterPurge, Running
    <3> QED
      BY <2>1, <3>3, RunGoesOn
  <2> QED
    BY <2>2, <2>3
<1>33. ASSUME NEW w \in Worker, DeleteSubject(w)
       PROVE  Attempts'
  <2>1. CASE kind = "user" /\ subject = "gone"
    <3>1. Kept(w) /\ job' = job /\ faults' = faults /\ subject' = subject
      BY <1>2, <1>33, <2>1 DEF DeleteSubject
    <3>2. ~Committed(w)
      BY <1>33, <2>1 DEF DeleteSubject, Committed
    <3> QED
      BY <1>8, <2>1, <3>1, <3>2
  <2>2. CASE ~(kind = "user" /\ subject = "gone")
    <3>1. Kept(w) /\ worker'[w].phase = AfterPurge /\ worker'[w].stalled = worker[w].stalled
      BY <1>2, <1>33, <2>2 DEF DeleteSubject
    <3> QED
      BY <1>7, <1>33, <3>1 DEF DeleteSubject, AfterPurge, Running
  <2> QED
    BY <2>1, <2>2
<1>34. ASSUME NEW w \in Worker, PurgeLeaves(w)
       PROVE  Attempts'
  <2>1. Kept(w) /\ worker'[w].phase \in {"claim", "block"} /\ worker'[w].stalled = worker[w].stalled
    BY <1>2, <1>34 DEF PurgeLeaves
  <2> QED
    BY <1>7, <1>34, <2>1 DEF PurgeLeaves, Running
<1>35. ASSUME NEW w \in Worker, ClaimItems(w)
       PROVE  Attempts'
  <2>1. Kept(w) /\ worker'[w].phase \in {"remove", "check", "succeed"} /\ worker'[w].stalled = worker[w].stalled
    BY <1>35 DEF ClaimItems, TypeOK, Slot
  <2> QED
    BY <1>7, <1>35, <2>1 DEF ClaimItems, Running
<1>36. ASSUME NEW w \in Worker, RemoveObjects(w) \/ MarkItems(w)
       PROVE  Attempts'
  <2>1. CASE Fault
    BY <1>6, <1>36, <2>1, FaultPays DEF RemoveObjects, MarkItems, Fault
  <2>2. CASE NoFault /\ (Go(w, "mark") \/ Go(w, "claim"))
    <3>1. Kept(w) /\ worker'[w].phase \in {"mark", "claim"} /\ worker'[w].stalled = worker[w].stalled
      BY <1>2, <2>2
    <3> QED
      BY <1>7, <1>36, <2>2, <3>1 DEF RemoveObjects, MarkItems, NoFault, Running
  <2> QED
    BY <1>36, <2>1, <2>2 DEF RemoveObjects, MarkItems
<1>38. ASSUME NEW w \in Worker, ReleaseItems(w)
       PROVE  Attempts'
  <2>1. CASE Fault
    BY <1>6, <1>38, <2>1, FaultPays DEF ReleaseItems, Fault
  <2>2. CASE NoFault
    <3>1. Kept(w) /\ ~Committed(w)
      BY <1>2, <1>38 DEF ReleaseItems, Committed
    <3> QED
      BY <1>6, <1>8, <1>38, <2>2, <3>1 DEF ReleaseItems, NoFault
  <2> QED
    BY <1>38, <2>1, <2>2 DEF ReleaseItems
<1>39. ASSUME NEW w \in Worker, Succeed(w)
       PROVE  Attempts'
  <2>1. job'.status = "succeeded" /\ job'.attempts = job.attempts
    BY <1>39 DEF Succeed, TypeOK, JobRow
  <2> QED
    BY <1>6, <1>39, <2>1 DEF Succeed, Attempts
<1>40. ASSUME NEW w \in Worker, RunFailed(w) \/ RetriesExhausted(w)
       PROVE  Attempts'
  <2>1. subject # "active" /\ subject' = subject
    BY <1>5, <1>40 DEF RunFailed, RetriesExhausted
  <2>2. CASE Fault /\ job' = job
    BY <2>1, <2>2, FaultPays DEF Fault
  <2>3. CASE NoFault /\ job' = Retryable
    <3>1. CASE job.status = "running"
      <4>1. job'.attempts = job.attempts
        BY <2>3, <3>1 DEF Retryable, TypeOK, JobRow
      <4>2. CASE job.attempts >= MaxAttempts
        <5>1. job'.status = "failed" /\ job'.terminal
          BY <2>3, <3>1, <4>2 DEF Retryable, TypeOK, JobRow
        <5> QED
          BY <2>1, <2>3, <4>1, <5>1 DEF Attempts, NoFault
      <4>3. CASE job.attempts < MaxAttempts
        <5>1. job'.status = "queued"
          BY <1>1, <2>3, <3>1, <4>3 DEF Retryable, TypeOK, JobRow
        <5> QED
          BY <2>1, <2>3, <4>1, <4>3, <5>1 DEF Attempts, NoFault
      <4> QED
        BY <1>1, <4>2, <4>3
    <3>2. CASE job.status # "running"
      BY <2>1, <2>3, <3>2 DEF Retryable, Attempts, NoFault
    <3> QED
      BY <3>1, <3>2
  <2> QED
    BY <1>40, <2>2, <2>3 DEF RunFailed, RetriesExhausted
<1>42. ASSUME NEW w \in Worker, Touch(w)
       PROVE  Attempts'
  <2>1. job'.status = job.status /\ job'.attempts = job.attempts /\ job'.terminal = job.terminal
    BY <1>42 DEF Touch, TypeOK, JobRow
  <2>2. job.attempts # MaxAttempts + faults
    BY <1>42 DEF Touch, Attempts
  <2> QED
    BY <1>6, <1>42, <2>1, <2>2 DEF Touch, Attempts
<1>43. ASSUME NEW w \in Worker, Throw(w) \/ Crash(w) \/ Stall(w)
       PROVE  Attempts'
  BY <1>5, <1>6, <1>43, FaultPays DEF Throw, Crash, Stall, Fault
<1>44. ASSUME NEW w \in Worker, Resume(w)
       PROVE  Attempts'
  <2>1. Kept(w) /\ worker'[w].phase = worker[w].phase
    BY <1>44 DEF Resume, TypeOK, Slot
  <2>2. ~Committed(w)
    BY <1>44 DEF Resume, Committed, Active
  <2> QED
    BY <1>5, <1>8, <1>44, <2>1, <2>2 DEF Resume
<1> QED
  BY <1>20, <1>21, <1>22, <1>23, <1>24, <1>26, <1>27, <1>28, <1>29, <1>31, <1>32,
     <1>33, <1>34, <1>35, <1>36, <1>38, <1>39, <1>40, <1>42, <1>43, <1>44
  DEF Next, Step

(* Type correctness: every row, entry, cursor and counter stays within its *)
(* type; a job is attempted MaxAttempts times and once more for each fault *)
(* that cost a worker its lease, at most.                                  *)
THEOREM TypeCorrect == Spec => []TypeOK
<1>1. TypeOK /\ Attempts /\ [Next]_vars => (TypeOK /\ Attempts)'
  <2> SUFFICES ASSUME TypeOK, Attempts, [Next]_vars
               PROVE  (TypeOK /\ Attempts)'
    OBVIOUS
  <2>1. CASE Next
    <3>1. Attempts'
      BY <2>1, AttemptsStep
    <3>2. job'.attempts <= MaxAttempts + faults'
      BY <3>1 DEF Attempts
    <3> QED
      BY <2>1, <3>1, <3>2, TypeStep
  <2>2. CASE UNCHANGED vars
    BY <2>2 DEF vars, TypeOK, Attempts, Untouched, Committed, Active
  <2> QED
    BY <2>1, <2>2
<1> QED
  BY <1>1, InitAttempts, PTL DEF Spec

-----------------------------------------------------------------------------
(* What is gone once a worker has got so far *)

(* No worker runs yet and nothing is gone. *)
LEMMA InitPurged == Init => Purged
<1> SUFFICES ASSUME Init
             PROVE  Purged
  OBVIOUS
<1>1. \A w \in Worker : PhaseFits(w)
  BY DEF Init, PhaseFits, IdleSlot, Listing, Draining
<1>2. rows \subseteq store /\ Foreign \subseteq store /\ Foreign \subseteq Object
  BY SubjectAssumption DEF Init, Object
<1> QED
  BY <1>1, <1>2 DEF Init, Purged

(* A step of one worker leaves the others where they fit. *)
LEMMA PhaseFitsKept ==
  ASSUME Purged, NEW w \in Worker, \A u \in Worker \ {w} : worker'[u] = worker[u],
         kind' = kind, subject = "gone" => subject' = "gone", PhaseFits(w)'
  PROVE  \A u \in Worker : PhaseFits(u)'
<1> SUFFICES ASSUME NEW u \in Worker, u # w
             PROVE  PhaseFits(u)'
  OBVIOUS
<1>1. PhaseFits(u) /\ worker'[u] = worker[u]
  BY DEF Purged
<1> QED
  BY <1>1 DEF PhaseFits

(* The rows of a course or a block go before its objects, the subject goes *)
(* with the last row, and an object of another course is never listed.     *)
LEMMA PurgedStep ==
  ASSUME TypeOK, Attempts, Purged, Next
  PROVE  Purged'
<1> DEFINE Kept(w) == \A u \in Worker \ {w} : worker'[u] = worker[u]
<1> USE DEF Listing, Draining
<1>1. /\ subject = "gone" => rows = {}
      /\ job.status = "succeeded" => subject = "gone"
      /\ job.terminal => job.status = "failed"
      /\ \A o \in Foreign : item[o] = "none"
      /\ kind # "user" => rows \subseteq store
      /\ Foreign \subseteq store
      /\ \A w \in Worker : PhaseFits(w)
  BY DEF Purged
<1>2. /\ rows \subseteq Row /\ Foreign \cap Row = {} /\ Foreign \subseteq Object
      /\ kind \in {"course", "block", "user"}
  BY SubjectAssumption DEF TypeOK, Object
<1>3. ASSUME NEW w \in Worker, NEW p, Go(w, p)
      PROVE  Kept(w) /\ worker'[w].phase = p /\ worker'[w].batch = worker[w].batch
  BY <1>3 DEF Go, TypeOK, Slot
<1>4. ASSUME NEW w \in Worker, NEW p, NEW a, GoAt(w, p, a)
      PROVE  Kept(w) /\ worker'[w].phase = p /\ worker'[w].batch = worker[w].batch
  BY <1>4 DEF GoAt, TypeOK, Slot
<1>5. ASSUME NEW w \in Worker, worker' = [worker EXCEPT ![w] = IdleSlot]
      PROVE  Kept(w) /\ PhaseFits(w)'
  <2>1. Kept(w) /\ worker'[w].phase = "idle" /\ worker'[w].batch = {}
    BY <1>5 DEF IdleSlot, TypeOK
  <2> QED
    BY <2>1 DEF PhaseFits
<1>6. ASSUME NEW S, S \cap Foreign = {}, item' = Registered(S)
      PROVE  \A o \in Foreign : item'[o] = "none"
  BY <1>1, <1>2, <1>6 DEF Registered
<1>7. ASSUME NEW S, NEW s, S \cap Foreign = {}, item' = Settled(S, s)
      PROVE  \A o \in Foreign : item'[o] = "none"
  BY <1>1, <1>2, <1>7 DEF Settled
<1>8. ASSUME NEW w \in Worker, NEW p \in {"failed", "exhausted"}, Go(w, p)
      PROVE  Kept(w) /\ (kind' = kind => PhaseFits(w)')
  <2>1. Kept(w) /\ worker'[w].phase = p /\ worker'[w].batch = worker[w].batch
    BY <1>3, <1>8
  <2> QED
    BY <1>1, <2>1 DEF PhaseFits
<1>9. /\ NamedByRows \cap Foreign = {} /\ Scannable \cap Foreign = {}
      /\ \A S : \A a : S \cap Foreign = {} => PageOf(S, a) \cap Foreign = {}
  BY <1>2 DEF NamedByRows, Scannable, PageOf
<1>20. CASE RequestCourse \/ RequestUser
  <2>1. /\ subject' = "requested" /\ subject = "active" /\ job'.status = "queued"
        /\ job'.terminal = job.terminal /\ ~job.terminal
    BY <1>20 DEF RequestCourse, RequestUser, Enqueue, Attempts, Untouched, TypeOK, JobRow
  <2>2. UNCHANGED <<kind, rows, store, item, worker>>
    BY <1>20 DEF RequestCourse, RequestUser, Enqueue
  <2>3. \A w \in Worker : PhaseFits(w)'
    BY <1>1, <2>1, <2>2 DEF PhaseFits
  <2> QED
    BY <1>1, <2>1, <2>2, <2>3 DEF Purged
<1>21. CASE OperatorRetry \/ Sweep \/ BackoffEnds \/ LeaseLapses \/ \E w \in Worker : Touch(w)
  <2>1. UNCHANGED <<kind, subject, rows, store, item, worker>>
    BY <1>21 DEF OperatorRetry, Sweep, BackoffEnds, LeaseLapses, Touch
  <2>2. /\ job'.status = "succeeded" => job.status = "succeeded"
        /\ job'.terminal => job'.status = "failed"
    BY <1>1, <1>21 DEF OperatorRetry, Sweep, BackoffEnds, LeaseLapses, Touch, TypeOK, JobRow
  <2> QED
    BY <1>1, <2>1, <2>2 DEF Purged, PhaseFits
<1>25. ASSUME NEW o \in Object, ItemLapses(o)
       PROVE  Purged'
  <2>1. \A p \in Foreign : item'[p] = "none"
    BY <1>1, <1>2, <1>25 DEF ItemLapses, TypeOK
  <2> QED
    BY <1>1, <1>25, <2>1 DEF ItemLapses, Purged, PhaseFits
<1>26. ASSUME NEW w \in Worker, Deliver(w)
       PROVE  Purged'
  <2>1. UNCHANGED <<kind, subject, rows, store, item>>
    BY <1>26 DEF Deliver
  <2>2. CASE ~Runnable
    <3>1. job' = job /\ worker' = worker
      BY <1>26, <2>2 DEF Deliver
    <3> QED
      BY <1>1, <2>1, <3>1 DEF Purged, PhaseFits
  <2>3. CASE Runnable
    <3>1. job'.status = "running" /\ ~job'.terminal
      BY <1>26, <2>3 DEF Deliver, Runnable, TypeOK, JobRow
    <3>2. Kept(w) /\ worker'[w].phase = FirstPhase /\ worker'[w].batch = {}
      BY <1>26, <2>3 DEF Deliver, IdleSlot, TypeOK
    <3>3. PhaseFits(w)'
      BY <1>2, <2>1, <3>2 DEF PhaseFits, FirstPhase, AfterManifest
    <3> QED
      BY <1>1, <2>1, <3>1, <3>2, <3>3, PhaseFitsKept DEF Purged
  <2> QED
    BY <2>2, <2>3
<1>27. ASSUME NEW w \in Worker, RegisterRefs(w)
       PROVE  Purged'
  <2>1. UNCHANGED <<kind, job, subject, rows, store>>
    BY <1>27 DEF RegisterRefs
  <2>2. Kept(w) /\ worker'[w].phase \in {AfterScan, "scan", "refs"} /\ worker'[w].batch = worker[w].batch
    <3>1. \E p \in {AfterScan, "scan", "refs"} : \E a : GoAt(w, p, a)
      BY <1>27 DEF RegisterRefs
    <3> QED
      BY <1>4, <3>1
  <2>3. PhaseFits(w)'
    BY <1>1, <1>2, <1>27, <2>1, <2>2 DEF RegisterRefs, PhaseFits, AfterScan
  <2>4. \A o \in Foreign : item'[o] = "none"
    BY <1>6, <1>9, <1>27 DEF RegisterRefs
  <2> QED
    BY <1>1, <2>1, <2>2, <2>3, <2>4, PhaseFitsKept DEF Purged
<1>28. ASSUME NEW w \in Worker, ScanPage(w)
       PROVE  Purged'
  <2>1. UNCHANGED <<kind, job, subject, rows, store>>
    BY <1>28 DEF ScanPage
  <2>2. Kept(w) /\ worker'[w].phase \in {AfterScan, "advance"} /\ worker'[w].batch = worker[w].batch
    BY <1>3, <1>4, <1>28 DEF ScanPage
  <2>3. PhaseFits(w)'
    BY <1>1, <1>2, <1>28, <2>1, <2>2 DEF ScanPage, PhaseFits, AfterScan
  <2>4. \A o \in Foreign : item'[o] = "none"
    BY <1>1, <1>6, <1>9, <1>28 DEF ScanPage
  <2> QED
    BY <1>1, <2>1, <2>2, <2>3, <2>4, PhaseFitsKept DEF Purged
<1>29. ASSUME NEW w \in Worker, AdvanceCursor(w)
       PROVE  Purged'
  <2>1. UNCHANGED <<kind, job, subject, rows, store, item>>
    BY <1>29 DEF AdvanceCursor
  <2>2. Kept(w) /\ worker'[w].phase = "scan" /\ worker'[w].batch = worker[w].batch
    BY <1>3, <1>29 DEF AdvanceCursor
  <2>3. PhaseFits(w)'
    BY <1>1, <1>2, <1>29, <2>1, <2>2 DEF AdvanceCursor, PhaseFits
  <2> QED
    BY <1>1, <2>1, <2>2, <2>3, PhaseFitsKept DEF Purged
<1>30. ASSUME NEW w \in Worker, RegisterFeedback(w)
       PROVE  Purged'
  <2>1. UNCHANGED <<kind, job, subject, rows, store>>
    BY <1>30 DEF RegisterFeedback
  <2>2. Kept(w) /\ worker'[w].phase = "seal" /\ worker'[w].batch = worker[w].batch
    BY <1>3, <1>30 DEF RegisterFeedback
  <2>3. PhaseFits(w)'
    BY <1>1, <1>2, <1>30, <2>1, <2>2 DEF RegisterFeedback, PhaseFits
  <2>4. \A o \in Foreign : item'[o] = "none"
    BY <1>2, <1>6, <1>30 DEF RegisterFeedback
  <2> QED
    BY <1>1, <2>1, <2>2, <2>3, <2>4, PhaseFitsKept DEF Purged
<1>31. ASSUME NEW w \in Worker, SealManifest(w)
       PROVE  Purged'
  <2>1. UNCHANGED <<kind, subject, rows, store, item>>
    BY <1>31 DEF SealManifest
  <2>2. Kept(w) /\ worker'[w].phase = AfterManifest(kind) /\ worker'[w].batch = worker[w].batch
    BY <1>3, <1>31 DEF SealManifest
  <2>3. PhaseFits(w)'
    BY <1>1, <1>2, <1>31, <2>1, <2>2 DEF SealManifest, PhaseFits, AfterManifest
  <2>4. job'.status = job.status /\ job'.terminal = job.terminal
    BY <1>31 DEF SealManifest, TypeOK, JobRow
  <2> QED
    BY <1>1, <2>1, <2>2, <2>3, <2>4, PhaseFitsKept DEF Purged
<1>32. ASSUME NEW w \in Worker, CheckSubject(w) \/ PurgeCourse(w) \/ PurgeUser(w)
       PROVE  Purged'
  <2>1. UNCHANGED <<kind, job, subject, store, item>> /\ rows' \subseteq rows
    BY <1>32 DEF CheckSubject, PurgeCourse, PurgeUser, DeleteBatch
  <2>2. /\ Kept(w) /\ worker'[w].batch = worker[w].batch
        /\ \/ worker'[w].phase = AfterPurge /\ subject = "gone"
           \/ worker'[w].phase \in {"subject", "rows"}
    BY <1>3, <1>32 DEF CheckSubject, PurgeCourse, PurgeUser, DeleteBatch
  <2>3. PhaseFits(w) /\ worker[w].phase \in {"check", "rows"}
    BY <1>1, <1>32 DEF CheckSubject, PurgeCourse, PurgeUser, DeleteBatch
  <2>4. PhaseFits(w)'
    BY <1>2, <2>1, <2>2, <2>3 DEF PhaseFits, AfterPurge
  <2> QED
    BY <1>1, <2>1, <2>2, <2>4, PhaseFitsKept DEF Purged
<1>33. ASSUME NEW w \in Worker, DeleteSubject(w)
       PROVE  Purged'
  <2>1. UNCHANGED <<kind, job, store, item>> /\ rows' = {} /\ subject' = "gone"
    BY <1>33 DEF DeleteSubject
  <2>2. /\ Kept(w) /\ worker'[w].phase \in {"failed", AfterPurge} /\ worker'[w].batch = worker[w].batch
    BY <1>3, <1>33 DEF DeleteSubject
  <2>3. PhaseFits(w)'
    BY <1>1, <1>2, <1>33, <2>1, <2>2 DEF DeleteSubject, PhaseFits, AfterPurge
  <2> QED
    BY <1>1, <2>1, <2>2, <2>3, PhaseFitsKept DEF Purged
<1>34. ASSUME NEW w \in Worker, PurgeLeaves(w)
       PROVE  Purged'
  <2>1. UNCHANGED <<kind, job, store>>
    BY <1>34 DEF PurgeLeaves
  <2>2. PhaseFits(w) /\ worker[w].phase = "block"
    BY <1>1, <1>34 DEF PurgeLeaves
  <2>3. CASE subject = "gone"
    <3>1. UNCHANGED <<rows, item, subject>> /\ Kept(w) /\ worker'[w].phase = "claim" /\ worker'[w].batch = worker[w].batch
      BY <1>3, <1>34, <2>3 DEF PurgeLeaves
    <3>2. PhaseFits(w)'
      BY <1>2, <2>1, <2>2, <2>3, <3>1 DEF PhaseFits
    <3> QED
      BY <1>1, <2>1, <3>1, <3>2, PhaseFitsKept DEF Purged
  <2>4. CASE subject # "gone"
    <3>1. PICK leaves \in SUBSET rows :
            /\ rows' = rows \ leaves
            /\ item' = LeafItems(leaves)
            /\ subject' = IF leaves = rows THEN "gone" ELSE subject
            /\ UNCHANGED worker
      BY <1>34, <2>4 DEF PurgeLeaves
    <3>2. \A o \in Foreign : item'[o] = "none"
      BY <1>2, <1>6, <3>1 DEF LeafItems
    <3>3. PhaseFits(w)'
      BY <2>1, <2>2, <3>1 DEF PhaseFits
    <3> QED
      BY <1>1, <2>1, <2>4, <3>1, <3>2, <3>3, PhaseFitsKept DEF Purged
  <2> QED
    BY <2>3, <2>4
<1>35. ASSUME NEW w \in Worker, ClaimItems(w)
       PROVE  Purged'
  <2>1. UNCHANGED <<kind, job, subject, rows, store>>
    BY <1>35 DEF ClaimItems
  <2>2. PICK batch \in SUBSET Pending :
          /\ item' = [o \in Object |-> IF o \in batch THEN "leased"
                                       ELSE IF item[o] = "lapsed" THEN "pending" ELSE item[o]]
          /\ worker' = [worker EXCEPT ![w].batch = batch, ![w].phase =
               IF batch # {} THEN "remove" ELSE IF kind = "user" THEN "check" ELSE "succeed"]
    BY <1>35 DEF ClaimItems
  <2>3. batch \cap Foreign = {}
    BY <1>1 DEF Pending
  <2>4. \A o \in Foreign : item'[o] = "none"
    BY <1>1, <1>2, <2>2, <2>3
  <2>5. /\ Kept(w) /\ worker'[w].batch = batch
        /\ worker'[w].phase \in {"remove", "check", "succeed"}
        /\ kind = "user" => worker'[w].phase # "succeed"
        /\ kind # "user" => worker'[w].phase # "check"
    BY <2>2 DEF TypeOK, Slot
  <2>6. PhaseFits(w)'
    BY <1>1, <1>2, <1>35, <2>1, <2>3, <2>5 DEF ClaimItems, PhaseFits
  <2> QED
    BY <1>1, <2>1, <2>4, <2>5, <2>6, PhaseFitsKept DEF Purged
<1>36. ASSUME NEW w \in Worker, RemoveObjects(w)
       PROVE  Purged'
  <2>1. UNCHANGED <<kind, job, subject, rows, item>>
    BY <1>36 DEF RemoveObjects
  <2>2. PhaseFits(w) /\ worker[w].phase = "remove"
    BY <1>1, <1>36 DEF RemoveObjects
  <2>3. /\ Kept(w) /\ worker'[w].phase \in {"mark", "release"} /\ worker'[w].batch = worker[w].batch
    BY <1>3, <1>36 DEF RemoveObjects
  <2>4. PhaseFits(w)'
    BY <2>1, <2>2, <2>3 DEF PhaseFits
  <2>5. Foreign \subseteq store'
    BY <1>1, <1>36, <2>2 DEF RemoveObjects, PhaseFits
  <2>6. kind # "user" => rows = {}
    BY <1>1, <2>2 DEF PhaseFits
  <2> QED
    BY <1>1, <2>1, <2>3, <2>4, <2>5, <2>6, PhaseFitsKept DEF Purged
<1>37. ASSUME NEW w \in Worker, MarkItems(w) \/ ReleaseItems(w)
       PROVE  Purged'
  <2>1. UNCHANGED <<kind, job, subject, rows, store>>
    BY <1>37 DEF MarkItems, ReleaseItems
  <2>2. PhaseFits(w) /\ worker[w].phase \in {"mark", "release"}
    BY <1>1, <1>37 DEF MarkItems, ReleaseItems
  <2>3. Kept(w) /\ worker'[w].phase \in {"claim", "release", "failed"} /\ worker'[w].batch = worker[w].batch
    BY <1>3, <1>37 DEF MarkItems, ReleaseItems
  <2>4. PhaseFits(w)'
    BY <2>1, <2>2, <2>3 DEF PhaseFits
  <2>5. \A o \in Foreign : item'[o] = "none"
    <3>1. worker[w].batch \cap Foreign = {}
      BY <2>2 DEF PhaseFits
    <3> QED
      BY <1>1, <1>7, <1>37, <3>1 DEF MarkItems, ReleaseItems
  <2> QED
    BY <1>1, <2>1, <2>3, <2>4, <2>5, PhaseFitsKept DEF Purged
<1>39. ASSUME NEW w \in Worker, Succeed(w)
       PROVE  Purged'
  <2>1. UNCHANGED <<kind, subject, rows, store>>
    BY <1>39 DEF Succeed
  <2>2. subject = "gone"
    BY <1>1, <1>39 DEF Succeed, PhaseFits
  <2>3. \A o \in Foreign : item'[o] = "none"
    BY <1>2, <1>39 DEF Succeed
  <2>4. job'.terminal = FALSE
    BY <1>39 DEF Succeed, TypeOK, JobRow
  <2>5. Kept(w) /\ PhaseFits(w)'
    BY <1>5, <1>39 DEF Succeed
  <2> QED
    BY <1>1, <2>1, <2>2, <2>3, <2>4, <2>5, PhaseFitsKept DEF Purged
<1>40. ASSUME NEW w \in Worker, RunFailed(w) \/ RetriesExhausted(w)
       PROVE  Purged'
  <2>1. UNCHANGED <<kind, subject, rows, store, item>>
    BY <1>40 DEF RunFailed, RetriesExhausted
  <2>2. Kept(w) /\ PhaseFits(w)'
    BY <1>5, <1>8, <1>40, <2>1 DEF RunFailed, RetriesExhausted
  <2>3. /\ job'.status = "succeeded" => job.status = "succeeded"
        /\ job'.terminal => job'.status = "failed"
    <3>1. job' = job \/ job' = Retryable
      BY <1>40 DEF RunFailed, RetriesExhausted
    <3>2. CASE job.status = "running" /\ job' = Retryable
      <4>1. CASE job.attempts >= MaxAttempts
        BY <3>2, <4>1 DEF Retryable, TypeOK, JobRow
      <4>2. CASE ~(job.attempts >= MaxAttempts)
        BY <3>2, <4>2 DEF Retryable, TypeOK, JobRow
      <4> QED
        BY <4>1, <4>2
    <3> QED
      BY <1>1, <3>1, <3>2 DEF Retryable
  <2> QED
    BY <1>1, <2>1, <2>2, <2>3, PhaseFitsKept DEF Purged
<1>43. ASSUME NEW w \in Worker, Throw(w) \/ Crash(w)
       PROVE  Purged'
  <2>1. UNCHANGED <<kind, job, subject, rows, store, item>>
    BY <1>43 DEF Throw, Crash
  <2>2. Kept(w) /\ PhaseFits(w)'
    BY <1>5, <1>8, <1>43, <2>1 DEF Throw, Crash
  <2> QED
    BY <1>1, <2>1, <2>2, PhaseFitsKept DEF Purged
<1>44. ASSUME NEW w \in Worker, Stall(w) \/ Resume(w)
       PROVE  Purged'
  <2>1. UNCHANGED <<kind, job, subject, rows, store, item>>
    BY <1>44 DEF Stall, Resume
  <2>2. Kept(w) /\ worker'[w].phase = worker[w].phase /\ worker'[w].batch = worker[w].batch
    BY <1>44 DEF Stall, Resume, TypeOK, Slot
  <2>3. PhaseFits(w)'
    BY <1>1, <2>1, <2>2 DEF PhaseFits
  <2> QED
    BY <1>1, <2>1, <2>2, <2>3, PhaseFitsKept DEF Purged
<1> QED
  BY <1>20, <1>21, <1>25, <1>26, <1>27, <1>28, <1>29, <1>30, <1>31, <1>32,
     <1>33, <1>34, <1>35, <1>36, <1>37, <1>39, <1>40, <1>43, <1>44
  DEF Next, Step

(* The two inductive invariants hold together. *)
LEMMA PurgedAlways == Spec => [](TypeOK /\ Attempts /\ Purged)
<1>1. TypeOK /\ Attempts /\ Purged /\ [Next]_vars => (TypeOK /\ Attempts /\ Purged)'
  <2> SUFFICES ASSUME TypeOK, Attempts, Purged, [Next]_vars
               PROVE  (TypeOK /\ Attempts /\ Purged)'
    OBVIOUS
  <2>1. CASE Next
    <3>1. Attempts' /\ Purged'
      BY <2>1, AttemptsStep, PurgedStep
    <3>2. job'.attempts <= MaxAttempts + faults'
      BY <3>1 DEF Attempts
    <3> QED
      BY <2>1, <3>1, <3>2, TypeStep
  <2>2. CASE UNCHANGED vars
    BY <2>2 DEF vars, TypeOK, Attempts, Untouched, Committed, Active, Purged, PhaseFits
  <2> QED
    BY <2>1, <2>2
<1> QED
  BY <1>1, InitAttempts, InitPurged, PTL DEF Spec

(* No committed row names a removed object: the drain of a course or of a  *)
(* block starts after the last row is gone, and neither the references nor *)
(* the scan list an object that another course's asset row owns.           *)
THEOREM RowsKeepTheirObjects == Spec => []NoDanglingRow
<1>1. Purged => NoDanglingRow
  BY DEF Purged, NoDanglingRow
<1> QED
  BY <1>1, PurgedAlways, PTL

(* A job that is marked succeeded has deleted its subject and every row of *)
(* it, whichever worker marks it and whoever claimed it in between.        *)
THEOREM SuccessIsFinal == Spec => []SucceededIsPurged
<1>1. Purged => SucceededIsPurged
  BY DEF Purged, SucceededIsPurged
<1> QED
  BY <1>1, PurgedAlways, PTL

-----------------------------------------------------------------------------
(* What the manifest remembers *)

(* Objects only leave the bucket and entries only enter the manifest. *)
Grows ==
  /\ store' \subseteq store
  /\ \A o \in Object : item[o] # "none" => item'[o] # "none"

(* The sets of objects that are listed are sets of objects. *)
LEMMA ObjectSets ==
  /\ Row \subseteq Object /\ Owned \subseteq Object /\ FirstNamed \subseteq Row
  /\ \A S : \A a : UpTo(S, a) \subseteq S
BY SubjectAssumption DEF Owned, FirstNamed, UpTo

(* What is listed stays listed. *)
LEMMA ListedStays ==
  ASSUME Grows, NEW S, S \subseteq Object, Listed(S)
  PROVE  \A o \in S : o \in store' => item'[o] # "none"
BY DEF Grows, Listed

(* What the committed rows say of the manifest survives a step that leaves *)
(* them alone.                                                             *)
LEMMA SavedStays ==
  ASSUME Grows, Saved, UNCHANGED <<kind, rows, cursor>>,
         job'.manifested = job.manifested, subject' = "gone" => subject = "gone"
  PROVE  Saved'
<1>1. \A S : S \subseteq Object /\ Listed(S) => \A o \in S : o \in store' => item'[o] # "none"
  BY ListedStays
<1>2. Listed(Row \ rows)'
  <2>1. Row \ rows \subseteq Object /\ Listed(Row \ rows)
    BY ObjectSets DEF Saved
  <2>2. \A o \in Row \ rows : o \in store' => item'[o] # "none"
    BY <1>1, <2>1
  <2> QED
    BY <2>2 DEF Listed
<1>3. ASSUME Listed(Owned)
      PROVE  Listed(Owned)'
  <2>1. \A o \in Owned : o \in store' => item'[o] # "none"
    BY <1>1, <1>3, ObjectSets
  <2> QED
    BY <2>1 DEF Listed, Owned
<1>4. ASSUME Listed(Row)
      PROVE  Listed(Row)'
  <2>1. \A o \in Row : o \in store' => item'[o] # "none"
    BY <1>1, <1>4, ObjectSets
  <2> QED
    BY <2>1 DEF Listed
<1>5. ASSUME Listed(UpTo(Owned, cursor.at))
      PROVE  Listed(UpTo(Owned, cursor.at))'
  <2>1. UpTo(Owned, cursor.at) \subseteq Object
    BY ObjectSets
  <2>2. \A o \in UpTo(Owned, cursor.at) : o \in store' => item'[o] # "none"
    BY <1>1, <1>5, <2>1
  <2> QED
    BY <2>2 DEF Listed, UpTo, Owned
<1> QED
  BY <1>2, <1>3, <1>4, <1>5 DEF Saved

(* What a worker relies on survives a step that leaves it in its phase. *)
LEMMA ManifestStays ==
  ASSUME Grows, NEW w \in Worker, Manifest(w), kind' = kind,
         worker'[w].phase = worker[w].phase, worker'[w].at = worker[w].at
  PROVE  Manifest(w)'
<1>1. \A S : S \subseteq Object /\ Listed(S) => \A o \in S : o \in store' => item'[o] # "none"
  BY ListedStays
<1>2. ASSUME worker[w].phase = "refs"
      PROVE  Manifest(w)'
  <2>1. UpTo(Row, worker[w].at) \subseteq Object /\ Listed(UpTo(Row, worker[w].at))
    BY <1>2, ObjectSets DEF Manifest
  <2>2. \A o \in UpTo(Row, worker[w].at) : o \in store' => item'[o] # "none"
    BY <1>1, <2>1
  <2>3. Listed(UpTo(Row, worker[w].at))'
    BY <2>2 DEF Listed, UpTo
  <2> QED
    BY <1>2, <2>3 DEF Manifest, Draining
<1>3. ASSUME worker[w].phase \in {"scan", "advance"}
      PROVE  Manifest(w)'
  <2>1. /\ UpTo(Owned, worker[w].at) \subseteq Object /\ Listed(UpTo(Owned, worker[w].at))
        /\ FirstNamed \subseteq Object /\ Listed(FirstNamed)
    BY <1>3, ObjectSets DEF Manifest
  <2>2. \A o \in UpTo(Owned, worker[w].at) : o \in store' => item'[o] # "none"
    BY <1>1, <2>1
  <2>3. \A o \in FirstNamed : o \in store' => item'[o] # "none"
    BY <1>1, <2>1
  <2>4. Listed(UpTo(Owned, worker[w].at))'
    BY <2>2 DEF Listed, UpTo, Owned
  <2>5. Listed(FirstNamed)'
    BY <2>3 DEF Listed, FirstNamed
  <2> QED
    BY <1>3, <2>4, <2>5 DEF Manifest, Draining
<1>4. ASSUME worker[w].phase = "feedback"
      PROVE  Manifest(w)'
  <2>1. Row \ Feedback \subseteq Object /\ Listed(Row \ Feedback) /\ Owned \subseteq Object /\ Listed(Owned)
    BY <1>4, ObjectSets DEF Manifest
  <2>2. \A o \in Row \ Feedback : o \in store' => item'[o] # "none"
    BY <1>1, <2>1
  <2>3. \A o \in Owned : o \in store' => item'[o] # "none"
    BY <1>1, <2>1
  <2>4. Listed(Row \ Feedback)' /\ Listed(Owned)'
    BY <2>2, <2>3 DEF Listed, Owned
  <2> QED
    BY <1>4, <2>4 DEF Manifest, Draining
<1>5. ASSUME worker[w].phase \in Draining \cup {"seal", "check", "rows", "subject"}
      PROVE  Manifest(w)'
  <2>1. Listed(Row) /\ Listed(Owned)
    BY <1>5 DEF Manifest
  <2>2. \A o \in Row : o \in store' => item'[o] # "none"
    BY <1>1, <2>1, ObjectSets
  <2>3. \A o \in Owned : o \in store' => item'[o] # "none"
    BY <1>1, <2>1, ObjectSets
  <2>4. Listed(Row)' /\ Listed(Owned)'
    BY <2>2, <2>3 DEF Listed, Owned
  <2> QED
    BY <1>5, <2>4 DEF Manifest, Draining
<1>6. CASE worker[w].phase \notin {"refs", "scan", "advance", "feedback", "seal", "check", "rows", "subject"} \cup Draining
  BY <1>6 DEF Manifest, Draining
<1> QED
  BY <1>2, <1>3, <1>4, <1>5, <1>6

(* Only the success of a job drops entries, and no step adds an object. *)
LEMMA GrowsStep ==
  ASSUME TypeOK, Next
  PROVE  store' \subseteq store /\ (Grows \/ \E w \in Worker : Succeed(w))
<1>1. \A S : item' = Registered(S) => \A o \in Object : item[o] # "none" => item'[o] # "none"
  BY DEF Registered
<1>2. ASSUME NEW S, NEW s, s # "none", item' = Settled(S, s)
      PROVE  \A o \in Object : item[o] # "none" => item'[o] # "none"
  BY <1>2 DEF Settled
<1>3. store' = store /\ item' = item => Grows
  BY DEF Grows
<1>4. CASE RequestCourse \/ RequestUser \/ OperatorRetry \/ Sweep \/ BackoffEnds \/ LeaseLapses
  BY <1>3, <1>4 DEF RequestCourse, RequestUser, Enqueue, OperatorRetry, Sweep, BackoffEnds, LeaseLapses
<1>5. ASSUME NEW o \in Object, ItemLapses(o)
      PROVE  store' \subseteq store /\ Grows
  BY <1>5 DEF ItemLapses, Grows, TypeOK
<1>6. ASSUME NEW w \in Worker,
             Deliver(w) \/ Touch(w) \/ Throw(w) \/ Crash(w) \/ Stall(w) \/ Resume(w)
      PROVE  store' \subseteq store /\ Grows
  BY <1>3, <1>6 DEF Deliver, Touch, Throw, Crash, Stall, Resume
<1>7. ASSUME NEW w \in Worker,
             \/ AdvanceCursor(w) \/ SealManifest(w) \/ CheckSubject(w) \/ PurgeCourse(w) \/ PurgeUser(w)
             \/ DeleteSubject(w) \/ RunFailed(w) \/ RetriesExhausted(w)
      PROVE  store' \subseteq store /\ Grows
  BY <1>3, <1>7 DEF AdvanceCursor, SealManifest, CheckSubject, PurgeCourse, PurgeUser, DeleteBatch, DeleteSubject,
     RunFailed, RetriesExhausted
<1>8. ASSUME NEW w \in Worker, RegisterRefs(w) \/ ScanPage(w) \/ RegisterFeedback(w) \/ PurgeLeaves(w)
      PROVE  store' \subseteq store /\ Grows
  <2>1. store' = store
    BY <1>8 DEF RegisterRefs, ScanPage, RegisterFeedback, PurgeLeaves
  <2>2. item' = item \/ \E S : item' = Registered(S)
    BY <1>8 DEF RegisterRefs, ScanPage, RegisterFeedback, PurgeLeaves, LeafItems
  <2> QED
    BY <1>1, <2>1, <2>2 DEF Grows
<1>9. ASSUME NEW w \in Worker, ClaimItems(w)
      PROVE  store' \subseteq store /\ Grows
  <2>1. store' = store
    BY <1>9 DEF ClaimItems
  <2>2. PICK batch : item' = [o \in Object |-> IF o \in batch THEN "leased"
                                 ELSE IF item[o] = "lapsed" THEN "pending" ELSE item[o]]
    BY <1>9 DEF ClaimItems
  <2> QED
    BY <2>1, <2>2 DEF Grows
<1>10. ASSUME NEW w \in Worker, RemoveObjects(w)
       PROVE  store' \subseteq store /\ Grows
  BY <1>10 DEF RemoveObjects, Grows
<1>11. ASSUME NEW w \in Worker, MarkItems(w) \/ ReleaseItems(w)
       PROVE  store' \subseteq store /\ Grows
  <2>1. store' = store
    BY <1>11 DEF MarkItems, ReleaseItems
  <2>2. item' = item \/ \E S : item' = Settled(S, "done") \/ item' = Settled(S, "pending")
    BY <1>11 DEF MarkItems, ReleaseItems
  <2> QED
    BY <1>2, <2>1, <2>2 DEF Grows
<1>12. ASSUME NEW w \in Worker, Succeed(w)
       PROVE  store' \subseteq store
  BY <1>12 DEF Succeed
<1> QED
  BY <1>4, <1>5, <1>6, <1>7, <1>8, <1>9, <1>10, <1>11, <1>12 DEF Next, Step

(* An entry is settled after its object has been removed. *)
LEMMA RemovedStep ==
  ASSUME TypeOK, Removed, Next
  PROVE  Removed'
<1>1. store' \subseteq store
  BY GrowsStep
<1>2. ASSUME NEW w \in Worker, \A u \in Worker \ {w} : worker'[u] = worker[u],
             worker'[w].phase = "mark" => worker'[w].batch \cap store' = {}
      PROVE  \A u \in Worker : worker'[u].phase = "mark" => worker'[u].batch \cap store' = {}
  <2> SUFFICES ASSUME NEW u \in Worker \ {w}, worker'[u].phase = "mark"
               PROVE  worker'[u].batch \cap store' = {}
    BY <1>2
  <2>1. worker'[u] = worker[u]
    BY <1>2
  <2>2. worker[u].batch \cap store = {}
    BY <2>1 DEF Removed
  <2> QED
    BY <1>1, <2>1, <2>2
<1>3. ASSUME worker' = worker
      PROVE  \A u \in Worker : worker'[u].phase = "mark" => worker'[u].batch \cap store' = {}
  BY <1>1, <1>3 DEF Removed
<1>4. ASSUME NEW w \in Worker, NEW p, p # "mark", Go(w, p)
      PROVE  \A u \in Worker : worker'[u].phase = "mark" => worker'[u].batch \cap store' = {}
  <2>1. (\A u \in Worker \ {w} : worker'[u] = worker[u]) /\ worker'[w].phase = p
    BY <1>4 DEF Go, TypeOK, Slot
  <2> QED
    BY <1>2, <1>4, <2>1
<1>5. ASSUME NEW w \in Worker, NEW p, NEW a, p # "mark", GoAt(w, p, a)
      PROVE  \A u \in Worker : worker'[u].phase = "mark" => worker'[u].batch \cap store' = {}
  <2>1. (\A u \in Worker \ {w} : worker'[u] = worker[u]) /\ worker'[w].phase = p
    BY <1>5 DEF GoAt, TypeOK, Slot
  <2> QED
    BY <1>2, <1>5, <2>1
<1>6. ASSUME NEW w \in Worker, worker' = [worker EXCEPT ![w] = IdleSlot]
      PROVE  \A u \in Worker : worker'[u].phase = "mark" => worker'[u].batch \cap store' = {}
  <2>1. (\A u \in Worker \ {w} : worker'[u] = worker[u]) /\ worker'[w].phase = "idle"
    BY <1>6 DEF IdleSlot, TypeOK
  <2> QED
    BY <1>2, <2>1
<1> DEFINE Marked == \A u \in Worker : worker'[u].phase = "mark" => worker'[u].batch \cap store' = {}
           Done == \A o \in Object : item'[o] = "done" => item[o] = "done"
<1> HIDE DEF Marked
<1>7. Marked /\ Done => Removed'
  BY <1>1 DEF Marked, Removed
<1>8. \A S : item' = Registered(S) => Done
  BY DEF Registered
<1>9. item' = item => Done
  OBVIOUS
<1>20. CASE \/ RequestCourse \/ RequestUser \/ OperatorRetry \/ Sweep \/ BackoffEnds \/ LeaseLapses
            \/ \E w \in Worker : Touch(w)
  <2>1. worker' = worker /\ item' = item
    BY <1>20 DEF RequestCourse, RequestUser, Enqueue, OperatorRetry, Sweep, BackoffEnds, LeaseLapses, Touch
  <2> QED
    BY <1>3, <1>7, <1>9, <2>1 DEF Marked
<1>21. ASSUME NEW o \in Object, ItemLapses(o)
       PROVE  Removed'
  <2>1. worker' = worker /\ Done
    BY <1>21 DEF ItemLapses, TypeOK
  <2> QED
    BY <1>3, <1>7, <2>1 DEF Marked
<1>22. ASSUME NEW w \in Worker, Deliver(w)
       PROVE  Removed'
  <2>1. item' = item
    BY <1>22 DEF Deliver
  <2>2. CASE ~Runnable
    BY <1>3, <1>7, <1>9, <1>22, <2>1, <2>2 DEF Deliver, Marked
  <2>3. CASE Runnable
    <3>1. (\A u \in Worker \ {w} : worker'[u] = worker[u]) /\ worker'[w].phase = FirstPhase
      BY <1>22, <2>3 DEF Deliver, IdleSlot, TypeOK
    <3>2. FirstPhase # "mark"
      BY DEF FirstPhase, AfterManifest
    <3> QED
      BY <1>2, <1>7, <1>9, <2>1, <3>1, <3>2 DEF Marked
  <2> QED
    BY <2>2, <2>3
<1>23. ASSUME NEW w \in Worker, RegisterRefs(w)
       PROVE  Removed'
  <2>1. \E p \in {AfterScan, "scan", "refs"} : \E a : GoAt(w, p, a)
    BY <1>23 DEF RegisterRefs
  <2>2. Marked
    BY <1>5, <2>1 DEF AfterScan, Marked
  <2> QED
    BY <1>7, <1>8, <1>23, <2>2 DEF RegisterRefs
<1>24. ASSUME NEW w \in Worker, ScanPage(w)
       PROVE  Removed'
  <2>1. Go(w, AfterScan) \/ \E a : GoAt(w, "advance", a)
    BY <1>24 DEF ScanPage
  <2>2. Marked
    BY <1>4, <1>5, <2>1 DEF AfterScan, Marked
  <2> QED
    BY <1>7, <1>8, <1>9, <1>24, <2>2 DEF ScanPage
<1>25. ASSUME NEW w \in Worker, AdvanceCursor(w) \/ RegisterFeedback(w) \/ SealManifest(w)
       PROVE  Removed'
  <2>1. Go(w, "scan") \/ Go(w, "seal") \/ Go(w, AfterManifest(kind))
    BY <1>25 DEF AdvanceCursor, RegisterFeedback, SealManifest
  <2>2. Marked
    BY <1>4, <2>1 DEF AfterManifest, Marked
  <2> QED
    BY <1>7, <1>8, <1>9, <1>25, <2>2 DEF AdvanceCursor, RegisterFeedback, SealManifest
<1>26. ASSUME NEW w \in Worker, CheckSubject(w) \/ PurgeCourse(w) \/ PurgeUser(w) \/ DeleteSubject(w)
       PROVE  Removed'
  <2>1. worker' = worker \/ \E p \in {AfterPurge, "rows", "subject", "failed"} : Go(w, p)
    BY <1>26 DEF CheckSubject, PurgeCourse, PurgeUser, DeleteBatch, DeleteSubject
  <2>2. Marked
    BY <1>3, <1>4, <2>1 DEF AfterPurge, Marked
  <2> QED
    BY <1>7, <1>9, <1>26, <2>2 DEF CheckSubject, PurgeCourse, PurgeUser, DeleteBatch, DeleteSubject
<1>27. ASSUME NEW w \in Worker, PurgeLeaves(w)
       PROVE  Removed'
  <2>1. worker' = worker \/ Go(w, "claim")
    BY <1>27 DEF PurgeLeaves
  <2>2. Marked
    BY <1>3, <1>4, <2>1 DEF Marked
  <2> QED
    BY <1>7, <1>8, <1>9, <1>27, <2>2 DEF PurgeLeaves, LeafItems
<1>28. ASSUME NEW w \in Worker, ClaimItems(w)
       PROVE  Removed'
  <2>1. PICK batch : /\ item' = [o \in Object |-> IF o \in batch THEN "leased"
                                    ELSE IF item[o] = "lapsed" THEN "pending" ELSE item[o]]
                     /\ worker' = [worker EXCEPT ![w].batch = batch, ![w].phase =
                          IF batch # {} THEN "remove" ELSE IF kind = "user" THEN "check" ELSE "succeed"]
    BY <1>28 DEF ClaimItems
  <2>2. (\A u \in Worker \ {w} : worker'[u] = worker[u]) /\ worker'[w].phase # "mark"
    BY <2>1 DEF TypeOK, Slot
  <2>3. Done
    BY <2>1
  <2> QED
    BY <1>2, <1>7, <2>2, <2>3 DEF Marked
<1>29. ASSUME NEW w \in Worker, RemoveObjects(w)
       PROVE  Removed'
  <2>1. item' = item
    BY <1>29 DEF RemoveObjects
  <2>2. CASE Go(w, "release")
    BY <1>4, <1>7, <1>9, <2>1, <2>2 DEF Marked
  <2>3. CASE store' = store \ worker[w].batch /\ Go(w, "mark")
    <3>1. (\A u \in Worker \ {w} : worker'[u] = worker[u]) /\ worker'[w].batch = worker[w].batch
      BY <2>3 DEF Go, TypeOK, Slot
    <3> QED
      BY <1>2, <1>7, <1>9, <2>1, <2>3, <3>1 DEF Marked
  <2> QED
    BY <1>29, <2>2, <2>3 DEF RemoveObjects
<1>30. ASSUME NEW w \in Worker, MarkItems(w)
       PROVE  Removed'
  <2>1. Marked
    BY <1>4, <1>30 DEF MarkItems, Marked
  <2>2. CASE item' = item
    BY <1>7, <1>9, <2>1, <2>2
  <2>3. CASE item' = Settled(worker[w].batch, "done")
    <3>1. worker[w].batch \cap store = {}
      BY <1>30 DEF MarkItems, Removed
    <3>2. \A o \in Object : item'[o] = "done" => o \notin store'
      BY <1>1, <2>3, <3>1 DEF Settled, Removed
    <3> QED
      BY <2>1, <3>2 DEF Marked, Removed
  <2> QED
    BY <1>30, <2>2, <2>3 DEF MarkItems
<1>31. ASSUME NEW w \in Worker, ReleaseItems(w)
       PROVE  Removed'
  <2>1. Marked
    BY <1>4, <1>31 DEF ReleaseItems, Marked
  <2>2. Done
    BY <1>31 DEF ReleaseItems, Settled
  <2> QED
    BY <1>7, <2>1, <2>2
<1>32. ASSUME NEW w \in Worker, Succeed(w)
       PROVE  Removed'
  <2>1. Marked /\ Done
    BY <1>6, <1>32 DEF Succeed, Marked
  <2> QED
    BY <1>7, <2>1
<1>33. ASSUME NEW w \in Worker, RunFailed(w) \/ RetriesExhausted(w) \/ Throw(w) \/ Crash(w)
       PROVE  Removed'
  <2>1. item' = item
    BY <1>33 DEF RunFailed, RetriesExhausted, Throw, Crash
  <2>2. Go(w, "exhausted") \/ Go(w, "failed") \/ worker' = [worker EXCEPT ![w] = IdleSlot]
    BY <1>33 DEF RunFailed, RetriesExhausted, Throw, Crash
  <2> QED
    BY <1>4, <1>6, <1>7, <1>9, <2>1, <2>2 DEF Marked
<1>34. ASSUME NEW w \in Worker, Stall(w) \/ Resume(w)
       PROVE  Removed'
  <2>1. item' = item /\ store' = store
    BY <1>34 DEF Stall, Resume
  <2>2. \A u \in Worker : worker'[u].phase = worker[u].phase /\ worker'[u].batch = worker[u].batch
    BY <1>34 DEF Stall, Resume, TypeOK, Slot
  <2> QED
    BY <2>1, <2>2 DEF Removed
<1> QED
  BY <1>20, <1>21, <1>22, <1>23, <1>24, <1>25, <1>26, <1>27, <1>28, <1>29, <1>30, <1>31, <1>32,
     <1>33, <1>34
  DEF Next, Step

(* A step of one worker leaves the others what they rely on. *)
LEMMA KnownStays ==
  ASSUME Grows, Known, kind' = kind, Saved', NEW w \in Worker,
         \A u \in Worker \ {w} : worker'[u] = worker[u], kind # "block" => Manifest(w)'
  PROVE  Known'
<1>1. ASSUME kind # "block", NEW u \in Worker, u # w
      PROVE  Manifest(u)'
  BY <1>1, ManifestStays DEF Known
<1> QED
  BY <1>1 DEF Known

(* Before the rows go that name an object, and before the saved scan       *)
(* passes it, the object is listed; a worker that starts later starts from *)
(* what the committed rows say.                                            *)
LEMMA KnownStep ==
  ASSUME TypeOK, Purged, Known, Next, job'.status # "succeeded"
  PROVE  Known'
<1>succeed. \A w \in Worker : ~Succeed(w)
  BY DEF Succeed, TypeOK, JobRow
<1>grows. Grows
  BY <1>succeed, GrowsStep
<1> DEFINE Kept(w) == \A u \in Worker \ {w} : worker'[u] = worker[u]
           Later == Draining \cup {"seal", "check", "rows", "subject"}
<1>1. /\ N \in Nat /\ rows \subseteq Row /\ Row \subseteq Object /\ Feedback \subseteq Row
      /\ kind \in {"course", "block", "user"} /\ cursor.at \in 0..N
      /\ \A w \in Worker : worker[w].at \in 0..N
  BY SubjectAssumption DEF TypeOK, Slot
<1>2. ASSUME NEW w \in Worker, NEW p, Go(w, p)
      PROVE  Kept(w) /\ worker'[w].phase = p /\ worker'[w].at = worker[w].at
  BY <1>2 DEF Go, TypeOK, Slot
<1>3. ASSUME NEW w \in Worker, NEW p, NEW a, GoAt(w, p, a)
      PROVE  Kept(w) /\ worker'[w].phase = p /\ worker'[w].at = a
  BY <1>3 DEF GoAt, TypeOK, Slot
<1>4. \A S : S \subseteq Object /\ Listed(S) => \A o \in S : o \in store' => item'[o] # "none"
  BY <1>grows, ListedStays
<1>5. ASSUME NEW w \in Worker
      PROVE  /\ kind # "block" => Manifest(w)
             /\ PhaseFits(w)
  BY DEF Known, Purged
<1>6. ASSUME Listed(Row), Listed(Owned)
      PROVE  Listed(Row)' /\ Listed(Owned)'
  <2>1. \A o \in Row : o \in store' => item'[o] # "none"
    BY <1>1, <1>4, <1>6
  <2>2. \A o \in Owned : o \in store' => item'[o] # "none"
    BY <1>4, <1>6, ObjectSets
  <2> QED
    BY <2>1, <2>2 DEF Listed, Owned
<1>7. ASSUME NEW w \in Worker, worker'[w].phase \in {"idle", "failed", "exhausted"}
      PROVE  Manifest(w)'
  BY <1>7 DEF Manifest, Draining
<1>8. ASSUME NEW w \in Worker, worker'[w].phase \in Later, Listed(Row), Listed(Owned)
      PROVE  Manifest(w)'
  BY <1>6, <1>8 DEF Manifest, Draining
<1>9. Saved
  BY DEF Known
<1> HIDE DEF Later
<1>20. CASE \/ RequestCourse \/ RequestUser \/ OperatorRetry \/ Sweep \/ BackoffEnds \/ LeaseLapses
            \/ (\E w \in Worker : Touch(w)) \/ \E o \in Object : ItemLapses(o)
  <2>1. worker' = worker /\ UNCHANGED <<kind, rows, cursor>>
    BY <1>20 DEF RequestCourse, RequestUser, Enqueue, OperatorRetry, Sweep, BackoffEnds, LeaseLapses,
       Touch, ItemLapses
  <2>2. job'.manifested = job.manifested /\ (subject' = "gone" => subject = "gone")
    BY <1>20 DEF RequestCourse, RequestUser, Enqueue, OperatorRetry, Sweep, BackoffEnds, LeaseLapses,
       Touch, ItemLapses, TypeOK, JobRow
  <2>3. Saved'
    BY <1>9, <2>1, <2>2, <1>grows, SavedStays
  <2>4. ASSUME kind # "block", NEW w \in Worker
        PROVE  Manifest(w)'
    BY <1>5, <2>1, <2>4, <1>grows, ManifestStays
  <2> QED
    BY <2>1, <2>3, <2>4 DEF Known
<1>21. ASSUME NEW w \in Worker, Deliver(w)
       PROVE  Known'
  <2>1. UNCHANGED <<kind, subject, rows, store, item, cursor>> /\ job'.manifested = job.manifested
    BY <1>21 DEF Deliver, TypeOK, JobRow
  <2>2. Saved'
    BY <1>9, <2>1, <1>grows, SavedStays
  <2>3. CASE ~Runnable
    <3>1. worker' = worker
      BY <1>21, <2>3 DEF Deliver
    <3>2. kind # "block" => Manifest(w)'
      BY <1>5, <2>1, <3>1, <1>grows, ManifestStays
    <3> QED
      BY <2>1, <2>2, <3>1, <3>2, <1>grows, KnownStays
  <2>4. CASE Runnable
    <3>1. Kept(w) /\ worker'[w].phase = FirstPhase /\ worker'[w].at = 0
      BY <1>21, <2>4 DEF Deliver, IdleSlot, TypeOK
    <3>2. ASSUME kind # "block"
          PROVE  Manifest(w)'
      <4>1. CASE job.manifested \/ subject = "gone"
        <5>1. Listed(Row) /\ Listed(Owned)
          BY <1>9, <3>2, <4>1 DEF Saved
        <5>2. worker'[w].phase \in Later
          BY <3>1, <3>2, <4>1 DEF FirstPhase, AfterManifest, Later, Draining
        <5> QED
          BY <1>8, <5>1, <5>2
      <4>2. CASE ~(job.manifested \/ subject = "gone")
        <5>1. worker'[w].phase = "refs"
          BY <3>1, <3>2, <4>2 DEF FirstPhase
        <5>2. \A o \in Row : ~(o <= 0)
          BY <1>1 DEF Object
        <5>3. Listed(UpTo(Row, worker[w].at))'
          BY <3>1, <5>2 DEF Listed, UpTo
        <5> QED
          BY <5>1, <5>3 DEF Manifest, Draining
      <4> QED
        BY <4>1, <4>2
    <3> QED
      BY <2>1, <2>2, <3>1, <3>2, <1>grows, KnownStays
  <2> QED
    BY <2>3, <2>4
<1>22. ASSUME NEW w \in Worker, RegisterRefs(w)
       PROVE  Known'
  <2> DEFINE page == IF kind = "user" THEN NamedByRows ELSE PageOf(NamedByRows, worker[w].at)
  <2>1. UNCHANGED <<kind, job, subject, rows, store, cursor>> /\ item' = Registered(page)
    BY <1>22 DEF RegisterRefs
  <2>2. Saved'
    BY <1>9, <2>1, <1>grows, SavedStays
  <2>3. /\ kind # "block" /\ worker[w].phase = "refs"
        /\ \A o \in UpTo(Row, worker[w].at) : o \in store' => item'[o] # "none"
    <3>1. worker[w].phase = "refs" /\ kind # "block"
      BY <1>5, <1>22 DEF RegisterRefs, PhaseFits, Listing
    <3>2. UpTo(Row, worker[w].at) \subseteq Object /\ Listed(UpTo(Row, worker[w].at))
      BY <1>5, <3>1, ObjectSets DEF Manifest
    <3> QED
      BY <1>4, <3>1, <3>2
  <2>4. \A o \in Row \ rows : o \in store' => item'[o] # "none"
    <3>1. Row \ rows \subseteq Object /\ Listed(Row \ rows)
      BY <1>1, <1>9 DEF Saved
    <3> QED
      BY <1>4, <3>1
  <2>5. NamedByRows \subseteq rows /\ NamedByRows \subseteq Object
    BY <1>1 DEF NamedByRows
  <2>6. page \subseteq NamedByRows /\ \A o \in page : item'[o] # "none"
    <3>1. page \subseteq NamedByRows
      BY DEF PageOf
    <3> HIDE DEF page
    <3> QED
      BY <2>1, <2>5, <3>1 DEF Registered
  <2>7. CASE page = {} \/ kind = "user"
    <3>1. \A o \in FirstNamed : o \in store' => item'[o] # "none"
      <4>1. CASE kind = "user"
        BY <2>4, <2>6, <4>1 DEF FirstNamed, NamedByRows
      <4>2. CASE kind # "user" /\ page = {}
        <5>1. NamedByRows = rows /\ PageOf(rows, worker[w].at) = {}
          BY <4>2 DEF NamedByRows
        <5>2. rows \subseteq Object
          BY <1>1
        <5>3. \A o \in rows : o <= worker[w].at
          BY <1>1, <5>1, <5>2, PageFacts
        <5>4. \A o \in rows : o \in UpTo(Row, worker[w].at)
          BY <1>1, <5>3 DEF UpTo
        <5> QED
          BY <2>3, <2>4, <4>2, <5>4 DEF FirstNamed
      <4> QED
        BY <2>7, <4>1, <4>2
    <3>2. CASE ~cursor.completed
      <4>1. Kept(w) /\ worker'[w].phase = "scan" /\ worker'[w].at = cursor.at
        <5>1. GoAt(w, "scan", cursor.at)
          BY <1>22, <2>7, <3>2 DEF RegisterRefs
        <5> QED
          BY <1>3, <5>1
      <4>2. Listed(UpTo(Owned, cursor.at))'
        BY <2>1, <2>2, <2>3 DEF Saved
      <4>3. Listed(UpTo(Owned, worker[w].at))'
        BY <2>1, <4>1, <4>2 DEF Listed, UpTo, Owned
      <4>4. Listed(FirstNamed)'
        BY <2>1, <3>1 DEF Listed, FirstNamed
      <4>5. Manifest(w)'
        BY <4>1, <4>3, <4>4 DEF Manifest, Draining
      <4> QED
        BY <2>1, <2>2, <4>1, <4>5, <1>grows, KnownStays
    <3>3. CASE cursor.completed
      <4>1. Kept(w) /\ worker'[w].phase = AfterScan
        <5>1. GoAt(w, AfterScan, 0)
          BY <1>22, <2>7, <3>3 DEF RegisterRefs
        <5> QED
          BY <1>3, <5>1
      <4>2. Listed(Owned)'
        BY <2>1, <2>2, <2>3, <3>3 DEF Saved
      <4>3. kind # "user" => Listed(Row)'
        BY <3>1 DEF Listed, FirstNamed
      <4>4. kind = "user" => Listed(Row \ Feedback)'
        BY <3>1 DEF Listed, FirstNamed
      <4>5. Manifest(w)'
        BY <4>1, <4>2, <4>3, <4>4 DEF Manifest, Draining, AfterScan
      <4> QED
        BY <2>1, <2>2, <4>1, <4>5, <1>grows, KnownStays
    <3> QED
      BY <3>2, <3>3
  <2>8. CASE ~(page = {} \/ kind = "user")
    <3>1. page = PageOf(rows, worker[w].at) /\ page # {} /\ rows \subseteq Object
      BY <1>1, <2>8 DEF NamedByRows
    <3>2. GoAt(w, "refs", LastOf(page))
      BY <1>22, <2>8 DEF RegisterRefs
    <3> HIDE DEF page
    <3>3. Kept(w) /\ worker'[w].phase = "refs" /\ worker'[w].at = LastOf(page)
      BY <1>3, <3>2
    <3>4. \A o \in rows : o <= LastOf(page) => o <= worker[w].at \/ o \in page
      BY <1>1, <3>1, PageFacts
    <3>5. ASSUME NEW o \in Row, o <= LastOf(page), o \in store'
          PROVE  item'[o] # "none"
      <4>1. CASE o \notin rows
        BY <2>4, <3>5, <4>1
      <4>2. CASE o \in rows /\ o <= worker[w].at
        BY <2>3, <3>5, <4>2 DEF UpTo
      <4>3. CASE o \in rows /\ o \in page
        BY <2>6, <4>3
      <4> QED
        BY <3>4, <3>5, <4>1, <4>2, <4>3
    <3>6. Listed(UpTo(Row, worker[w].at))'
      BY <3>3, <3>5 DEF Listed, UpTo
    <3>7. Manifest(w)'
      BY <3>3, <3>6 DEF Manifest, Draining
    <3> QED
      BY <2>1, <2>2, <3>3, <3>7, <1>grows, KnownStays
  <2> QED
    BY <2>7, <2>8
<1>23. ASSUME NEW w \in Worker, ScanPage(w)
       PROVE  Known'
  <2> DEFINE page == PageOf(Scannable, worker[w].at)
  <2>1. UNCHANGED <<kind, job, subject, rows, store>>
    BY <1>23 DEF ScanPage
  <2>2. kind # "block" /\ worker[w].phase = "scan"
    BY <1>5, <1>23 DEF ScanPage, PhaseFits, Listing
  <2>3. Listed(FirstNamed) /\ Listed(UpTo(Owned, worker[w].at))
    BY <1>5, <2>2 DEF Manifest
  <2>4. \A o \in FirstNamed : o \in store' => item'[o] # "none"
    <3>1. FirstNamed \subseteq Object
      BY ObjectSets
    <3> QED
      BY <1>4, <2>3, <3>1
  <2>5. \A o \in UpTo(Owned, worker[w].at) : o \in store' => item'[o] # "none"
    <3>1. UpTo(Owned, worker[w].at) \subseteq Object
      BY ObjectSets
    <3> QED
      BY <1>4, <2>3, <3>1
  <2>6. /\ \A o \in Owned : o \in store' => o \in Scannable
        /\ Scannable \subseteq Object
    BY <2>1, ObjectSets DEF Scannable, Owned
  <2>7. CASE page = {}
    <3>1. Kept(w) /\ worker'[w].phase = AfterScan /\ cursor' = [cursor EXCEPT !.completed = TRUE]
      BY <1>2, <1>23, <2>7 DEF ScanPage
    <3>2. \A o \in Scannable : o <= worker[w].at
      BY <1>1, <2>6, <2>7, PageFacts
    <3>3. \A o \in Owned : o \in store' => item'[o] # "none"
      BY <2>5, <2>6, <3>2 DEF UpTo
    <3>4. Listed(Owned)'
      BY <3>3 DEF Listed, Owned
    <3>5. Saved'
      <4>1. Listed(UpTo(Owned, cursor.at))'
        BY <3>4 DEF Listed, UpTo
      <4>2. Listed(Row \ rows)'
        <5>1. Row \ rows \subseteq Object /\ Listed(Row \ rows)
          BY <1>1, <1>9 DEF Saved
        <5>2. \A o \in Row \ rows : o \in store' => item'[o] # "none"
          BY <1>4, <5>1
        <5> QED
          BY <2>1, <5>2 DEF Listed
      <4>3. job.manifested \/ subject = "gone" => Listed(Row)' /\ Listed(Owned)'
        BY <1>6, <1>9, <2>2 DEF Saved
      <4> QED
        BY <2>1, <3>4, <4>1, <4>2, <4>3 DEF Saved
    <3>6. kind # "user" => Listed(Row)'
      BY <2>4 DEF Listed, FirstNamed
    <3>7. kind = "user" => Listed(Row \ Feedback)'
      BY <2>4 DEF Listed, FirstNamed
    <3>8. Manifest(w)'
      BY <3>1, <3>4, <3>6, <3>7 DEF Manifest, Draining, AfterScan
    <3> QED
      BY <2>1, <3>1, <3>5, <3>8, <1>grows, KnownStays
  <2>8. CASE page # {}
    <3>1. item' = Registered(page) /\ GoAt(w, "advance", LastOf(page)) /\ cursor' = cursor
      BY <1>23, <2>8 DEF ScanPage
    <3>2. Saved'
      BY <1>9, <2>1, <3>1, <1>grows, SavedStays
    <3>3. /\ page \subseteq Scannable
          /\ \A o \in Scannable : o <= LastOf(page) => o <= worker[w].at \/ o \in page
      BY <1>1, <2>6, <2>8, PageFacts
    <3> HIDE DEF page
    <3>4. Kept(w) /\ worker'[w].phase = "advance" /\ worker'[w].at = LastOf(page)
      BY <1>3, <3>1
    <3>5. \A o \in page : item'[o] # "none"
      BY <2>6, <3>1, <3>3 DEF Registered
    <3>6. ASSUME NEW o \in Owned, o <= LastOf(page), o \in store'
          PROVE  item'[o] # "none"
      BY <2>5, <2>6, <3>3, <3>5, <3>6 DEF UpTo
    <3>7. Listed(UpTo(Owned, worker[w].at))'
      BY <3>4, <3>6 DEF Listed, UpTo, Owned
    <3>8. Listed(FirstNamed)'
      BY <2>1, <2>4 DEF Listed, FirstNamed
    <3>9. Manifest(w)'
      BY <3>4, <3>7, <3>8 DEF Manifest, Draining
    <3> QED
      BY <2>1, <3>2, <3>4, <3>9, <1>grows, KnownStays
  <2> QED
    BY <2>7, <2>8
<1>24. ASSUME NEW w \in Worker, AdvanceCursor(w)
       PROVE  Known'
  <2>1. UNCHANGED <<kind, job, subject, rows, store, item>>
    BY <1>24 DEF AdvanceCursor
  <2>2. kind # "block" /\ worker[w].phase = "advance"
    BY <1>5, <1>24 DEF AdvanceCursor, PhaseFits, Listing
  <2>3. Listed(FirstNamed) /\ Listed(UpTo(Owned, worker[w].at))
    BY <1>5, <2>2 DEF Manifest
  <2>4. Kept(w) /\ worker'[w].phase = "scan" /\ worker'[w].at = worker[w].at
    BY <1>2, <1>24 DEF AdvanceCursor
  <2>5. (cursor'.at = cursor.at \/ cursor'.at = worker[w].at) /\ cursor'.completed = cursor.completed
    BY <1>24 DEF AdvanceCursor, ScannedTo, TypeOK
  <2>6. Saved'
    <3>1. Listed(UpTo(Owned, cursor.at))'
      BY <1>9, <2>1, <2>2, <2>3, <2>5 DEF Saved, Listed, UpTo, Owned
    <3> QED
      BY <1>9, <2>1, <2>2, <2>5, <3>1 DEF Saved, Listed, Owned
  <2>7. Manifest(w)'
    BY <2>1, <2>3, <2>4 DEF Manifest, Draining, Listed, UpTo, Owned, FirstNamed
  <2> QED
    BY <2>1, <2>4, <2>6, <2>7, <1>grows, KnownStays
<1>25. ASSUME NEW w \in Worker, RegisterFeedback(w)
       PROVE  Known'
  <2>1. UNCHANGED <<kind, job, subject, rows, store, cursor>> /\ item' = Registered(rows \cap Feedback)
    BY <1>25 DEF RegisterFeedback
  <2>2. Saved'
    BY <1>9, <2>1, <1>grows, SavedStays
  <2>3. kind = "user" /\ worker[w].phase = "feedback"
    BY <1>5, <1>25 DEF RegisterFeedback, PhaseFits
  <2>4. Listed(Row \ Feedback) /\ Listed(Owned)
    BY <1>5, <2>3 DEF Manifest
  <2>5. Kept(w) /\ worker'[w].phase = "seal"
    BY <1>2, <1>25 DEF RegisterFeedback
  <2>6. \A o \in Row \ Feedback : o \in store' => item'[o] # "none"
    <3>1. Row \ Feedback \subseteq Object
      BY <1>1
    <3> QED
      BY <1>4, <2>4, <3>1
  <2>7. \A o \in Row \ rows : o \in store' => item'[o] # "none"
    <3>1. Row \ rows \subseteq Object /\ Listed(Row \ rows)
      BY <1>1, <1>9 DEF Saved
    <3> QED
      BY <1>4, <3>1
  <2>8. \A o \in rows \cap Feedback : item'[o] # "none"
    BY <1>1, <2>1 DEF Registered
  <2>9. \A o \in Owned : o \in store' => item'[o] # "none"
    BY <1>4, <2>4, ObjectSets
  <2>10. Listed(Row)'
    BY <2>6, <2>7, <2>8 DEF Listed
  <2>11. Listed(Owned)'
    BY <2>9 DEF Listed, Owned
  <2>12. Manifest(w)'
    BY <2>5, <2>10, <2>11 DEF Manifest, Draining
  <2> QED
    BY <2>1, <2>2, <2>5, <2>12, <1>grows, KnownStays
<1>26. ASSUME NEW w \in Worker, SealManifest(w)
       PROVE  Known'
  <2>1. UNCHANGED <<kind, subject, rows, store, item, cursor>>
    BY <1>26 DEF SealManifest
  <2>2. kind # "block" /\ worker[w].phase = "seal"
    BY <1>5, <1>26 DEF SealManifest, PhaseFits, Listing
  <2>3. Listed(Row) /\ Listed(Owned)
    BY <1>5, <2>2 DEF Manifest
  <2>4. Saved'
    BY <1>6, <1>9, <2>1, <2>3 DEF Saved, Listed, UpTo, Owned
  <2>5. Kept(w) /\ worker'[w].phase \in Later
    BY <1>2, <1>26 DEF SealManifest, AfterManifest, Later, Draining
  <2> QED
    BY <1>8, <2>1, <2>3, <2>4, <2>5, <1>grows, KnownStays
<1>27. ASSUME NEW w \in Worker, CheckSubject(w) \/ PurgeCourse(w) \/ PurgeUser(w)
       PROVE  Known'
  <2>1. UNCHANGED <<kind, job, subject, store, item, cursor>>
    BY <1>27 DEF CheckSubject, PurgeCourse, PurgeUser, DeleteBatch
  <2>2. kind # "block" /\ worker[w].phase \in {"check", "rows"}
    BY <1>5, <1>27 DEF PhaseFits, Listing, CheckSubject, PurgeCourse, PurgeUser, DeleteBatch
  <2>3. Listed(Row) /\ Listed(Owned)
    BY <1>5, <2>2 DEF Manifest, Draining
  <2>4. Saved'
    BY <1>6, <1>9, <2>1, <2>3 DEF Saved, Listed, UpTo, Owned
  <2>5. worker' = worker \/ \E p \in {AfterPurge, "rows", "subject"} : Go(w, p)
    BY <1>27 DEF CheckSubject, PurgeCourse, PurgeUser, DeleteBatch
  <2>6. Kept(w) /\ worker'[w].phase \in Later
    BY <1>2, <2>2, <2>5 DEF AfterPurge, Later, Draining
  <2> QED
    BY <1>8, <2>1, <2>3, <2>4, <2>6, <1>grows, KnownStays
<1>28. ASSUME NEW w \in Worker, DeleteSubject(w)
       PROVE  Known'
  <2>1. UNCHANGED <<kind, job, store, item, cursor>>
    BY <1>28 DEF DeleteSubject
  <2>2. kind # "block" /\ worker[w].phase = "subject"
    BY <1>5, <1>28 DEF DeleteSubject, PhaseFits, Listing
  <2>3. Listed(Row) /\ Listed(Owned)
    BY <1>5, <2>2 DEF Manifest
  <2>4. Saved'
    BY <1>6, <1>9, <2>1, <2>3 DEF Saved, Listed, UpTo, Owned
  <2>5. Kept(w) /\ worker'[w].phase \in {"failed"} \cup Later
    BY <1>2, <1>28 DEF DeleteSubject, AfterPurge, Later, Draining
  <2>6. Manifest(w)'
    BY <1>7, <1>8, <2>3, <2>5
  <2> QED
    BY <2>1, <2>4, <2>5, <2>6, <1>grows, KnownStays
<1>29. ASSUME NEW w \in Worker, PurgeLeaves(w)
       PROVE  Known'
  <2>1. kind' = kind /\ kind = "block" /\ store' = store
    BY <1>5, <1>29 DEF PurgeLeaves, PhaseFits
  <2>2. Kept(w)
    BY <1>2, <1>29 DEF PurgeLeaves
  <2>3. \A o \in Row \ rows : o \in store' => item'[o] # "none"
    <3>1. Row \ rows \subseteq Object /\ Listed(Row \ rows)
      BY <1>1, <1>9 DEF Saved
    <3> QED
      BY <1>4, <3>1
  <2>4. Listed(Row \ rows)'
    <3>1. CASE rows' = rows
      BY <2>3, <3>1 DEF Listed
    <3>2. ASSUME NEW leaves \in SUBSET rows, rows' = rows \ leaves, item' = LeafItems(leaves)
          PROVE  Listed(Row \ rows)'
      <4>1. \A o \in leaves : item'[o] # "none"
        BY <1>1, <3>2 DEF LeafItems, Registered
      <4> QED
        BY <2>3, <3>2, <4>1 DEF Listed
    <3> QED
      BY <1>29, <3>1, <3>2 DEF PurgeLeaves
  <2>5. Saved'
    BY <2>1, <2>4 DEF Saved
  <2> QED
    BY <2>1, <2>2, <2>5, <1>grows, KnownStays
<1>30. ASSUME NEW w \in Worker, ClaimItems(w) \/ RemoveObjects(w) \/ MarkItems(w) \/ ReleaseItems(w)
       PROVE  Known'
  <2>1. UNCHANGED <<kind, job, subject, rows, cursor>>
    BY <1>30 DEF ClaimItems, RemoveObjects, MarkItems, ReleaseItems
  <2>2. Saved'
    BY <1>9, <2>1, <1>grows, SavedStays
  <2>3. worker[w].phase \in Draining
    BY <1>30 DEF ClaimItems, RemoveObjects, MarkItems, ReleaseItems, Draining
  <2>4. Kept(w) /\ worker'[w].phase \in {"failed"} \cup Later
    <3>1. CASE ClaimItems(w)
      BY <3>1 DEF ClaimItems, TypeOK, Slot, Later, Draining
    <3>2. CASE RemoveObjects(w) \/ MarkItems(w) \/ ReleaseItems(w)
      <4>1. \E p \in {"mark", "release", "claim", "failed"} : Go(w, p)
        BY <3>2 DEF RemoveObjects, MarkItems, ReleaseItems
      <4> QED
        BY <1>2, <4>1 DEF Later, Draining
    <3> QED
      BY <1>30, <3>1, <3>2
  <2>5. ASSUME kind # "block"
        PROVE  Manifest(w)'
    <3>1. Listed(Row) /\ Listed(Owned)
      BY <1>5, <2>3, <2>5 DEF Manifest
    <3> QED
      BY <1>7, <1>8, <2>4, <3>1
  <2> QED
    BY <2>1, <2>2, <2>4, <2>5, <1>grows, KnownStays
<1>32. ASSUME NEW w \in Worker, RunFailed(w) \/ RetriesExhausted(w) \/ Throw(w) \/ Crash(w)
       PROVE  Known'
  <2>1. UNCHANGED <<kind, subject, rows, cursor>>
    BY <1>32 DEF RunFailed, RetriesExhausted, Throw, Crash
  <2>2. job'.manifested = job.manifested
    <3>1. job' = job \/ job' = Retryable
      BY <1>32 DEF RunFailed, RetriesExhausted, Throw, Crash
    <3>2. Retryable.manifested = job.manifested
      BY DEF Retryable, TypeOK, JobRow
    <3> QED
      BY <3>1, <3>2
  <2>3. Saved'
    BY <1>9, <2>1, <2>2, <1>grows, SavedStays
  <2>4. Kept(w) /\ worker'[w].phase \in {"idle", "failed", "exhausted"}
    <3>1. Go(w, "exhausted") \/ Go(w, "failed") \/ worker' = [worker EXCEPT ![w] = IdleSlot]
      BY <1>32 DEF RunFailed, RetriesExhausted, Throw, Crash
    <3>2. CASE worker' = [worker EXCEPT ![w] = IdleSlot]
      BY <3>2 DEF IdleSlot, TypeOK
    <3> QED
      BY <1>2, <3>1, <3>2
  <2> QED
    BY <1>7, <2>1, <2>3, <2>4, <1>grows, KnownStays
<1>33. ASSUME NEW w \in Worker, Stall(w) \/ Resume(w)
       PROVE  Known'
  <2>1. UNCHANGED <<kind, job, subject, rows, cursor>>
    BY <1>33 DEF Stall, Resume
  <2>2. Saved'
    BY <1>9, <2>1, <1>grows, SavedStays
  <2>3. Kept(w) /\ worker'[w].phase = worker[w].phase /\ worker'[w].at = worker[w].at
    BY <1>33 DEF Stall, Resume, TypeOK, Slot
  <2>4. kind # "block" => Manifest(w)'
    BY <1>5, <2>1, <2>3, <1>grows, ManifestStays
  <2> QED
    BY <2>1, <2>2, <2>3, <2>4, <1>grows, KnownStays
<1> QED
  BY <1>20, <1>21, <1>22, <1>23, <1>24, <1>25, <1>26, <1>27, <1>28, <1>29, <1>30, <1>32, <1>33,
     <1>succeed
  DEF Next, Step

(* Nothing is listed yet, and every row still names its object. *)
LEMMA InitRemembered == Init => Remembered
<1> SUFFICES ASSUME Init
             PROVE  Remembered
  OBVIOUS
<1>1. \A o \in Owned : ~(o <= 0)
  BY ObjectSets, SubjectAssumption DEF Object
<1>2. Saved
  BY <1>1 DEF Init, Saved, Listed, UpTo, NoCursor
<1>3. \A w \in Worker : Manifest(w)
  BY DEF Init, Manifest, IdleSlot, Draining
<1>4. Removed
  BY DEF Init, Removed, IdleSlot
<1> QED
  BY <1>2, <1>3, <1>4 DEF Remembered, Known

(* What the inductive invariant remembers covers every doomed object. *)
LEMMA RememberedIsFound ==
  ASSUME TypeOK, Purged, Remembered
  PROVE  NothingForgotten
<1> SUFFICES ASSUME job.status # "succeeded", NEW o \in Doomed \cap store, o \notin rows
             PROVE  \/ o \in Unfinished
                    \/ o \in Prefixed /\ o > cursor.at /\ ~cursor.completed /\ subject # "gone"
  BY DEF NothingForgotten
<1>1. Saved
  BY DEF Remembered, Known
<1>2. o \in Object /\ cursor.at \in Nat /\ o \in Nat
  BY SubjectAssumption DEF Doomed, Object, TypeOK
<1>3. item[o] # "none" => o \in Unfinished
  BY <1>2 DEF Remembered, Removed, Unfinished, TypeOK, ItemStatus
<1>4. CASE o \in Row
  BY <1>1, <1>3, <1>4 DEF Saved, Listed
<1>5. CASE o \in Owned /\ kind # "block"
  <2>1. CASE o <= cursor.at \/ cursor.completed \/ subject = "gone"
    BY <1>1, <1>3, <1>5, <2>1 DEF Saved, Listed, UpTo
  <2>2. CASE ~(o <= cursor.at \/ cursor.completed \/ subject = "gone")
    BY <1>2, <1>5, <2>2 DEF Owned
  <2> QED
    BY <2>1, <2>2
<1> QED
  BY <1>4, <1>5 DEF Doomed, Owned

(* Until a job succeeds, no crash, stall, retry or takeover makes it       *)
(* forget an object of its subject: the object is named by a row, listed   *)
(* in the manifest, or ahead of the saved scan.                            *)
THEOREM ManifestIsComplete == Spec => []NothingForgotten
<1> DEFINE All == TypeOK /\ Attempts /\ Purged
<1>1. All /\ Remembered /\ [Next]_vars => Remembered'
  <2> SUFFICES ASSUME TypeOK, Attempts, Purged, Remembered, [Next]_vars
               PROVE  Remembered'
    OBVIOUS
  <2>1. CASE Next
    <3>1. Removed'
      BY <2>1, RemovedStep DEF Remembered
    <3>2. ASSUME job'.status # "succeeded"
          PROVE  Known'
      <4>1. job.status # "succeeded"
        <5> SUFFICES ASSUME job.status = "succeeded"
                     PROVE  FALSE
          OBVIOUS
        <5>1. subject = "gone" /\ ~job.terminal
          BY DEF Purged
        <5>2. job'.status = job.status
          <6>1. Retryable = job
            BY DEF Retryable
          <6>2. ~Runnable /\ ~Enqueue
            BY <5>1 DEF Runnable, Enqueue
          <6> QED
            BY <2>1, <3>2, <5>1, <6>1, <6>2
            DEF Next, Step, RequestCourse, RequestUser, OperatorRetry, Sweep, BackoffEnds, LeaseLapses,
              ItemLapses, Deliver, Touch, Throw, Crash, Stall, Resume, RegisterRefs, ScanPage,
              AdvanceCursor, RegisterFeedback, SealManifest, CheckSubject, PurgeCourse, PurgeUser, DeleteBatch,
              DeleteSubject, PurgeLeaves, ClaimItems, RemoveObjects, MarkItems, ReleaseItems, Succeed,
              RunFailed, RetriesExhausted, TypeOK, JobRow
        <5> QED
          BY <3>2, <5>2
      <4> QED
        BY <2>1, <3>2, <4>1, KnownStep DEF Remembered
    <3> QED
      BY <3>1, <3>2 DEF Remembered
  <2>2. CASE UNCHANGED vars
    BY <2>2 DEF vars, Remembered, Known, Saved, Removed, Manifest, Listed, UpTo, Owned, FirstNamed
  <2> QED
    BY <2>1, <2>2
<1>2. All /\ Remembered => NothingForgotten
  BY RememberedIsFound
<1>3. Spec => []All
  BY PurgedAlways
<1> HIDE DEF All
<1> QED
  BY <1>1, <1>2, <1>3, InitRemembered, PTL DEF Spec

=============================================================================
