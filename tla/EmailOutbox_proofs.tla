------------------------- MODULE EmailOutbox_proofs -------------------------
(***************************************************************************)
(* Proofs about EmailOutbox: its safety invariants, for every number of    *)
(* workers, recipients and faults.                                         *)
(*                                                                         *)
(*  - Fit: what a worker has read is still true enough of the rows when it *)
(*    acts on them: its page follows the cursor, a claimed mail was        *)
(*    written before, its row, if it still exists, has at least the        *)
(*    attempts the worker read, and a recipient that was active when it    *)
(*    was checked and is not any more has no row.                          *)
(*  - Exact: the cursor separates the recipients that have been written    *)
(*    from those that have not.                                            *)
(*  - Paid: the copies of a mail, the workers that may still send it and   *)
(*    its row, when it may be claimed, are at most one more than the       *)
(*    faults; and from its last attempt on the attempts of a row, the      *)
(*    workers that may still count one and those that would not give it up *)
(*    are at most its limit and two for each fault.                        *)
(***************************************************************************)
EXTENDS EmailOutbox, FiniteSetTheorems, DataLemmas

-----------------------------------------------------------------------------
(* The inductive invariants *)

(* The types of TypeOK, without the bound on the attempts. *)
Row ==
  [status : {"none", "pending", "sending", "stale", "sent", "failed"},
   attempts : Nat, due : BOOLEAN]

Process ==
  [phase : {"idle", "fanout", "page", "fanfail", "group", "release", "config",
            "filter", "cancel", "connect", "send", "mark", "unseen", "end"},
   page : SUBSET Mail, held : SUBSET Mail, copy : [Mail -> Nat],
   todo : SUBSET Mail, cur : 0..N, ok : BOOLEAN, good : BOOLEAN, infra : BOOLEAN]

Shape ==
  /\ course \in {"active", "requested", "unmailed", "purged"}
  /\ user \in [Mail -> {"active", "requested"}]
  /\ fan \in FanRow
  /\ lock \in Worker \cup {None}
  /\ mail \in [Mail -> Row]
  /\ worker \in [Worker -> Process]
  /\ circuit \in [Worker -> [failures : 0..Threshold, cooling : BOOLEAN]]
  /\ inserted \in [Mail -> Nat]
  /\ sends \in [Mail -> Nat]
  /\ faults \in 0..MaxFaults

(* The page a worker has read: it leaves out no active recipient. *)
PageFits(w) ==
  worker[w].phase = "page" =>
    /\ lock = w
    /\ \A r \in worker[w].page : r > fan.last
    /\ \A r \in Mail : r > fan.last /\ user[r] = "active" =>
         ((LastPage(worker[w].page) \/ \E q \in worker[w].page : r <= q) => r \in worker[w].page)

ClaimFits(w) ==
  /\ worker[w].todo \subseteq worker[w].held
  /\ worker[w].phase = "mark" => worker[w].cur \in worker[w].todo
  /\ \A m \in worker[w].held :
       /\ inserted[m] >= 1
       /\ mail[m].status # "none" => mail[m].attempts >= worker[w].copy[m]
  /\ worker[w].phase \in {"cancel", "connect", "send", "mark"} =>
       \A m \in worker[w].todo : user[m] = "requested" => mail[m].status = "none"

Fit == \A w \in Worker : PageFits(w) /\ ClaimFits(w)

Exact ==
  /\ lock # None => course = "active"
  /\ \A r \in Mail :
       /\ inserted[r] <= 1
       /\ inserted[r] = 0 => mail[r].status = "none" /\ sends[r] = 0
       /\ r > fan.last => inserted[r] = 0
       /\ user[r] = "active" /\ (r <= fan.last \/ fan.status = "done") => inserted[r] = 1

(* A worker that may still send m. *)
Carrier(w, m) ==
  \/ worker[w].phase \in {"group", "filter", "cancel"} /\ m \in worker[w].held
  \/ worker[w].phase \in {"release", "config", "connect", "send", "unseen"} /\ m \in worker[w].todo
  \/ worker[w].phase = "mark" /\ m \in worker[w].todo /\ ~(worker[w].ok /\ worker[w].cur = m)

(* A worker that will write the result of m. *)
Attends(w, m) ==
  Carrier(w, m) \/ (worker[w].phase = "mark" /\ worker[w].ok /\ worker[w].cur = m)

Carriers(m) == {w \in Worker : Carrier(w, m)}

(* The row may be claimed, by and by, without a fault. *)
Claimable(m) ==
  \/ mail[m].status \in {"pending", "failed", "stale"}
  \/ mail[m].status = "sending" /\ \A w \in Worker : ~Attends(w, m)

Loose(m) == IF Claimable(m) THEN 1 ELSE 0

-----------------------------------------------------------------------------
(* Types *)

(* A fresh process and a fresh row have their types. *)
LEMMA FreshTypes ==
  Idle \in Process /\ NoRow \in Row /\ Closed \in [failures : 0..Threshold, cooling : BOOLEAN]
BY OutboxAssumption DEF Idle, Process, NoRow, Row, Closed

LEMMA InitShape == Init => Shape
<1> SUFFICES ASSUME Init
             PROVE  Shape
  OBVIOUS
<1>1. fan \in FanRow
  BY OutboxAssumption DEF Init, FanRow
<1> QED
  BY <1>1, FreshTypes, OutboxAssumption DEF Init, Shape

(* A write of a row keeps the table's type. *)
LEMMA UpdateType ==
  ASSUME Shape, NEW m \in Mail, NEW row \in Row, Update(m, row)
  PROVE  mail' \in [Mail -> Row]
BY DEF Update, Shape

LEMMA RetryType ==
  ASSUME Shape, NEW w \in Worker, NEW m \in Mail, MarkRetry(w, m)
  PROVE  mail' \in [Mail -> Row]
<1> DEFINE row == [status |-> StatusAfter(worker[w].copy[m]), attempts |-> mail[m].attempts + 1, due |-> FALSE]
<1>1. mail[m].attempts + 1 \in Nat
  BY DEF Shape, Row
<1>2. StatusAfter(worker[w].copy[m]) \in {"failed", "pending"}
  BY DEF StatusAfter
<1>3. row \in Row
  BY <1>1, <1>2 DEF Row
<1>4. Update(m, row)
  BY DEF MarkRetry
<1> HIDE DEF row
<1> QED
  BY <1>3, <1>4, UpdateType

(* The circuit of a tenant counts up to its threshold. *)
LEMMA CircuitType ==
  ASSUME Shape, NEW w \in Worker, SmtpFailure(w)
  PROVE  circuit' \in [Worker -> [failures : 0..Threshold, cooling : BOOLEAN]]
<1> DEFINE n == circuit[w].failures + 1
           c == [failures |-> IF n > Threshold THEN Threshold ELSE n, cooling |-> n >= Threshold]
<1>1. circuit[w].failures \in 0..Threshold /\ Threshold \in Nat
  BY OutboxAssumption DEF Shape
<1>2. (IF n > Threshold THEN Threshold ELSE n) \in 0..Threshold
  BY <1>1
<1>3. (n >= Threshold) \in BOOLEAN
  <2>1. CASE n >= Threshold
    BY <2>1
  <2>2. CASE ~(n >= Threshold)
    BY <2>2
  <2> QED
    BY <2>1, <2>2
<1>4. c \in [failures : 0..Threshold, cooling : BOOLEAN]
  BY <1>2, <1>3
<1>5. circuit' = circuit \/ circuit' = [circuit EXCEPT ![w] = c]
  BY DEF SmtpFailure
<1> HIDE DEF c
<1> QED
  BY <1>4, <1>5 DEF Shape

(* The last recipient of a page. *)
LEMMA LastOfPage ==
  ASSUME NEW P, P \subseteq Mail, P # {}
  PROVE  LastOf(P) \in P /\ \A q \in P : q <= LastOf(P)
<1>1. P \subseteq 0..N /\ N \in Nat
  BY OutboxAssumption DEF Mail
<1>2. \E x \in P : \A y \in P : y <= x
  BY <1>1, HasGreatest
<1> QED
  BY <1>2 DEF LastOf

(* Every action keeps every row within its type. *)
LEMMA ShapeStep ==
  ASSUME Shape, Next
  PROVE  Shape'
<1> DEFINE Phase == {"idle", "fanout", "page", "fanfail", "group", "release", "config",
                     "filter", "cancel", "connect", "send", "mark", "unseen", "end"}
<1>1. faults \in 0..MaxFaults /\ MaxFaults \in Nat /\ N \in Nat
  BY OutboxAssumption DEF Shape
<1>2. Fault \/ NoFault => faults' \in 0..MaxFaults
  BY <1>1 DEF Fault, NoFault
<1>3. ASSUME NEW w \in Worker
      PROVE  Stop(w) => worker' \in [Worker -> Process]
  BY FreshTypes DEF Stop, Shape
<1>4. ASSUME NEW w \in Worker, NEW p \in Phase
      PROVE  Go(w, p) => worker' \in [Worker -> Process]
  <2>1. worker[w] \in Process
    BY DEF Shape
  <2>2. [worker[w] EXCEPT !.phase = p] \in Process
    BY <2>1 DEF Process
  <2>3. Go(w, p) => worker' = [worker EXCEPT ![w] = [worker[w] EXCEPT !.phase = p]]
    BY DEF Go, Shape
  <2> QED
    BY <2>2, <2>3 DEF Shape
<1>5. ASSUME NEW w \in Worker
      PROVE  worker[w] \in Process /\ worker[w].todo \subseteq Mail /\ worker[w].held \subseteq Mail /\ worker[w].page \subseteq Mail
  BY DEF Shape, Process
<1>6. ASSUME NEW m \in Mail
      PROVE  mail[m] \in Row
  BY DEF Shape
<1> HIDE DEF Phase
<1>20. ASSUME NEW w \in Worker, ClaimFanout(w)
       PROVE  Shape'
  <2>1. worker' \in [Worker -> Process]
    BY <1>4, <1>20 DEF ClaimFanout, Phase
  <2>2. fan' \in FanRow
    BY <1>20 DEF ClaimFanout, Shape, FanRow
  <2> QED
    BY <1>20, <2>1, <2>2 DEF ClaimFanout, Shape
<1>21. ASSUME NEW w \in Worker, BeginFanout(w)
       PROVE  Shape'
  <2>1. fan' \in FanRow /\ lock' \in Worker \cup {None}
    BY <1>21 DEF BeginFanout, Shape, FanRow
  <2>2. worker' \in [Worker -> Process]
    <3>1. NextPage \in SUBSET Mail
      BY DEF NextPage
    <3>2. CASE worker' = [worker EXCEPT ![w].phase = "page", ![w].page = NextPage]
      <4>1. [worker[w] EXCEPT !.phase = "page", !.page = NextPage] \in Process
        BY <1>5, <3>1 DEF Process
      <4>2. worker' = [worker EXCEPT ![w] = [worker[w] EXCEPT !.phase = "page", !.page = NextPage]]
        BY <3>2 DEF Shape
      <4> QED
        BY <4>1, <4>2 DEF Shape
    <3> QED
      BY <1>3, <1>21, <3>2 DEF BeginFanout
  <2> QED
    BY <1>21, <2>1, <2>2 DEF BeginFanout, Shape
<1>22. ASSUME NEW w \in Worker, CommitFanout(w)
       PROVE  Shape'
  <2> DEFINE page == worker[w].page
  <2>1. mail' \in [Mail -> Row]
    <3>1. [NoRow EXCEPT !.status = "pending"] \in Row
      BY FreshTypes DEF Row
    <3> QED
      BY <1>6, <1>22, <3>1 DEF CommitFanout
  <2>2. inserted' \in [Mail -> Nat]
    BY <1>22 DEF CommitFanout, Shape
  <2>3. fan' \in FanRow
    <3>1. (IF page = {} THEN fan.last ELSE CursorAfter(page)) \in 0..N
      <4>1. page # {} => LastOf(page) \in Mail
        BY <1>5, LastOfPage
      <4>2. \A x \in Mail : x \in 0..N
        BY <1>1 DEF Mail
      <4>3. fan.last \in 0..N
        BY DEF Shape, FanRow
      <4> HIDE DEF page
      <4> QED
        BY <4>1, <4>2, <4>3 DEF CursorAfter
    <3>2. (IF LastPage(page) THEN "done" ELSE "pending") \in {"done", "pending"}
      OBVIOUS
    <3>3. fan' = [status |-> IF LastPage(page) THEN "done" ELSE "pending", due |-> TRUE,
                  last |-> IF page = {} THEN fan.last ELSE CursorAfter(page)]
      BY <1>22 DEF CommitFanout
    <3> HIDE DEF page
    <3> QED
      BY <3>1, <3>2, <3>3 DEF FanRow
  <2>4. worker' \in [Worker -> Process]
    BY <1>3, <1>22 DEF CommitFanout
  <2> QED
    BY <1>22, <2>1, <2>2, <2>3, <2>4 DEF CommitFanout, Shape
<1>23. ASSUME NEW w \in Worker, FanoutThrows(w)
       PROVE  Shape'
  <2>1. [Idle EXCEPT !.phase = "fanfail"] \in Process
    BY FreshTypes DEF Process
  <2>2. worker' \in [Worker -> Process]
    BY <1>23, <2>1 DEF FanoutThrows, Shape
  <2> QED
    BY <1>2, <1>23, <2>2 DEF FanoutThrows, Shape
<1>24. ASSUME NEW w \in Worker, MarkFanoutJobFailed(w)
       PROVE  Shape'
  <2>1. worker' \in [Worker -> Process]
    BY <1>3, <1>24 DEF MarkFanoutJobFailed
  <2>2. fan' \in FanRow
    BY <1>24 DEF MarkFanoutJobFailed, Shape, FanRow
  <2>3. faults' \in 0..MaxFaults
    BY <1>2, <1>24 DEF MarkFanoutJobFailed
  <2> QED
    BY <1>24, <2>1, <2>2, <2>3 DEF MarkFanoutJobFailed, Shape
<1>25. ASSUME NEW w \in Worker, Claim(w)
       PROVE  Shape'
  <2>1. PICK held \in SUBSET Mail :
          /\ mail' = [m \in Mail |-> IF m \in held THEN [mail[m] EXCEPT !.status = "sending"] ELSE mail[m]]
          /\ worker' = [worker EXCEPT ![w] = [Idle EXCEPT !.phase = "group", !.held = held,
                !.copy = [m \in Mail |-> IF m \in held THEN mail[m].attempts ELSE 0]]]
    BY <1>25 DEF Claim
  <2>2. mail' \in [Mail -> Row]
    <3>1. \A m \in Mail : [mail[m] EXCEPT !.status = "sending"] \in Row
      BY <1>6 DEF Row
    <3> QED
      BY <1>6, <2>1, <3>1
  <2>3. [m \in Mail |-> IF m \in held THEN mail[m].attempts ELSE 0] \in [Mail -> Nat]
    BY <1>6 DEF Row
  <2>4. worker' \in [Worker -> Process]
    <3> DEFINE f == [m \in Mail |-> IF m \in held THEN mail[m].attempts ELSE 0]
    <3>1. f \in [Mail -> Nat]
      BY <2>3
    <3>2. worker' = [worker EXCEPT ![w] = [Idle EXCEPT !.phase = "group", !.held = held, !.copy = f]]
      BY <2>1
    <3> HIDE DEF f
    <3>3. [Idle EXCEPT !.phase = "group", !.held = held, !.copy = f] \in Process
      BY <3>1, FreshTypes DEF Process
    <3> QED
      BY <3>2, <3>3 DEF Shape
  <2> QED
    BY <1>25, <2>2, <2>4 DEF Claim, Shape
<1>26. ASSUME NEW w \in Worker, NEW p \in Phase,
              worker' = [worker EXCEPT ![w].phase = p, ![w].todo = worker[w].held]
       PROVE  worker' \in [Worker -> Process]
  <2>1. [worker[w] EXCEPT !.phase = p, !.todo = worker[w].held] \in Process
    BY <1>5 DEF Process, Phase
  <2>2. worker' = [worker EXCEPT ![w] = [worker[w] EXCEPT !.phase = p, !.todo = worker[w].held]]
    BY <1>26 DEF Shape
  <2> QED
    BY <2>1, <2>2 DEF Shape
<1>27. ASSUME NEW w \in Worker, StartGroup(w)
       PROVE  Shape'
  <2>1. worker' \in [Worker -> Process]
    BY <1>4, <1>26, <1>27 DEF StartGroup, Phase
  <2>2. circuit' \in [Worker -> [failures : 0..Threshold, cooling : BOOLEAN]]
    BY <1>27, CircuitType DEF StartGroup, Shape
  <2> QED
    BY <1>27, <2>1, <2>2 DEF StartGroup, Shape
<1>28. ASSUME NEW w \in Worker, Deadline(w)
       PROVE  Shape'
  BY <1>2, <1>3, <1>28 DEF Deadline, Shape
<1>29. ASSUME NEW w \in Worker, NEW T \in SUBSET Mail, worker' = [worker EXCEPT ![w].todo = T]
       PROVE  worker' \in [Worker -> Process]
  <2>1. [worker[w] EXCEPT !.todo = T] \in Process
    BY <1>5 DEF Process
  <2>2. worker' = [worker EXCEPT ![w] = [worker[w] EXCEPT !.todo = T]]
    BY <1>29 DEF Shape
  <2> QED
    BY <2>1, <2>2 DEF Shape
<1>30. ASSUME NEW w \in Worker, Release(w)
       PROVE  Shape'
  <2>1. PICK m \in worker[w].todo :
          /\ \/ Update(m, [mail[m] EXCEPT !.status = "pending", !.due = FALSE]) /\ NoFault
             \/ UNCHANGED mail /\ Fault
          /\ IF worker[w].todo = {m} THEN Stop(w)
             ELSE worker' = [worker EXCEPT ![w].todo = @ \ {m}]
    BY <1>30 DEF Release
  <2>2. m \in Mail
    BY <1>5
  <2>3. [mail[m] EXCEPT !.status = "pending", !.due = FALSE] \in Row
    BY <1>6, <2>2 DEF Row
  <2>4. mail' \in [Mail -> Row]
    BY <2>1, <2>2, <2>3, UpdateType DEF Shape
  <2>5. worker' \in [Worker -> Process]
    <3>1. worker[w].todo \ {m} \in SUBSET Mail
      BY <1>5
    <3> QED
      BY <1>3, <1>29, <2>1, <3>1
  <2>6. faults' \in 0..MaxFaults
    BY <1>2, <2>1
  <2> QED
    BY <1>30, <2>4, <2>5, <2>6 DEF Release, Shape
<1>31. ASSUME NEW w \in Worker, NEW T \in SUBSET Mail, NEW p \in Phase,
              worker' = [worker EXCEPT ![w].todo = T, ![w].phase = p]
       PROVE  worker' \in [Worker -> Process]
  <2>1. [worker[w] EXCEPT !.todo = T, !.phase = p] \in Process
    BY <1>5 DEF Process, Phase
  <2>2. worker' = [worker EXCEPT ![w] = [worker[w] EXCEPT !.todo = T, !.phase = p]]
    BY <1>31 DEF Shape
  <2> QED
    BY <2>1, <2>2 DEF Shape
<1>32. ASSUME NEW w \in Worker, Filter(w)
       PROVE  Shape'
  <2>1. faults' \in 0..MaxFaults
    BY <1>2, <1>32 DEF Filter
  <2>2. worker' \in [Worker -> Process]
    <3> DEFINE good == {m \in worker[w].held : mail[m].status \in {"sending", "stale"} /\ Mailable(m)}
               p == IF good = worker[w].held THEN "connect" ELSE "cancel"
    <3>1. Stop(w) \/ worker' = [worker EXCEPT ![w].todo = good, ![w].phase = p]
      BY <1>32 DEF Filter
    <3>2. p \in Phase
      BY DEF Phase
    <3>3. good \in SUBSET Mail
      BY <1>5
    <3> HIDE DEF good, p
    <3> QED
      BY <1>3, <1>31, <3>1, <3>2, <3>3
  <2> QED
    BY <1>32, <2>1, <2>2 DEF Filter, Shape
<1>33. ASSUME NEW w \in Worker, Cancel(w)
       PROVE  Shape'
  <2>1. faults' \in 0..MaxFaults
    BY <1>2, <1>33 DEF Cancel
  <2>2. mail' \in [Mail -> Row]
    BY <1>6, <1>33, FreshTypes DEF Cancel, Shape
  <2>3. worker' \in [Worker -> Process]
    BY <1>3, <1>4, <1>33 DEF Cancel, Phase
  <2> QED
    BY <1>33, <2>1, <2>2, <2>3 DEF Cancel, Shape
<1>34. ASSUME NEW w \in Worker, Connect(w)
       PROVE  Shape'
  <2>1. CASE worker' = [worker EXCEPT ![w].phase = "unseen", ![w].infra = TRUE]
    <3>1. [worker[w] EXCEPT !.phase = "unseen", !.infra = TRUE] \in Process
      BY <1>5 DEF Process
    <3>2. worker' = [worker EXCEPT ![w] = [worker[w] EXCEPT !.phase = "unseen", !.infra = TRUE]]
      BY <2>1 DEF Shape
    <3>3. worker' \in [Worker -> Process]
      BY <3>1, <3>2 DEF Shape
    <3> QED
      BY <1>34, <3>3 DEF Connect, Shape
  <2>2. CASE Go(w, "send")
    BY <1>4, <1>34, <2>2 DEF Connect, Shape, Phase
  <2> QED
    BY <1>34, <2>1, <2>2 DEF Connect
<1>35. ASSUME NEW w \in Worker, Send(w)
       PROVE  Shape'
  <2>1. PICK m \in worker[w].todo, ok \in BOOLEAN :
       /\ worker' = [worker EXCEPT ![w].phase = "mark", ![w].cur = m, ![w].ok = ok,
                                   ![w].infra = @ \/ ~ok]
       /\ \/ sends' = [sends EXCEPT ![m] = @ + (IF ok THEN 1 ELSE 0)] /\ NoFault
          \/ ~ok /\ sends' = [sends EXCEPT ![m] = @ + 1] /\ Fault
    BY <1>35 DEF Send
  <2>2. m \in Mail /\ m \in 0..N
    BY <1>1, <1>5 DEF Mail
  <2>3. sends' \in [Mail -> Nat] /\ faults' \in 0..MaxFaults
    BY <1>2, <2>1, <2>2 DEF Shape
  <2>4. worker' \in [Worker -> Process]
    <3> DEFINE b == worker[w].infra \/ ~ok
    <3>1. b \in BOOLEAN
      BY Zenon
    <3>2. worker' = [worker EXCEPT ![w] = [worker[w] EXCEPT !.phase = "mark", !.cur = m, !.ok = ok, !.infra = b]]
      BY <2>1 DEF Shape
    <3> HIDE DEF b
    <3>3. [worker[w] EXCEPT !.phase = "mark", !.cur = m, !.ok = ok, !.infra = b] \in Process
      BY <1>5, <2>2, <3>1 DEF Process
    <3> QED
      BY <3>2, <3>3 DEF Shape
  <2> QED
    BY <1>35, <2>3, <2>4 DEF Send, Shape
<1>36. ASSUME NEW w \in Worker, NEW m, After(w, m)
       PROVE  worker' \in [Worker -> Process]
  <2> DEFINE g == worker[w].good \/ worker[w].ok
             T == worker[w].todo \ {m}
             p == IF worker[w].todo = {m} THEN "end" ELSE "send"
             slot == [worker[w] EXCEPT !.todo = T, !.cur = 0, !.ok = FALSE, !.good = g, !.phase = p]
  <2>1. g \in BOOLEAN
    BY Zenon
  <2>2. T \in SUBSET Mail /\ p \in Phase /\ 0 \in 0..N
    BY <1>1, <1>5 DEF Phase
  <2>3. worker' = [worker EXCEPT ![w] = slot]
    BY <1>36 DEF After, Shape
  <2> HIDE DEF g, T, p
  <2>4. slot \in Process
    BY <1>5, <2>1, <2>2 DEF Process, Phase
  <2> QED
    BY <2>3, <2>4 DEF Shape
<1>37. ASSUME NEW w \in Worker, MarkSent(w)
       PROVE  Shape'
  <2> DEFINE m == worker[w].cur
  <2>1. faults' \in 0..MaxFaults
    BY <1>2, <1>37 DEF MarkSent
  <2>2. mail' \in [Mail -> Row]
    <3>1. CASE mail' = mail
      BY <3>1 DEF Shape
    <3>2. CASE Update(m, [mail[m] EXCEPT !.status = "sent"])
      <4>1. CASE m \in Mail
        <5>1. [mail[m] EXCEPT !.status = "sent"] \in Row
          BY <1>6, <4>1 DEF Row
        <5> QED
          BY <3>2, <4>1, <5>1, UpdateType
      <4>2. CASE m \notin Mail
        <5>1. mail' = mail
          BY <3>2, <4>2 DEF Update, Shape
        <5> QED
          BY <5>1 DEF Shape
      <4> QED
        BY <4>1, <4>2
    <3> QED
      BY <1>37, <3>1, <3>2 DEF MarkSent
  <2>3. worker' \in [Worker -> Process]
    <3>1. CASE worker' = [worker EXCEPT ![w].ok = FALSE, ![w].infra = TRUE]
      <4>1. [worker[w] EXCEPT !.ok = FALSE, !.infra = TRUE] \in Process
        BY <1>5 DEF Process
      <4>2. worker' = [worker EXCEPT ![w] = [worker[w] EXCEPT !.ok = FALSE, !.infra = TRUE]]
        BY <3>1 DEF Shape
      <4> QED
        BY <4>1, <4>2 DEF Shape
    <3> QED
      BY <1>36, <1>37, <3>1 DEF MarkSent
  <2> QED
    BY <1>37, <2>1, <2>2, <2>3 DEF MarkSent, Shape
<1>38. ASSUME NEW w \in Worker, MarkRefused(w)
       PROVE  Shape'
  <2> DEFINE m == worker[w].cur
  <2>1. faults' \in 0..MaxFaults
    BY <1>2, <1>38 DEF MarkRefused
  <2>2. mail' \in [Mail -> Row]
    <3>1. CASE mail' = mail
      BY <3>1 DEF Shape
    <3>2. CASE MarkRetry(w, m)
      <4>1. CASE m \in Mail
        BY <3>2, <4>1, RetryType
      <4>2. CASE m \notin Mail
        <5>1. mail' = mail
          <6> DEFINE row == [status |-> StatusAfter(worker[w].copy[m]),
                             attempts |-> mail[m].attempts + 1, due |-> FALSE]
          <6>1. Update(m, row)
            BY <3>2 DEF MarkRetry
          <6> HIDE DEF row
          <6> QED
            BY <4>2, <6>1 DEF Update, Shape
        <5> QED
          BY <5>1 DEF Shape
      <4> QED
        BY <4>1, <4>2
    <3> QED
      BY <1>38, <3>1, <3>2 DEF MarkRefused
  <2>3. worker' \in [Worker -> Process]
    <3>1. CASE worker' = [worker EXCEPT ![w].phase = "unseen", ![w].infra = TRUE, ![w].cur = 0]
      <4>1. [worker[w] EXCEPT !.phase = "unseen", !.infra = TRUE, !.cur = 0] \in Process
        <5>1. 0 \in 0..N
          BY <1>1
        <5> QED
          BY <1>5, <5>1 DEF Process
      <4>2. worker' = [worker EXCEPT ![w] = [worker[w] EXCEPT !.phase = "unseen", !.infra = TRUE, !.cur = 0]]
        BY <3>1 DEF Shape
      <4> QED
        BY <4>1, <4>2 DEF Shape
    <3> QED
      BY <1>36, <1>38, <3>1 DEF MarkRefused
  <2> QED
    BY <1>38, <2>1, <2>2, <2>3 DEF MarkRefused, Shape
<1>39. ASSUME NEW w \in Worker, RetryRest(w)
       PROVE  Shape'
  <2>1. PICK m \in worker[w].todo :
       \/ /\ MarkRetry(w, m) /\ NoFault
          /\ IF worker[w].todo # {m} THEN worker' = [worker EXCEPT ![w].todo = @ \ {m}]
             ELSE IF worker[w].phase = "config" THEN Stop(w)
             ELSE worker' = [worker EXCEPT ![w].todo = {}, ![w].phase = "end"]
       \/ UNCHANGED mail /\ Stop(w) /\ Fault
    BY <1>39 DEF RetryRest
  <2>2. m \in Mail /\ worker[w].todo \ {m} \in SUBSET Mail /\ "end" \in Phase
    BY <1>5 DEF Phase
  <2>3. mail' \in [Mail -> Row]
    BY <2>1, <2>2, RetryType DEF Shape
  <2>4. worker' \in [Worker -> Process]
    <3>1. CASE worker' = [worker EXCEPT ![w].todo = @ \ {m}]
      BY <1>29, <2>2, <3>1
    <3>2. CASE worker' = [worker EXCEPT ![w].todo = {}, ![w].phase = "end"]
      BY <1>31, <2>2, <3>2
    <3> QED
      BY <1>3, <2>1, <3>1, <3>2
  <2>5. faults' \in 0..MaxFaults
    BY <1>2, <2>1
  <2> QED
    BY <1>39, <2>3, <2>4, <2>5 DEF RetryRest, Shape
<1>40. ASSUME NEW w \in Worker, EndSlice(w)
       PROVE  Shape'
  <2>1. worker' \in [Worker -> Process]
    BY <1>3, <1>40 DEF EndSlice
  <2>2. circuit' \in [Worker -> [failures : 0..Threshold, cooling : BOOLEAN]]
    BY <1>40, CircuitType, FreshTypes DEF EndSlice, Shape
  <2> QED
    BY <1>40, <2>1, <2>2 DEF EndSlice, Shape
<1>41. ASSUME NEW w \in Worker, Crash(w)
       PROVE  Shape'
  <2>1. worker' \in [Worker -> Process] /\ faults' \in 0..MaxFaults
    BY <1>2, <1>3, <1>41 DEF Crash
  <2>2. circuit' \in [Worker -> [failures : 0..Threshold, cooling : BOOLEAN]]
    BY <1>41, FreshTypes DEF Crash, Shape
  <2> QED
    BY <1>41, <2>1, <2>2 DEF Crash, Shape
<1>42. ASSUME NEW w \in Worker, CooldownEnds(w)
       PROVE  Shape'
  BY <1>42 DEF CooldownEnds, Shape
<1>43. ASSUME NEW m \in Mail, RequestUserDeletion(m) \/ CleanupSent(m)
       PROVE  Shape'
  <2>1. mail' \in [Mail -> Row] /\ user' \in [Mail -> {"active", "requested"}]
    BY <1>43, FreshTypes DEF RequestUserDeletion, CleanupSent, Shape
  <2> QED
    BY <1>43, <2>1 DEF RequestUserDeletion, CleanupSent, Shape
<1>44. ASSUME NEW m \in Mail, MailDue(m)
       PROVE  Shape'
  <2>1. mail' \in [Mail -> Row]
    BY <1>44 DEF MailDue, Shape, Row
  <2> QED
    BY <1>44, <2>1 DEF MailDue, Shape
<1>45. ASSUME NEW m \in Mail, MailStale(m)
       PROVE  Shape'
  <2>1. mail' \in [Mail -> Row]
    BY <1>45 DEF MailStale, Shape, Row
  <2>2. faults' \in 0..MaxFaults
    BY <1>2, <1>45 DEF MailStale
  <2> QED
    BY <1>45, <2>1, <2>2 DEF MailStale, Shape
<1>46. CASE RequestCourseDeletion \/ PurgeCourse
  <2>1. mail' \in [Mail -> Row]
    BY <1>46, FreshTypes DEF RequestCourseDeletion, PurgeCourse, Shape
  <2>2. fan' \in FanRow
    BY <1>46 DEF RequestCourseDeletion, PurgeCourse, Shape, FanRow
  <2> QED
    BY <1>46, <2>1, <2>2 DEF RequestCourseDeletion, PurgeCourse, Shape
<1>47. CASE FanDue \/ FanStale
  <2>1. fan' \in FanRow
    BY <1>47 DEF FanDue, FanStale, Shape, FanRow
  <2>2. faults' \in 0..MaxFaults
    BY <1>1, <1>2, <1>47 DEF FanDue, FanStale
  <2> QED
    BY <1>47, <2>1, <2>2 DEF FanDue, FanStale, Shape
<1> QED
  BY <1>20, <1>21, <1>22, <1>23, <1>24, <1>25, <1>27, <1>28, <1>30, <1>32, <1>33, <1>34, <1>35,
     <1>37, <1>38, <1>39, <1>40, <1>41, <1>42, <1>43, <1>44, <1>45, <1>46, <1>47
  DEF Next, Step

-----------------------------------------------------------------------------
(* Pages and rows *)

(* The page that is read next leaves out no active recipient up to its     *)
(* last one, and none at all when it is short.                             *)
LEMMA NextPageFacts ==
  ASSUME Shape
  PROVE  /\ NextPage \subseteq Mail
         /\ \A r \in NextPage : r > fan.last
         /\ \A r \in Mail : r > fan.last /\ user[r] = "active" =>
              ((LastPage(NextPage) \/ \E q \in NextPage : r <= q) => r \in NextPage)
<1> DEFINE rest == {r \in Mail : r > fan.last /\ user[r] = "active"}
           Upto(r) == {q \in rest : q <= r}
           P == NextPage
<1>1. P = {r \in rest : Cardinality(Upto(r)) <= PageSize}
  BY DEF NextPage
<1>2. N \in Nat /\ PageSize \in Nat /\ PageSize >= 1 /\ rest \subseteq Nat /\ rest \subseteq 0..N
  BY OutboxAssumption DEF Mail
<1>3. IsFiniteSet(rest)
  <2>1. IsFiniteSet(0..N)
    BY <1>2, FS_Interval
  <2> HIDE DEF rest
  <2> QED
    BY <1>2, <2>1, FS_Subset
<1>4. \A r : IsFiniteSet(Upto(r)) /\ Cardinality(Upto(r)) \in Nat
  <2>1. \A r : Upto(r) \subseteq rest
    OBVIOUS
  <2> HIDE DEF Upto, rest
  <2> QED
    BY <1>3, <2>1, FS_Subset, FS_CardinalityType
<1>5. P \subseteq Mail /\ \A r \in P : r > fan.last
  BY <1>1
<1>6. P \subseteq rest
  BY <1>1
<1>7. IsFiniteSet(P) /\ Cardinality(P) \in Nat
  <2> HIDE DEF rest, P
  <2> QED
    BY <1>3, <1>6, FS_Subset, FS_CardinalityType
<1> HIDE DEF P
<1>8. ASSUME NEW r \in rest, NEW q \in P, r <= q
      PROVE  r \in P
  <2>1. q \in rest /\ r \in Nat /\ q \in Nat
    BY <1>2, <1>6
  <2>2. Upto(r) \subseteq Upto(q)
    <3>1. ASSUME NEW p \in rest, p <= r
          PROVE  p <= q
      <4>1. p \in Nat
        BY <1>2
      <4> QED
        BY <1>8, <2>1, <3>1, <4>1
    <3> QED
      BY <3>1
  <2>3. Cardinality(Upto(r)) <= Cardinality(Upto(q)) /\ Cardinality(Upto(q)) <= PageSize
    <3>1. Cardinality(Upto(q)) <= PageSize
      BY <1>1
    <3> HIDE DEF Upto, rest
    <3> QED
      BY <1>4, <2>2, <3>1, FS_Subset
  <2>4. Cardinality(Upto(r)) <= PageSize
    <3> HIDE DEF Upto, rest
    <3> QED
      BY <1>2, <1>4, <2>3
  <2> QED
    BY <1>1, <1>8, <2>4
<1>9. ASSUME Cardinality(P) < PageSize, NEW r \in rest
      PROVE  r \in P
  <2> SUFFICES ASSUME r \notin P
               PROVE  FALSE
    OBVIOUS
  <2> DEFINE T == rest \ P
  <2>1. T \subseteq Nat /\ T # {}
    BY <1>2
  <2>2. PICK x \in T : \A y \in T : x <= y
    <3> HIDE DEF T
    <3> QED
      BY <2>1, HasLeast
  <2>3. x \in rest /\ x \notin P /\ x \in Nat
    BY <1>2, <2>2
  <2>4. Upto(x) \subseteq P \cup {x}
    <3>1. ASSUME NEW p \in rest, p <= x, p # x
          PROVE  p \in P
      <4>1. p \in Nat /\ ~(x <= p)
        BY <1>2, <2>3, <3>1
      <4> QED
        BY <2>2, <4>1
    <3> QED
      BY <3>1
  <2>5. IsFiniteSet(P \cup {x}) /\ Cardinality(P \cup {x}) = Cardinality(P) + 1
    BY <1>7, <2>3, FS_AddElement
  <2>6. Cardinality(Upto(x)) <= Cardinality(P) + 1
    <3> HIDE DEF Upto, rest
    <3> QED
      BY <2>4, <2>5, FS_Subset
  <2>7. Cardinality(Upto(x)) <= PageSize
    <3> HIDE DEF Upto, rest
    <3> QED
      BY <1>2, <1>4, <1>7, <1>9, <2>6
  <2> QED
    BY <1>1, <2>3, <2>7
<1> QED
  BY <1>5, <1>8, <1>9 DEF P, LastPage

(* Outside the fan-out a row vanishes or keeps what it has been through,   *)
(* and is given up after its attempts only.                                *)
RowStep(m) ==
  \/ mail'[m].status = "none"
  \/ /\ mail[m].status # "none"
     /\ mail'[m].attempts >= mail[m].attempts
     /\ mail'[m].status = "failed" => mail[m].status = "failed" \/ mail'[m].attempts >= MaxAttempts

(* A retry counts one more attempt than the worker read, or more. *)
LEMMA RetryRow ==
  ASSUME Shape, NEW w \in Worker, ClaimFits(w), NEW m \in worker[w].held, m \in Mail, MarkRetry(w, m)
  PROVE  /\ \A x \in Mail : RowStep(x)
         /\ \A x \in Mail : x # m => mail'[x] = mail[x]
         /\ mail[m].status # "none" => mail'[m].status \in {"failed", "pending"}
         /\ mail[m].status = "none" => mail'[m].status = "none"
<1> DEFINE row == [status |-> StatusAfter(worker[w].copy[m]), attempts |-> mail[m].attempts + 1, due |-> FALSE]
<1>1. mail[m].attempts \in Nat /\ worker[w].copy[m] \in Nat /\ MaxAttempts \in Nat
  BY OutboxAssumption DEF Shape, Row, Process
<1>2. mail' = IF mail[m].status = "none" THEN mail ELSE [mail EXCEPT ![m] = row]
  BY DEF MarkRetry, Update
<1>3. \A x \in Mail : mail[x].attempts \in Nat
  BY DEF Shape, Row
<1>4. row.status = StatusAfter(worker[w].copy[m]) /\ row.attempts = mail[m].attempts + 1
  OBVIOUS
<1> HIDE DEF row
<1>5. \A x \in Mail : x # m => mail'[x] = mail[x]
  BY <1>2 DEF Shape
<1>6. \A x \in Mail : x # m => RowStep(x)
  BY <1>3, <1>5 DEF RowStep
<1>7. CASE mail[m].status = "none"
  BY <1>2, <1>5, <1>6, <1>7 DEF RowStep
<1>8. CASE mail[m].status # "none"
  <2>1. mail'[m] = row
    BY <1>2, <1>8 DEF Shape
  <2>2. row.status \in {"failed", "pending"} /\ (row.status = "failed" => worker[w].copy[m] + 1 >= MaxAttempts)
    BY <1>4 DEF StatusAfter
  <2>3. mail[m].attempts >= worker[w].copy[m]
    BY <1>8 DEF ClaimFits
  <2>4. row.attempts >= mail[m].attempts /\ (row.status = "failed" => row.attempts >= MaxAttempts)
    BY <1>1, <1>4, <2>2, <2>3
  <2> QED
    BY <1>5, <1>6, <1>8, <2>1, <2>2, <2>4 DEF RowStep
<1> QED
  BY <1>7, <1>8

(* Every action but the commit of a page moves rows in this way. *)
LEMMA RowSteps ==
  ASSUME Shape, Fit, Next, \A w \in Worker : ~CommitFanout(w)
  PROVE  \A m \in Mail : RowStep(m)
<1>1. \A m \in Mail : mail[m].attempts \in Nat /\ mail[m].attempts >= mail[m].attempts /\ mail[m] \in Row
  BY DEF Shape, Row
<1>2. mail' = mail => \A m \in Mail : RowStep(m)
  BY <1>1 DEF RowStep
<1>3. ASSUME NEW m \in Mail, mail' = [mail EXCEPT ![m] = NoRow]
      PROVE  \A x \in Mail : RowStep(x)
  BY <1>1, <1>3 DEF RowStep, NoRow, Shape
<1>4. ASSUME NEW m \in Mail, NEW row \in Row, Update(m, row), row.attempts = mail[m].attempts, row.status # "failed"
      PROVE  \A x \in Mail : RowStep(x)
  BY <1>1, <1>4 DEF RowStep, Update, Shape
<1>5. ASSUME NEW w \in Worker
      PROVE  worker[w].todo \subseteq worker[w].held /\ worker[w].held \subseteq Mail /\ ClaimFits(w)
  BY DEF Fit, ClaimFits, Shape, Process
<1>6. CASE \E w \in Worker :
             \/ ClaimFanout(w) \/ BeginFanout(w) \/ MarkFanoutJobFailed(w) \/ StartGroup(w) \/ Filter(w)
             \/ Connect(w) \/ Send(w) \/ EndSlice(w)
             \/ FanoutThrows(w) \/ Deadline(w) \/ Crash(w) \/ CooldownEnds(w)
  BY <1>2, <1>6 DEF ClaimFanout, BeginFanout, MarkFanoutJobFailed, StartGroup, Filter, Connect, Send,
     EndSlice, FanoutThrows, Deadline, Crash, CooldownEnds
<1>7. CASE RequestCourseDeletion \/ FanDue \/ FanStale
  BY <1>2, <1>7 DEF RequestCourseDeletion, FanDue, FanStale
<1>8. CASE PurgeCourse
  <2>1. CASE mail' = [m \in Mail |-> NoRow]
    BY <2>1 DEF RowStep, NoRow
  <2> QED
    BY <1>2, <1>8, <2>1 DEF PurgeCourse
<1>9. ASSUME NEW m \in Mail, RequestUserDeletion(m) \/ CleanupSent(m)
      PROVE  \A x \in Mail : RowStep(x)
  BY <1>3, <1>9 DEF RequestUserDeletion, CleanupSent
<1>10. ASSUME NEW m \in Mail, MailDue(m) \/ MailStale(m)
       PROVE  \A x \in Mail : RowStep(x)
  <2>1. /\ mail'[m].attempts = mail[m].attempts
        /\ mail'[m].status = mail[m].status \/ (mail[m].status # "none" /\ mail'[m].status = "stale")
        /\ \A x \in Mail : x # m => mail'[x] = mail[x]
    BY <1>10 DEF MailDue, MailStale, Shape, Row
  <2> QED
    BY <1>1, <2>1 DEF RowStep
<1>11. ASSUME NEW w \in Worker, Claim(w)
       PROVE  \A x \in Mail : RowStep(x)
  <2> SUFFICES ASSUME NEW x \in Mail
               PROVE  RowStep(x)
    OBVIOUS
  <2>1. mail'[x] = mail[x] \/ (mail'[x] = [mail[x] EXCEPT !.status = "sending"] /\ mail[x].status # "none")
    BY <1>11 DEF Claim, Runnable, StaleSending
  <2>2. [mail[x] EXCEPT !.status = "sending"].attempts = mail[x].attempts
    BY <1>1 DEF Row
  <2>3. [mail[x] EXCEPT !.status = "sending"].status = "sending"
    BY <1>1 DEF Row
  <2> QED
    BY <1>1, <2>1, <2>2, <2>3 DEF RowStep
<1>12. ASSUME NEW w \in Worker, Release(w)
       PROVE  \A x \in Mail : RowStep(x)
  <2>1. PICK m \in worker[w].todo :
          mail' = mail \/ Update(m, [mail[m] EXCEPT !.status = "pending", !.due = FALSE])
    BY <1>12 DEF Release
  <2>2. m \in Mail
    BY <1>5
  <2> DEFINE row == [mail[m] EXCEPT !.status = "pending", !.due = FALSE]
  <2>3. row \in Row /\ row.attempts = mail[m].attempts /\ row.status # "failed"
    BY <1>1, <2>2 DEF Row
  <2> HIDE DEF row
  <2>4. mail' = mail \/ Update(m, row)
    BY <2>1 DEF row
  <2> QED
    BY <1>2, <1>4, <2>2, <2>3, <2>4
<1>13. ASSUME NEW w \in Worker, Cancel(w)
       PROVE  \A x \in Mail : RowStep(x)
  <2>1. \A x \in Mail : mail'[x] = mail[x] \/ mail'[x] = NoRow
    BY <1>13 DEF Cancel
  <2> QED
    BY <1>1, <2>1 DEF RowStep, NoRow
<1>14. ASSUME NEW w \in Worker, MarkSent(w)
       PROVE  \A x \in Mail : RowStep(x)
  <2> DEFINE m == worker[w].cur
             row == [mail[m] EXCEPT !.status = "sent"]
  <2>1. m \in Mail
    BY <1>5, <1>14 DEF MarkSent, ClaimFits
  <2>2. mail' = mail \/ Update(m, row)
    BY <1>14 DEF MarkSent
  <2>3. row \in Row /\ row.attempts = mail[m].attempts /\ row.status # "failed"
    BY <1>1, <2>1 DEF Row
  <2> HIDE DEF row, m
  <2> QED
    BY <1>2, <1>4, <2>1, <2>2, <2>3
<1>15. ASSUME NEW w \in Worker, MarkRefused(w)
       PROVE  \A x \in Mail : RowStep(x)
  <2> DEFINE m == worker[w].cur
  <2>1. m \in worker[w].held /\ m \in Mail /\ ClaimFits(w)
    BY <1>5, <1>15 DEF MarkRefused, ClaimFits
  <2>2. mail' = mail \/ MarkRetry(w, m)
    BY <1>15 DEF MarkRefused
  <2> HIDE DEF m
  <2> QED
    BY <1>2, <2>1, <2>2, RetryRow
<1>16. ASSUME NEW w \in Worker, RetryRest(w)
       PROVE  \A x \in Mail : RowStep(x)
  <2>1. PICK m \in worker[w].todo : mail' = mail \/ MarkRetry(w, m)
    BY <1>16 DEF RetryRest
  <2>2. m \in worker[w].held /\ m \in Mail /\ ClaimFits(w)
    BY <1>5
  <2> QED
    BY <1>2, <2>1, <2>2, RetryRow
<1> QED
  BY <1>6, <1>7, <1>8, <1>9, <1>10, <1>11, <1>12, <1>13, <1>14, <1>15, <1>16 DEF Next, Step

-----------------------------------------------------------------------------
(* What the workers have read stays true enough *)

(* A worker that takes no step keeps its page and its claim. *)
LEMMA FitStays ==
  ASSUME Shape, Shape', NEW u \in Worker, PageFits(u), ClaimFits(u), worker'[u] = worker[u],
         UNCHANGED <<user, inserted>>, fan'.last = fan.last, lock = u => lock' = u,
         \A m \in Mail : RowStep(m)
  PROVE  PageFits(u)' /\ ClaimFits(u)'
<1>1. PageFits(u)'
  BY DEF PageFits, LastPage
<1>2. worker[u].held \subseteq Mail /\ worker[u].todo \subseteq Mail
  BY DEF Shape, Process
<1>3. \A m \in Mail : mail[m].attempts \in Nat /\ mail'[m].attempts \in Nat
  BY DEF Shape, Row
<1>4. ASSUME NEW m \in worker[u].held, mail'[m].status # "none"
      PROVE  mail'[m].attempts >= worker[u].copy[m]
  <2>1. m \in Mail /\ worker[u].copy[m] \in Nat
    BY <1>2 DEF Shape, Process
  <2>2. mail[m].status # "none" /\ mail'[m].attempts >= mail[m].attempts
    BY <1>4, <2>1 DEF RowStep
  <2>3. mail[m].attempts >= worker[u].copy[m]
    BY <2>2 DEF ClaimFits
  <2> QED
    BY <1>3, <2>1, <2>2, <2>3
<1>5. \A m \in Mail : mail[m].status = "none" => mail'[m].status = "none"
  BY DEF RowStep
<1>6. ClaimFits(u)'
  BY <1>2, <1>4, <1>5 DEF ClaimFits
<1> QED
  BY <1>1, <1>6

(* A worker that goes on with its claim. *)
LEMMA FitGoesOn ==
  ASSUME Shape, Shape', NEW w \in Worker, ClaimFits(w), UNCHANGED <<user, inserted>>,
         \A m \in Mail : RowStep(m),
         worker'[w].held = worker[w].held, worker'[w].copy = worker[w].copy,
         worker'[w].todo \subseteq worker[w].held,
         worker'[w].phase = "mark" => worker'[w].cur \in worker'[w].todo,
         worker'[w].phase \in {"cancel", "connect", "send", "mark"} =>
           \/ /\ worker[w].phase \in {"cancel", "connect", "send", "mark"}
              /\ worker'[w].todo \subseteq worker[w].todo
           \/ \A m \in worker'[w].todo : user[m] = "active",
         worker'[w].phase # "page"
  PROVE  PageFits(w)' /\ ClaimFits(w)'
<1>1. PageFits(w)'
  BY DEF PageFits
<1>2. worker[w].held \subseteq Mail /\ worker[w].todo \subseteq Mail
  BY DEF Shape, Process
<1>3. \A m \in Mail : mail[m].attempts \in Nat /\ mail'[m].attempts \in Nat
  BY DEF Shape, Row
<1>4. ASSUME NEW m \in worker[w].held, mail'[m].status # "none"
      PROVE  mail'[m].attempts >= worker[w].copy[m]
  <2>1. m \in Mail /\ worker[w].copy[m] \in Nat
    BY <1>2 DEF Shape, Process
  <2>2. mail[m].status # "none" /\ mail'[m].attempts >= mail[m].attempts
    BY <1>4, <2>1 DEF RowStep
  <2>3. mail[m].attempts >= worker[w].copy[m]
    BY <2>2 DEF ClaimFits
  <2> QED
    BY <1>3, <2>1, <2>2, <2>3
<1>5. \A m \in Mail : mail[m].status = "none" => mail'[m].status = "none"
  BY DEF RowStep
<1>6. ASSUME worker'[w].phase \in {"cancel", "connect", "send", "mark"}, NEW m \in worker'[w].todo,
             user'[m] = "requested"
      PROVE  mail'[m].status = "none"
  <2>1. m \in Mail /\ user[m] = "requested"
    BY <1>2, <1>6
  <2>2. mail[m].status = "none"
    BY <1>6, <2>1 DEF ClaimFits
  <2> QED
    BY <1>5, <2>1, <2>2
<1>7. ClaimFits(w)'
  BY <1>4, <1>6 DEF ClaimFits
<1> QED
  BY <1>1, <1>7

(* A worker that holds nothing. *)
LEMMA FitIdle ==
  ASSUME NEW w \in Worker, worker'[w].held = {}, worker'[w].todo = {},
         worker'[w].phase \notin {"page", "mark"}
  PROVE  PageFits(w)' /\ ClaimFits(w)'
BY DEF PageFits, ClaimFits

(* Every action leaves what the workers have read true enough. *)
LEMMA FitStep ==
  ASSUME Shape, Shape', Fit, Exact, Next
  PROVE  Fit'
<1> DEFINE Kept(w) == \A u \in Worker \ {w} : worker'[u] = worker[u]
           Held(w) == worker'[w].held = worker[w].held /\ worker'[w].copy = worker[w].copy
<1>1. ASSUME NEW w \in Worker
      PROVE  /\ PageFits(w) /\ ClaimFits(w) /\ worker[w] \in Process /\ w # None
             /\ worker[w].held \subseteq Mail /\ worker[w].todo \subseteq worker[w].held
  BY OutboxAssumption DEF Fit, ClaimFits, Shape, Process
(* the others *)
<1>2. ASSUME NEW w \in Worker, Kept(w), UNCHANGED <<user, inserted>>, fan'.last = fan.last,
             \A u \in Worker \ {w} : lock = u => lock' = u, \A m \in Mail : RowStep(m),
             PageFits(w)' /\ ClaimFits(w)'
      PROVE  Fit'
  <2>1. ASSUME NEW u \in Worker, u # w
        PROVE  PageFits(u)' /\ ClaimFits(u)'
    BY <1>1, <1>2, <2>1, FitStays
  <2> QED
    BY <1>2, <2>1 DEF Fit
<1>3. ASSUME worker' = worker, UNCHANGED <<user, inserted, lock>>, fan'.last = fan.last,
             \A m \in Mail : RowStep(m)
      PROVE  Fit'
  <2>1. ASSUME NEW u \in Worker
        PROVE  PageFits(u)' /\ ClaimFits(u)'
    BY <1>1, <1>3, <2>1, FitStays
  <2> QED
    BY <2>1 DEF Fit
<1>4. ASSUME NEW w \in Worker, Stop(w)
      PROVE  Kept(w) /\ PageFits(w)' /\ ClaimFits(w)'
  <2>1. Kept(w) /\ worker'[w] = Idle
    BY <1>4 DEF Stop, Shape
  <2>2. worker'[w].held = {} /\ worker'[w].todo = {} /\ worker'[w].phase = "idle"
    BY <2>1 DEF Idle
  <2> QED
    BY <2>1, <2>2, FitIdle
<1>5. ASSUME NEW w \in Worker, NEW p, Go(w, p)
      PROVE  /\ Kept(w) /\ Held(w) /\ worker'[w].todo = worker[w].todo
             /\ worker'[w].phase = p /\ worker'[w].cur = worker[w].cur
  BY <1>1, <1>5 DEF Go, Shape, Process
<1>6. ASSUME \A w \in Worker : ~CommitFanout(w)
      PROVE  \A m \in Mail : RowStep(m)
  BY <1>6, RowSteps
<1>7. ASSUME NEW w \in Worker, CommitFanout(w)
      PROVE  Fit'
  <2>1. Stop(w) /\ UNCHANGED user
    BY <1>7 DEF CommitFanout
  <2>2. Kept(w) /\ PageFits(w)' /\ ClaimFits(w)'
    BY <1>4, <2>1
  <2>3. worker[w].phase = "page" /\ lock = w
    BY <1>1, <1>7 DEF CommitFanout, PageFits
  <2>4. ASSUME NEW u \in Worker, u # w
        PROVE  PageFits(u)' /\ ClaimFits(u)'
    <3>1. worker'[u] = worker[u] /\ worker[u].phase # "page"
      BY <1>1, <2>2, <2>3, <2>4 DEF PageFits
    <3>2. ASSUME NEW m \in worker[u].held
          PROVE  mail'[m] = mail[m] /\ inserted'[m] = inserted[m]
      <4>1. m \in Mail /\ inserted[m] \in Nat /\ inserted[m] >= 1
        BY <1>1 DEF ClaimFits, Shape
      <4>2. m \notin worker[w].page
        <5>1. m \in worker[w].page => m > fan.last
          BY <1>1, <2>3 DEF PageFits
        <5> QED
          BY <4>1, <5>1 DEF Exact
      <4> QED
        BY <1>7, <4>1, <4>2 DEF CommitFanout, Written, Shape
    <3>3. ClaimFits(u)
      BY <1>1
    <3> QED
      BY <2>1, <3>1, <3>2, <3>3 DEF PageFits, ClaimFits
  <2> QED
    BY <2>2, <2>4 DEF Fit
<1>8. ASSUME NEW r \in Mail, RequestUserDeletion(r)
      PROVE  Fit'
  <2>1. /\ UNCHANGED <<fan, lock, worker, inserted>> /\ user' = [user EXCEPT ![r] = "requested"]
        /\ mail' = [mail EXCEPT ![r] = NoRow]
    BY <1>8 DEF RequestUserDeletion
  <2>2. ASSUME NEW u \in Worker
        PROVE  PageFits(u)' /\ ClaimFits(u)'
    <3>1. PageFits(u)'
      BY <1>1, <2>1 DEF PageFits, LastPage, Shape
    <3>2. \A m \in Mail : mail'[m] = IF m = r THEN NoRow ELSE mail[m]
      BY <2>1 DEF Shape
    <3>3. NoRow.status = "none"
      BY DEF NoRow
    <3>4. \A m \in Mail : m # r => user'[m] = user[m]
      BY <2>1 DEF Shape
    <3>5. ClaimFits(u)'
      BY <1>1, <2>1, <3>2, <3>3, <3>4 DEF ClaimFits
    <3> QED
      BY <3>1, <3>5
  <2> QED
    BY <2>2 DEF Fit
<1>10. ASSUME NEW w \in Worker, ClaimFanout(w)
       PROVE  Fit'
  <2>1. fan'.last = fan.last /\ UNCHANGED <<user, inserted, lock, mail>>
    BY <1>10 DEF ClaimFanout, Shape, FanRow
  <2>2. \A m \in Mail : RowStep(m)
    <3>1. \A m \in Mail : mail[m].attempts \in Nat
      BY DEF Shape, Row
    <3> QED
      BY <2>1, <3>1 DEF RowStep
  <2>3. Kept(w) /\ Held(w) /\ worker'[w].todo = worker[w].todo /\ worker'[w].phase = "fanout"
    BY <1>5, <1>10 DEF ClaimFanout
  <2>4. PageFits(w)' /\ ClaimFits(w)'
    BY <1>1, <2>1, <2>2, <2>3, FitGoesOn
  <2> QED
    BY <1>2, <2>1, <2>2, <2>3, <2>4
<1>11. ASSUME NEW w \in Worker, BeginFanout(w)
       PROVE  Fit'
  <2>1. fan'.last = fan.last /\ UNCHANGED <<user, inserted, mail>> /\ lock = None
    BY <1>11 DEF BeginFanout, Shape, FanRow
  <2>2. \A m \in Mail : RowStep(m)
    <3>1. \A m \in Mail : mail[m].attempts \in Nat
      BY DEF Shape, Row
    <3> QED
      BY <2>1, <3>1 DEF RowStep
  <2>3. CASE Stop(w)
    BY <1>1, <1>2, <1>4, <2>1, <2>2, <2>3
  <2>4. CASE lock' = w /\ worker' = [worker EXCEPT ![w].phase = "page", ![w].page = NextPage]
    <3>1. /\ Kept(w) /\ Held(w) /\ worker'[w].todo = worker[w].todo /\ worker'[w].phase = "page"
          /\ worker'[w].page = NextPage
      BY <1>1, <2>4 DEF Shape, Process
    <3>2. ClaimFits(w)'
      BY <1>1, <2>1, <3>1 DEF ClaimFits
    <3>3. PageFits(w)'
      BY <2>1, <2>4, <3>1, NextPageFacts DEF PageFits, LastPage
    <3> QED
      BY <1>1, <1>2, <2>1, <2>2, <3>1, <3>2, <3>3
  <2> QED
    BY <1>11, <2>3, <2>4 DEF BeginFanout
<1>12. ASSUME NEW w \in Worker, FanoutThrows(w)
       PROVE  Fit'
  <2>1. UNCHANGED <<user, inserted, mail, fan>> /\ \A u \in Worker \ {w} : lock = u => lock' = u
    BY <1>12 DEF FanoutThrows
  <2>2. \A m \in Mail : RowStep(m)
    <3>1. \A m \in Mail : mail[m].attempts \in Nat
      BY DEF Shape, Row
    <3> QED
      BY <2>1, <3>1 DEF RowStep
  <2>3. Kept(w) /\ worker'[w].phase = "fanfail" /\ worker'[w].held = {} /\ worker'[w].todo = {}
    BY <1>12 DEF FanoutThrows, Idle, Shape
  <2> QED
    BY <1>2, <2>1, <2>2, <2>3, FitIdle
<1>13. ASSUME NEW w \in Worker, MarkFanoutJobFailed(w)
       PROVE  Fit'
  <2>1. fan'.last = fan.last /\ UNCHANGED <<user, inserted, mail, lock>> /\ Stop(w)
    BY <1>13 DEF MarkFanoutJobFailed, Shape, FanRow
  <2>2. \A m \in Mail : RowStep(m)
    <3>1. \A m \in Mail : mail[m].attempts \in Nat
      BY DEF Shape, Row
    <3> QED
      BY <2>1, <3>1 DEF RowStep
  <2> QED
    BY <1>2, <1>4, <2>1, <2>2
<1>14. ASSUME NEW w \in Worker, Deadline(w) \/ EndSlice(w) \/ Crash(w)
       PROVE  Fit'
  <2>1. /\ UNCHANGED <<user, inserted, mail, fan>> /\ Stop(w)
        /\ \A u \in Worker \ {w} : lock = u => lock' = u
    BY <1>14 DEF Deadline, EndSlice, Crash
  <2>2. \A m \in Mail : RowStep(m)
    <3>1. \A m \in Mail : mail[m].attempts \in Nat
      BY DEF Shape, Row
    <3> QED
      BY <2>1, <3>1 DEF RowStep
  <2> QED
    BY <1>2, <1>4, <2>1, <2>2
<1>15. CASE \/ FanDue \/ FanStale \/ RequestCourseDeletion \/ PurgeCourse
            \/ (\E m \in Mail : CleanupSent(m) \/ MailDue(m) \/ MailStale(m))
            \/ \E w \in Worker : CooldownEnds(w)
  <2>1. UNCHANGED <<worker, user, inserted, lock>> /\ fan'.last = fan.last
    BY <1>15 DEF FanDue, FanStale, RequestCourseDeletion, PurgeCourse, CleanupSent, MailDue, MailStale,
       CooldownEnds, Shape, FanRow
  <2>2. \A w \in Worker : ~CommitFanout(w)
    <3>1. ASSUME NEW w \in Worker, CommitFanout(w)
          PROVE  FALSE
      <4>1. worker[w].phase = "page" /\ worker'[w].phase = "idle"
        BY <3>1 DEF CommitFanout, Stop, Idle, Shape
      <4> QED
        BY <2>1, <4>1
    <3> QED
      BY <3>1
  <2> QED
    BY <1>3, <1>6, <2>1, <2>2
<1>16. ASSUME NEW w \in Worker,
              \/ Claim(w) \/ StartGroup(w) \/ Release(w) \/ Filter(w) \/ Cancel(w) \/ Connect(w)
              \/ Send(w) \/ MarkSent(w) \/ MarkRefused(w) \/ RetryRest(w),
              ClaimFits(w)', worker'[w].phase # "page", Kept(w)
       PROVE  Fit'
  <2>1. UNCHANGED <<fan, user, inserted, lock>>
    BY <1>16 DEF Claim, StartGroup, Release, Filter, Cancel, Connect, Send, MarkSent, MarkRefused, RetryRest
  <2>2. \A u \in Worker : ~CommitFanout(u)
    <3>1. ASSUME NEW u \in Worker, CommitFanout(u)
          PROVE  FALSE
      <4>1. lock = u /\ lock' = None
        BY <1>1, <3>1 DEF CommitFanout, PageFits
      <4> QED
        BY <1>1, <2>1, <4>1
    <3> QED
      BY <3>1
  <2>3. PageFits(w)'
    BY <1>16 DEF PageFits
  <2> QED
    BY <1>2, <1>6, <1>16, <2>1, <2>2, <2>3
<1>17. ASSUME NEW w \in Worker,
              \/ Claim(w) \/ StartGroup(w) \/ Release(w) \/ Filter(w) \/ Cancel(w) \/ Connect(w)
              \/ Send(w) \/ MarkSent(w) \/ MarkRefused(w) \/ RetryRest(w)
       PROVE  UNCHANGED <<fan, user, inserted, lock>> /\ \A m \in Mail : RowStep(m)
  <2>1. UNCHANGED <<fan, user, inserted, lock>>
    BY <1>17 DEF Claim, StartGroup, Release, Filter, Cancel, Connect, Send, MarkSent, MarkRefused, RetryRest
  <2>2. \A u \in Worker : ~CommitFanout(u)
    <3>1. ASSUME NEW u \in Worker, CommitFanout(u)
          PROVE  FALSE
      <4>1. lock = u /\ lock' = None
        BY <1>1, <3>1 DEF CommitFanout, PageFits
      <4> QED
        BY <1>1, <2>1, <4>1
    <3> QED
      BY <3>1
  <2> QED
    BY <1>6, <2>1, <2>2
<1>18. ASSUME NEW w \in Worker, Claim(w)
       PROVE  Fit'
  <2>1. PICK held \in SUBSET Mail :
          /\ \A m \in held : Runnable(m) \/ StaleSending(m)
          /\ mail' = [m \in Mail |-> IF m \in held THEN [mail[m] EXCEPT !.status = "sending"] ELSE mail[m]]
          /\ worker' = [worker EXCEPT ![w] = [Idle EXCEPT !.phase = "group", !.held = held,
                !.copy = [m \in Mail |-> IF m \in held THEN mail[m].attempts ELSE 0]]]
    BY <1>18 DEF Claim
  <2>2. /\ Kept(w) /\ worker'[w].phase = "group" /\ worker'[w].held = held /\ worker'[w].todo = {}
        /\ worker'[w].copy = [m \in Mail |-> IF m \in held THEN mail[m].attempts ELSE 0]
    BY <2>1 DEF Idle, Shape
  <2>3. UNCHANGED inserted
    BY <1>18 DEF Claim
  <2>4. ASSUME NEW m \in held
        PROVE  inserted'[m] >= 1 /\ mail'[m].attempts >= worker'[w].copy[m]
    <3>1. m \in Mail /\ mail[m].status # "none" /\ inserted[m] \in Nat
      BY <2>1 DEF Runnable, StaleSending, Shape
    <3>2. inserted[m] >= 1
      BY <3>1 DEF Exact
    <3>3. mail'[m].attempts = mail[m].attempts /\ worker'[w].copy[m] = mail[m].attempts /\ mail[m].attempts \in Nat
      BY <2>1, <2>2, <3>1 DEF Shape, Row
    <3> QED
      BY <2>3, <3>2, <3>3
  <2>5. ClaimFits(w)'
    BY <2>2, <2>4 DEF ClaimFits
  <2> QED
    BY <1>16, <1>18, <2>2, <2>5
<1>19. ASSUME NEW w \in Worker, StartGroup(w)
       PROVE  Fit'
  <2>1. /\ Kept(w) /\ Held(w) /\ worker'[w].todo \subseteq worker[w].held
        /\ worker'[w].phase \in {"release", "filter", "config"}
    <3>1. CASE Go(w, "filter")
      BY <1>1, <1>5, <3>1
    <3>2. ASSUME NEW p \in {"release", "config"},
                 worker' = [worker EXCEPT ![w].phase = p, ![w].todo = worker[w].held]
          PROVE  Kept(w) /\ Held(w) /\ worker'[w].todo \subseteq worker[w].held /\ worker'[w].phase = p
      BY <1>1, <3>2 DEF Shape, Process
    <3> QED
      BY <1>19, <3>1, <3>2 DEF StartGroup
  <2>2. ClaimFits(w)'
    BY <1>1, <1>17, <1>19, <2>1, FitGoesOn
  <2> QED
    BY <1>16, <1>19, <2>1, <2>2
<1>20. ASSUME NEW w \in Worker, Release(w)
       PROVE  Fit'
  <2>1. CASE Stop(w)
    <3>1. worker'[w].phase = "idle"
      BY <2>1 DEF Stop, Idle, Shape
    <3> QED
      BY <1>4, <1>16, <1>20, <2>1, <3>1
  <2>2. ASSUME NEW m, worker' = [worker EXCEPT ![w].todo = @ \ {m}]
        PROVE  Fit'
    <3>1. Kept(w) /\ Held(w) /\ worker'[w].todo \subseteq worker[w].held /\ worker'[w].phase = "release"
      BY <1>1, <1>20, <2>2 DEF Release, Shape, Process
    <3>2. ClaimFits(w)'
      BY <1>1, <1>17, <1>20, <3>1, FitGoesOn
    <3> QED
      BY <1>16, <1>20, <3>1, <3>2
  <2> QED
    BY <1>20, <2>1, <2>2 DEF Release
<1>21. ASSUME NEW w \in Worker, Filter(w)
       PROVE  Fit'
  <2> DEFINE good == {m \in worker[w].held : mail[m].status \in {"sending", "stale"} /\ Mailable(m)}
             p == IF good = worker[w].held THEN "connect" ELSE "cancel"
  <2>1. CASE Stop(w)
    <3>1. worker'[w].phase = "idle"
      BY <2>1 DEF Stop, Idle, Shape
    <3> QED
      BY <1>4, <1>16, <1>21, <2>1, <3>1
  <2>2. CASE worker' = [worker EXCEPT ![w].todo = good, ![w].phase = p]
    <3>1. p \in {"connect", "cancel"} /\ good \subseteq worker[w].held /\ \A m \in good : user[m] = "active"
      BY DEF Mailable
    <3> HIDE DEF good, p
    <3>2. Kept(w) /\ Held(w) /\ worker'[w].todo = good /\ worker'[w].phase = p
      BY <1>1, <2>2 DEF Shape, Process
    <3>3. ClaimFits(w)'
      BY <1>1, <1>17, <1>21, <3>1, <3>2, FitGoesOn
    <3> QED
      BY <1>16, <1>21, <3>1, <3>2, <3>3
  <2> QED
    BY <1>21, <2>1, <2>2 DEF Filter
<1>22. ASSUME NEW w \in Worker, Cancel(w)
       PROVE  Fit'
  <2>1. CASE Stop(w)
    <3>1. worker'[w].phase = "idle"
      BY <2>1 DEF Stop, Idle, Shape
    <3> QED
      BY <1>4, <1>16, <1>22, <2>1, <3>1
  <2>2. CASE Go(w, "connect")
    <3>1. Kept(w) /\ Held(w) /\ worker'[w].todo = worker[w].todo /\ worker'[w].phase = "connect"
      BY <1>5, <2>2
    <3>2. worker[w].phase = "cancel"
      BY <1>22 DEF Cancel
    <3>3. ClaimFits(w)'
      BY <1>1, <1>17, <1>22, <3>1, <3>2, FitGoesOn
    <3> QED
      BY <1>16, <1>22, <3>1, <3>3
  <2> QED
    BY <1>22, <2>1, <2>2 DEF Cancel
<1>23. ASSUME NEW w \in Worker, Connect(w)
       PROVE  Fit'
  <2>1. /\ Kept(w) /\ Held(w) /\ worker'[w].todo = worker[w].todo
        /\ worker'[w].phase \in {"send", "unseen"} /\ worker[w].phase = "connect"
    BY <1>1, <1>23 DEF Connect, Go, Shape, Process
  <2>2. ClaimFits(w)'
    BY <1>1, <1>17, <1>23, <2>1, FitGoesOn
  <2> QED
    BY <1>16, <1>23, <2>1, <2>2
<1>24. ASSUME NEW w \in Worker, Send(w)
       PROVE  Fit'
  <2>1. PICK m \in worker[w].todo, ok \in BOOLEAN :
          worker' = [worker EXCEPT ![w].phase = "mark", ![w].cur = m, ![w].ok = ok, ![w].infra = @ \/ ~ok]
    BY <1>24 DEF Send
  <2>2. /\ Kept(w) /\ Held(w) /\ worker'[w].todo = worker[w].todo
        /\ worker'[w].phase = "mark" /\ worker'[w].cur = m /\ worker[w].phase = "send"
    BY <1>1, <1>24, <2>1 DEF Send, Shape, Process
  <2>3. ClaimFits(w)'
    BY <1>1, <1>17, <1>24, <2>2, FitGoesOn
  <2> QED
    BY <1>16, <1>24, <2>2, <2>3
<1>25. ASSUME NEW w \in Worker, NEW m, After(w, m)
       PROVE  /\ Kept(w) /\ Held(w) /\ worker'[w].todo = worker[w].todo \ {m}
              /\ worker'[w].phase \in {"end", "send"}
  <2> DEFINE g == worker[w].good \/ worker[w].ok
             p == IF worker[w].todo = {m} THEN "end" ELSE "send"
             T == worker[w].todo \ {m}
             slot == [worker[w] EXCEPT !.todo = T, !.cur = 0, !.ok = FALSE, !.good = g, !.phase = p]
  <2>1. worker' = [worker EXCEPT ![w] = slot]
    BY <1>25, Zenon DEF After, Shape
  <2>2. p \in {"end", "send"}
    OBVIOUS
  <2> HIDE DEF g, p, T
  <2>3. /\ slot.held = worker[w].held /\ slot.copy = worker[w].copy /\ slot.todo = T
        /\ slot.phase = p
    BY <1>1 DEF Process
  <2> HIDE DEF slot
  <2>4. worker'[w] = slot /\ Kept(w)
    BY <2>1 DEF Shape
  <2>5. T = worker[w].todo \ {m}
    BY DEF T
  <2> QED
    BY <2>2, <2>3, <2>4, <2>5
<1>26. ASSUME NEW w \in Worker, MarkSent(w) \/ MarkRefused(w)
       PROVE  Fit'
  <2>1. worker[w].phase = "mark" /\ worker[w].cur \in worker[w].todo
    BY <1>1, <1>26 DEF MarkSent, MarkRefused, ClaimFits
  <2>2. CASE \E m : After(w, m)
    <3>1. /\ Kept(w) /\ Held(w) /\ worker'[w].todo \subseteq worker[w].todo
          /\ worker'[w].phase \in {"end", "send"}
      BY <1>25, <2>2
    <3>2. ClaimFits(w)'
      BY <1>1, <1>17, <1>26, <2>1, <3>1, FitGoesOn
    <3> QED
      BY <1>16, <1>26, <3>1, <3>2
  <2>3. CASE worker' = [worker EXCEPT ![w].ok = FALSE, ![w].infra = TRUE]
    <3>1. /\ Kept(w) /\ Held(w) /\ worker'[w].todo = worker[w].todo
          /\ worker'[w].phase = "mark" /\ worker'[w].cur = worker[w].cur
      BY <1>1, <2>1, <2>3 DEF Shape, Process
    <3>2. ClaimFits(w)'
      BY <1>1, <1>17, <1>26, <2>1, <3>1, FitGoesOn
    <3> QED
      BY <1>16, <1>26, <3>1, <3>2
  <2>4. CASE worker' = [worker EXCEPT ![w].phase = "unseen", ![w].infra = TRUE, ![w].cur = 0]
    <3>1. Kept(w) /\ Held(w) /\ worker'[w].todo = worker[w].todo /\ worker'[w].phase = "unseen"
      BY <1>1, <2>1, <2>4 DEF Shape, Process
    <3>2. ClaimFits(w)'
      BY <1>1, <1>17, <1>26, <2>1, <3>1, FitGoesOn
    <3> QED
      BY <1>16, <1>26, <3>1, <3>2
  <2> QED
    BY <1>26, <2>2, <2>3, <2>4 DEF MarkSent, MarkRefused
<1>27. ASSUME NEW w \in Worker, RetryRest(w)
       PROVE  Fit'
  <2>1. CASE Stop(w)
    <3>1. worker'[w].phase = "idle"
      BY <2>1 DEF Stop, Idle, Shape
    <3> QED
      BY <1>4, <1>16, <1>27, <2>1, <3>1
  <2>2. ASSUME NEW m, \/ worker' = [worker EXCEPT ![w].todo = @ \ {m}]
                      \/ worker' = [worker EXCEPT ![w].todo = {}, ![w].phase = "end"]
        PROVE  Fit'
    <3>1. /\ Kept(w) /\ Held(w) /\ worker'[w].todo \subseteq worker[w].held
          /\ worker'[w].phase \in {"config", "unseen", "end"}
      BY <1>1, <1>27, <2>2 DEF RetryRest, Shape, Process
    <3>2. ClaimFits(w)'
      BY <1>1, <1>17, <1>27, <3>1, FitGoesOn
    <3> QED
      BY <1>16, <1>27, <3>1, <3>2
  <2> QED
    BY <1>27, <2>1, <2>2 DEF RetryRest
<1> QED
  BY <1>7, <1>8, <1>10, <1>11, <1>12, <1>13, <1>14, <1>15, <1>18, <1>19, <1>20, <1>21, <1>22, <1>23,
     <1>24, <1>26, <1>27
  DEF Next, Step

-----------------------------------------------------------------------------
(* The cursor *)

(* A step that writes no row keeps the cursor exact. *)
LEMMA ExactStays ==
  ASSUME Shape, Exact, UNCHANGED inserted, fan'.last = fan.last,
         fan'.status = "done" => fan.status = "done",
         \A m \in Mail : RowStep(m),
         \A m \in Mail : sends'[m] = sends[m] \/ inserted[m] >= 1,
         \A m \in Mail : user'[m] = "active" => user[m] = "active",
         lock' # None => course' = "active"
  PROVE  Exact'
<1> SUFFICES ASSUME NEW r \in Mail
             PROVE  /\ inserted'[r] <= 1
                    /\ inserted'[r] = 0 => mail'[r].status = "none" /\ sends'[r] = 0
                    /\ r > fan'.last => inserted'[r] = 0
                    /\ user'[r] = "active" /\ (r <= fan'.last \/ fan'.status = "done") => inserted'[r] = 1
  BY DEF Exact
<1>1. inserted[r] \in Nat
  BY DEF Shape
<1>2. inserted[r] = 0 => mail[r].status = "none" /\ sends[r] = 0
  BY DEF Exact
<1>3. mail[r].status = "none" => mail'[r].status = "none"
  BY DEF RowStep
<1>4. inserted[r] = 0 => sends'[r] = sends[r]
  BY <1>1
<1> QED
  BY <1>2, <1>3, <1>4 DEF Exact

(* Every action keeps the recipients before the cursor written once and    *)
(* those after it unwritten.                                               *)
LEMMA ExactStep ==
  ASSUME Shape, Shape', Fit, Exact, Next
  PROVE  Exact'
<1>1. CASE \E w \in Worker : CommitFanout(w)
  <2>1. PICK w \in Worker : CommitFanout(w)
    BY <1>1
  <2> DEFINE page == worker[w].page
  <2>2. /\ PageFits(w) /\ worker[w].phase = "page" /\ page \subseteq Mail
        /\ UNCHANGED <<course, user, sends>> /\ lock' = None
        /\ mail' = [m \in Mail |-> IF m \in Written(page) THEN [NoRow EXCEPT !.status = "pending"] ELSE mail[m]]
        /\ inserted' = [m \in Mail |-> inserted[m] + IF m \in Written(page) THEN 1 ELSE 0]
        /\ fan' = [status |-> IF LastPage(page) THEN "done" ELSE "pending", due |-> TRUE,
                   last |-> IF page = {} THEN fan.last ELSE CursorAfter(page)]
    BY <2>1 DEF CommitFanout, Fit, Shape, Process
  <2>3. /\ \A r \in page : r > fan.last
        /\ \A r \in Mail : r > fan.last /\ user[r] = "active" =>
             ((LastPage(page) \/ \E q \in page : r <= q) => r \in page)
    BY <2>2 DEF PageFits
  <2> HIDE DEF page
  <2>4. fan.last \in Nat /\ fan'.last \in Nat /\ Mail \subseteq Nat
    BY DEF Shape, FanRow, Mail
  <2>5. ASSUME NEW r \in page
        PROVE  inserted[r] = 0 /\ r \in Written(page) /\ inserted'[r] = 1
    <3>1. inserted[r] = 0 /\ mail[r].status = "none" /\ r \in Mail
      BY <2>2, <2>3 DEF Exact
    <3>2. r \in Written(page)
      BY <3>1 DEF Written
    <3> QED
      BY <2>2, <3>1, <3>2
  <2>6. ASSUME NEW r \in Mail, r \notin page
        PROVE  inserted'[r] = inserted[r] /\ mail'[r] = mail[r]
    <3>1. r \notin Written(page) /\ inserted[r] \in Nat
      BY <2>6 DEF Written, Shape
    <3> QED
      BY <2>2, <3>1
  <2>7. fan'.last >= fan.last /\ (\A r \in page : r <= fan'.last) /\ (page # {} => fan'.last \in page)
    <3>1. CASE page = {}
      BY <2>2, <2>4, <3>1
    <3>2. CASE page # {}
      <4>1. LastOf(page) \in page /\ (\A q \in page : q <= LastOf(page)) /\ fan'.last = LastOf(page)
        BY <2>2, <3>2, LastOfPage DEF CursorAfter
      <4>2. LastOf(page) > fan.last
        BY <2>3, <4>1
      <4> QED
        BY <2>4, <4>1, <4>2
    <3> QED
      BY <3>1, <3>2
  <2>8. fan'.status = "done" => LastPage(page)
    BY <2>2
  <2>9. page = {} => fan'.last = fan.last
    BY <2>2
  <2>10. ASSUME NEW r \in Mail
         PROVE  /\ inserted'[r] <= 1
                /\ inserted'[r] = 0 => mail'[r].status = "none" /\ sends'[r] = 0
                /\ r > fan'.last => inserted'[r] = 0
                /\ user'[r] = "active" /\ (r <= fan'.last \/ fan'.status = "done") => inserted'[r] = 1
    <3>1. CASE r \in page
      <4>1. r <= fan'.last /\ r \in Nat
        BY <2>4, <2>7, <3>1
      <4>2. ~(r > fan'.last)
        BY <2>4, <4>1
      <4> QED
        BY <2>5, <3>1, <4>2
    <3>2. CASE r \notin page
      <4>1. inserted'[r] = inserted[r] /\ mail'[r] = mail[r] /\ sends'[r] = sends[r] /\ user'[r] = user[r]
        BY <2>2, <2>6, <3>2
      <4>2. r > fan'.last => r > fan.last
        BY <2>4, <2>7
      <4>3. ASSUME user[r] = "active", r <= fan'.last \/ fan'.status = "done"
            PROVE  inserted[r] = 1
        <5>1. CASE r > fan.last
          <6>1. LastPage(page) \/ \E q \in page : r <= q
            BY <2>4, <2>7, <2>8, <2>9, <4>3, <5>1
          <6> QED
            BY <2>3, <3>2, <4>3, <5>1, <6>1
        <5>2. CASE ~(r > fan.last)
          <6>1. r <= fan.last
            BY <2>4, <5>2
          <6> QED
            BY <4>3, <6>1 DEF Exact
        <5> QED
          BY <5>1, <5>2
      <4> QED
        BY <4>1, <4>2, <4>3 DEF Exact
    <3> QED
      BY <3>1, <3>2
  <2> QED
    BY <2>2, <2>10 DEF Exact
<1>2. CASE \A w \in Worker : ~CommitFanout(w)
  <2>1. \A m \in Mail : RowStep(m)
    BY <1>2, RowSteps
  <2>2. UNCHANGED inserted
    BY <1>2 DEF Next, Step, ClaimFanout, Claim, BeginFanout, MarkFanoutJobFailed, StartGroup, Release,
       Filter, Cancel, Connect, Send, MarkSent, MarkRefused, RetryRest, EndSlice, FanoutThrows, Deadline,
       Crash, CooldownEnds, RequestUserDeletion, CleanupSent, MailDue, MailStale, RequestCourseDeletion,
       PurgeCourse, FanDue, FanStale
  <2>3. fan' = fan \/ \E s \in {"running", "gone", "failed", "stale", fan.status}, d \in BOOLEAN :
          fan' = [fan EXCEPT !.status = s, !.due = d]
    <3>1. fan = [fan EXCEPT !.status = fan.status] /\ fan = [fan EXCEPT !.due = fan.due] /\ fan.due \in BOOLEAN
      BY DEF Shape, FanRow
    <3>2. \A s : [fan EXCEPT !.status = s] = [fan EXCEPT !.status = s, !.due = fan.due]
      BY DEF Shape, FanRow
    <3>3. \A d : [fan EXCEPT !.due = d] = [fan EXCEPT !.status = fan.status, !.due = d]
      BY DEF Shape, FanRow
    <3>4. \/ fan' = fan \/ (\E s \in {"running", "gone", "stale"} : fan' = [fan EXCEPT !.status = s])
          \/ fan' = [fan EXCEPT !.due = TRUE] \/ fan' = [fan EXCEPT !.status = "failed", !.due = FALSE]
      BY <1>2, Zenon DEF Next, Step, ClaimFanout, Claim, BeginFanout, MarkFanoutJobFailed, StartGroup, Release,
       Filter, Cancel, Connect, Send, MarkSent, MarkRefused, RetryRest, EndSlice, FanoutThrows, Deadline,
       Crash, CooldownEnds, RequestUserDeletion, CleanupSent, MailDue, MailStale, RequestCourseDeletion,
       PurgeCourse, FanDue, FanStale
    <3> QED
      BY <3>1, <3>2, <3>3, <3>4
  <2>4. fan'.last = fan.last /\ (fan'.status = "done" => fan.status = "done")
    BY <2>3 DEF Shape, FanRow
  <2>5. \A m \in Mail : user'[m] = "active" => user[m] = "active"
    <3>1. user' = user \/ \E r \in Mail : user' = [user EXCEPT ![r] = "requested"]
      BY <1>2 DEF Next, Step, ClaimFanout, Claim, BeginFanout, MarkFanoutJobFailed, StartGroup, Release,
       Filter, Cancel, Connect, Send, MarkSent, MarkRefused, RetryRest, EndSlice, FanoutThrows, Deadline,
       Crash, CooldownEnds, RequestUserDeletion, CleanupSent, MailDue, MailStale, RequestCourseDeletion,
       PurgeCourse, FanDue, FanStale
    <3> QED
      BY <3>1 DEF Shape
  <2>6. \A m \in Mail : sends'[m] = sends[m] \/ inserted[m] >= 1
    <3>1. CASE \E w \in Worker : Send(w)
      <4>1. PICK w \in Worker : Send(w)
        BY <3>1
      <4>2. PICK m \in worker[w].todo : \E n : sends' = [sends EXCEPT ![m] = n]
        BY <4>1 DEF Send
      <4>3. inserted[m] >= 1
        BY <4>2 DEF Fit, ClaimFits
      <4> QED
        BY <4>2, <4>3 DEF Shape
    <3>2. CASE \A w \in Worker : ~Send(w)
      BY <1>2, <3>2 DEF Next, Step, ClaimFanout, Claim, BeginFanout, MarkFanoutJobFailed, StartGroup, Release,
       Filter, Cancel, Connect, MarkSent, MarkRefused, RetryRest, EndSlice, FanoutThrows, Deadline,
       Crash, CooldownEnds, RequestUserDeletion, CleanupSent, MailDue, MailStale, RequestCourseDeletion,
       PurgeCourse, FanDue, FanStale
    <3> QED
      BY <3>1, <3>2
  <2>7. lock' # None => course' = "active"
    BY <1>2 DEF Exact, Next, Step, ClaimFanout, Claim, BeginFanout, CourseActive, MarkFanoutJobFailed, StartGroup,
       Release, Filter, Cancel, Connect, Send, MarkSent, MarkRefused, RetryRest, EndSlice, FanoutThrows, Deadline,
       Crash, CooldownEnds, RequestUserDeletion, CleanupSent, MailDue, MailStale, RequestCourseDeletion,
       PurgeCourse, FanDue, FanStale
  <2> QED
    BY <2>1, <2>2, <2>4, <2>5, <2>6, <2>7, ExactStays
<1> QED
  BY <1>1, <1>2

-----------------------------------------------------------------------------
(* Theorems *)

Sound == Shape /\ Fit /\ Exact

(* At the start no worker holds anything and no row is written. *)
LEMMA InitSound == Init => Sound
<1> SUFFICES ASSUME Init
             PROVE  Sound
  OBVIOUS
<1>1. Shape
  BY InitShape
<1>2. \A w \in Worker : worker[w].phase = "idle" /\ worker[w].held = {} /\ worker[w].todo = {}
  BY DEF Init, Idle
<1>3. Fit
  BY <1>2 DEF Fit, PageFits, ClaimFits
<1>4. \A r \in Mail : inserted[r] = 0 /\ sends[r] = 0 /\ mail[r].status = "none" /\ r \in Nat /\ r > 0
  BY DEF Init, NoRow, Mail
<1>5. fan.last = 0 /\ fan.status = "pending" /\ lock = None
  BY DEF Init
<1>6. Exact
  BY <1>4, <1>5 DEF Exact
<1> QED
  BY <1>1, <1>3, <1>6 DEF Sound

LEMMA SoundStep == Sound /\ [Next]_vars => Sound'
<1> SUFFICES ASSUME Sound, [Next]_vars
             PROVE  Sound'
  OBVIOUS
<1>1. CASE Next
  <2>1. Shape /\ Fit /\ Exact
    BY DEF Sound
  <2>2. Shape'
    BY <1>1, <2>1, ShapeStep
  <2> QED
    BY <1>1, <2>1, <2>2, FitStep, ExactStep DEF Sound
<1>2. CASE UNCHANGED vars
  BY <1>2 DEF vars, Sound, Shape, Fit, PageFits, LastPage, ClaimFits, Exact
<1> QED
  BY <1>1, <1>2

LEMMA AlwaysSound == Spec => []Sound
<1> QED
  BY InitSound, SoundStep, PTL DEF Spec

(* The fan-out writes every mail at most once, and when it is done every   *)
(* recipient that is still active has been written: the keyset cursor of   *)
(* processFanoutJob is exact whatever workers take the job over.           *)
THEOREM FanoutExact == Spec => []FanoutIsExact
<1>1. Sound => FanoutIsExact
  BY DEF Sound, Exact, FanoutIsExact
<1> QED
  BY <1>1, AlwaysSound, PTL

(* A worker that is about to mail a recipient under deletion has checked   *)
(* the recipient before the request, which has deleted the row.            *)
THEOREM LateMailInFlight == Spec => []LateMailIsInFlight
<1>1. Sound => LateMailIsInFlight
  BY DEF Sound, Fit, ClaimFits, LateMailIsInFlight
<1> QED
  BY <1>1, AlwaysSound, PTL

(* No row is written for a course whose rows the purge has deleted: the    *)
(* fan-out holds the course while it writes.                               *)
THEOREM PurgedSilent == Spec => []PurgedIsSilent
<1>1. Init => PurgedIsSilent
  BY DEF Init, PurgedIsSilent
<1>2. ASSUME Sound, PurgedIsSilent, [Next]_vars
      PROVE  PurgedIsSilent'
  <2>1. CASE \E w \in Worker : CommitFanout(w)
    <3>1. PICK w \in Worker : CommitFanout(w)
      BY <2>1
    <3>2. lock = w /\ w # None
      BY <1>2, <3>1, OutboxAssumption DEF CommitFanout, Sound, Fit, PageFits
    <3>3. course' = "active"
      BY <1>2, <3>1, <3>2 DEF CommitFanout, Sound, Exact
    <3> QED
      BY <3>3 DEF PurgedIsSilent
  <2>2. CASE PurgeCourse
    <3>1. CASE mail' = [m \in Mail |-> NoRow]
      BY <3>1 DEF PurgedIsSilent, NoRow
    <3>2. CASE course = "unmailed" /\ UNCHANGED mail
      BY <1>2, <3>2 DEF PurgedIsSilent
    <3> QED
      BY <2>2, <3>1, <3>2 DEF PurgeCourse
  <2>3. CASE Next /\ ~PurgeCourse /\ \A w \in Worker : ~CommitFanout(w)
    <3>1. \A m \in Mail : mail[m].status = "none" => mail'[m].status = "none"
      BY <1>2, <2>3, RowSteps DEF Sound, RowStep
    <3>2. course' = course \/ course' = "requested"
      BY <2>3 DEF Next, Step, ClaimFanout, Claim, BeginFanout, MarkFanoutJobFailed, StartGroup, Release,
         Filter, Cancel, Connect, Send, MarkSent, MarkRefused, RetryRest, EndSlice, FanoutThrows, Deadline,
         Crash, CooldownEnds, RequestUserDeletion, CleanupSent, MailDue, MailStale, RequestCourseDeletion,
         FanDue, FanStale
    <3> QED
      BY <1>2, <3>1, <3>2 DEF PurgedIsSilent
  <2>4. CASE UNCHANGED vars
    BY <1>2, <2>4 DEF vars, PurgedIsSilent
  <2> QED
    BY <1>2, <2>1, <2>2, <2>3, <2>4
<1> QED
  BY <1>1, <1>2, AlwaysSound, PTL DEF Spec

(* A mail is given up only when its row counts all its attempts, although  *)
(* markEmailOutboxJobRetry judges by the attempts the worker read: a copy  *)
(* is never ahead of its row.                                              *)
THEOREM FailedSpent == Spec => []FailedIsSpent
<1>1. Init => FailedIsSpent
  BY DEF Init, FailedIsSpent, NoRow
<1>2. ASSUME Sound, FailedIsSpent, [Next]_vars
      PROVE  FailedIsSpent'
  <2>1. CASE \E w \in Worker : CommitFanout(w)
    <3>1. \A m \in Mail : mail'[m] = mail[m] \/ mail'[m].status = "pending"
      BY <2>1 DEF CommitFanout, NoRow
    <3> QED
      BY <1>2, <3>1 DEF FailedIsSpent
  <2>2. CASE Next /\ \A w \in Worker : ~CommitFanout(w)
    <3>1. Shape'
      BY <1>2, <2>2, ShapeStep DEF Sound
    <3>2. ASSUME NEW m \in Mail, mail'[m].status = "failed"
          PROVE  mail'[m].attempts >= MaxAttempts
      <4>1. /\ mail'[m].attempts \in Nat /\ mail[m].attempts \in Nat /\ MaxAttempts \in Nat
        BY <1>2, <3>1, OutboxAssumption DEF Sound, Shape, Row
      <4>2. RowStep(m)
        BY <1>2, <2>2, RowSteps DEF Sound
      <4> QED
        BY <1>2, <3>2, <4>1, <4>2 DEF RowStep, FailedIsSpent
    <3> QED
      BY <3>2 DEF FailedIsSpent
  <2>3. CASE UNCHANGED vars
    BY <1>2, <2>3 DEF vars, FailedIsSpent
  <2> QED
    BY <1>2, <2>1, <2>2, <2>3
<1> QED
  BY <1>1, <1>2, AlwaysSound, PTL DEF Spec

-----------------------------------------------------------------------------
(* Copies *)

(* m has had no more copies than the faults account for. *)
Covered(m) == sends[m] + Cardinality(Carriers(m)) + Loose(m) <= 1 + faults

(* A worker whose retry of m would not give m up. *)
Behind(w, m) == Carrier(w, m) /\ worker[w].copy[m] + 1 < MaxAttempts

Behinds(m) == {w \in Worker : Behind(w, m)}

(* The row may be claimed and has not been given up. *)
Open(m) == IF Claimable(m) /\ mail[m].status # "failed" THEN 1 ELSE 0

(* From its last attempt on, m gets no more attempts than the faults       *)
(* account for: each worker that has it may count one, and so may the next *)
(* one, when the first was judged by an old copy.                          *)
Bounded(m) ==
  /\ mail[m].status = "none" => mail[m].attempts = 0
  /\ mail[m].status # "none" /\ mail[m].attempts >= MaxAttempts - 1 =>
       mail[m].attempts + Cardinality(Carriers(m)) + Cardinality(Behinds(m)) + Open(m)
         <= MaxAttempts + 2 * faults

Accounted(m) == Covered(m) /\ Bounded(m)

Paid == \A m \in Mail : Accounted(m)

(* The row of m keeps its attempts or is gone. *)
Keeps(m) ==
  \/ mail'[m].status = "none" /\ mail'[m].attempts = 0
  \/ (mail'[m].status = "none" <=> mail[m].status = "none") /\ mail'[m].attempts = mail[m].attempts

(* The row of m has a retry of w counted. *)
Counted(w, m) ==
  /\ mail[m].status # "none" /\ mail'[m].attempts = mail[m].attempts + 1
  /\ mail'[m].status = StatusAfter(worker[w].copy[m])

(* w lays m down with a retry. *)
Retried(w, m) == Carrier(w, m) /\ ~Carrier(w, m)' /\ Counted(w, m)

(* Only w has taken a step. *)
Alone(w) == \A u \in Worker \ {w} : worker'[u] = worker[u]

One(b) == IF b THEN 1 ELSE 0

(* Two sets of workers that differ in w at most. *)
LEMMA DifferInOne ==
  ASSUME NEW w \in Worker, NEW C, NEW D, C \subseteq Worker, D \subseteq Worker,
         \A u \in Worker \ {w} : u \in C <=> u \in D
  PROVE  /\ Cardinality(C) \in Nat /\ Cardinality(D) \in Nat
         /\ Cardinality(D) + One(w \in C) = Cardinality(C) + One(w \in D)
<1>1. IsFiniteSet(C) /\ IsFiniteSet(D)
  BY OutboxAssumption, FS_Subset
<1>2. Cardinality(C) \in Nat /\ Cardinality(D) \in Nat
  BY <1>1, FS_CardinalityType
<1>3. CASE (w \in C) = (w \in D)
  <2>1. C = D
    BY <1>3
  <2> QED
    BY <1>2, <2>1 DEF One
<1>4. CASE w \in C /\ w \notin D
  <2>1. C = D \cup {w}
    BY <1>4
  <2>2. Cardinality(C) = Cardinality(D) + 1
    BY <1>1, <1>4, <2>1, FS_AddElement
  <2> QED
    BY <1>2, <1>4, <2>2 DEF One
<1>5. CASE w \notin C /\ w \in D
  <2>1. D = C \cup {w}
    BY <1>5
  <2>2. Cardinality(D) = Cardinality(C) + 1
    BY <1>1, <1>5, <2>1, FS_AddElement
  <2> QED
    BY <1>2, <1>5, <2>2 DEF One
<1> QED
  BY <1>2, <1>3, <1>4, <1>5

(* A step of w alone changes the account of m by what w does. *)
LEMMA AccountOfOne ==
  ASSUME Shape, NEW w \in Worker, NEW m \in Mail, Alone(w), Covered(m),
         NEW s \in Nat, sends'[m] = sends[m] + s,
         NEW f \in Nat, faults' = faults + f,
         s + One(Carrier(w, m)') + Loose(m)' <= One(Carrier(w, m)) + Loose(m) + f
  PROVE  Covered(m)'
<1> DEFINE C == Carriers(m)
           D == {u \in Worker : Carrier(u, m)'}
<1>1. /\ C \subseteq Worker /\ D \subseteq Worker
      /\ (w \in C <=> Carrier(w, m)) /\ (w \in D <=> Carrier(w, m)')
  BY DEF Carriers
<1>2. \A u \in Worker \ {w} : u \in C <=> u \in D
  BY DEF Carriers, Carrier, Alone
<1>3. D = Carriers(m)'
  BY DEF Carriers
<1> HIDE DEF C, D
<1>4. /\ Cardinality(C) \in Nat /\ Cardinality(D) \in Nat
      /\ Cardinality(D) + One(w \in C) = Cardinality(C) + One(w \in D)
  BY <1>1, <1>2, DifferInOne
<1>5. Cardinality(D) + One(Carrier(w, m)) = Cardinality(C) + One(Carrier(w, m)')
  BY <1>1, <1>4 DEF One
<1>6. sends[m] \in Nat /\ faults \in Nat /\ sends[m] + Cardinality(C) + Loose(m) <= 1 + faults
  BY OutboxAssumption DEF Shape, Covered, C
<1> DEFINE c == One(Carrier(w, m))
           d == One(Carrier(w, m)')
           l == Loose(m)
           k == Loose(m)'
<1>7. c \in Nat /\ d \in Nat /\ l \in Nat /\ k \in Nat
  BY DEF One, Loose
<1> HIDE DEF c, d, l, k
<1>8. Cardinality(D) + c = Cardinality(C) + d /\ sends[m] + Cardinality(C) + l <= 1 + faults
      /\ s + d + k <= c + l + f
  BY <1>5, <1>6 DEF c, d, l, k
<1>9. (sends[m] + s) + Cardinality(D) + k <= 1 + (faults + f)
  BY <1>4, <1>6, <1>7, <1>8
<1> QED
  BY <1>3, <1>9 DEF Covered, k

(* What a step of w alone does to the sets of those who have m. *)
LEMMA CarriersOfOne ==
  ASSUME NEW w \in Worker, NEW m \in Mail, Alone(w)
  PROVE  /\ Cardinality(Carriers(m)) \in Nat /\ Cardinality(Carriers(m)') \in Nat
         /\ Cardinality(Carriers(m)') + One(Carrier(w, m)) = Cardinality(Carriers(m)) + One(Carrier(w, m)')
         /\ Cardinality(Behinds(m)) \in Nat /\ Cardinality(Behinds(m)') \in Nat
         /\ Cardinality(Behinds(m)') + One(Behind(w, m)) = Cardinality(Behinds(m)) + One(Behind(w, m)')
         /\ Cardinality(Behinds(m)') <= Cardinality(Carriers(m)')
<1> DEFINE C == Carriers(m)
           D == {u \in Worker : Carrier(u, m)'}
           B == Behinds(m)
           E == {u \in Worker : Behind(u, m)'}
<1>1. /\ C \subseteq Worker /\ D \subseteq Worker /\ B \subseteq Worker /\ E \subseteq Worker
      /\ (w \in C <=> Carrier(w, m)) /\ (w \in D <=> Carrier(w, m)')
      /\ (w \in B <=> Behind(w, m)) /\ (w \in E <=> Behind(w, m)')
  BY DEF Carriers, Behinds
<1>2. \A u \in Worker \ {w} : u \in C <=> u \in D
  BY DEF Carriers, Carrier, Alone
<1>3. \A u \in Worker \ {w} : u \in B <=> u \in E
  BY DEF Behinds, Behind, Carrier, Alone
<1>4. D = Carriers(m)' /\ E = Behinds(m)'
  BY DEF Carriers, Behinds
<1>5. E \subseteq D
  BY DEF Behind
<1> HIDE DEF C, D, B, E
<1>6. /\ Cardinality(C) \in Nat /\ Cardinality(D) \in Nat
      /\ Cardinality(D) + One(w \in C) = Cardinality(C) + One(w \in D)
  BY <1>1, <1>2, DifferInOne
<1>7. /\ Cardinality(B) \in Nat /\ Cardinality(E) \in Nat
      /\ Cardinality(E) + One(w \in B) = Cardinality(B) + One(w \in E)
  BY <1>1, <1>3, DifferInOne
<1>8. Cardinality(E) <= Cardinality(D)
  <2>1. IsFiniteSet(D)
    BY <1>1, OutboxAssumption, FS_Subset
  <2> QED
    BY <1>5, <2>1, FS_Subset
<1>9. /\ One(w \in C) = One(Carrier(w, m)) /\ One(w \in D) = One(Carrier(w, m)')
      /\ One(w \in B) = One(Behind(w, m)) /\ One(w \in E) = One(Behind(w, m)')
  BY <1>1 DEF One
<1>10. C = Carriers(m) /\ B = Behinds(m)
  BY DEF C, B
<1> QED
  BY <1>4, <1>6, <1>7, <1>8, <1>9, <1>10

(* A step of w alone keeps the attempts of m within their bound when it    *)
(* keeps the row's attempts and takes up no more than it lays down, or     *)
(* when it is a retry.  An attempt that reaches the last one relies on the *)
(* account of the copies.                                                  *)
LEMMA BoundOfOne ==
  ASSUME Shape, Shape', NEW w \in Worker, NEW m \in Mail, Alone(w), Bounded(m), Covered(m)',
         NEW f \in Nat, faults' = faults + f,
         \/ /\ Keeps(m)
            /\ mail'[m].status # "none" /\ mail[m].attempts >= MaxAttempts - 1 =>
                 One(Carrier(w, m)') + One(Behind(w, m)') + Open(m)'
                   <= One(Carrier(w, m)) + One(Behind(w, m)) + Open(m) + 2 * f
         \/ Retried(w, m)
  PROVE  Bounded(m)'
<1> DEFINE a == mail[m].attempts
           C == Cardinality(Carriers(m))
           D == Cardinality(Carriers(m)')
           B == Cardinality(Behinds(m))
           E == Cardinality(Behinds(m)')
           c == One(Carrier(w, m))
           d == One(Carrier(w, m)')
           b == One(Behind(w, m))
           e == One(Behind(w, m)')
           o == Open(m)
           q == Open(m)'
<1>1. /\ C \in Nat /\ D \in Nat /\ B \in Nat /\ E \in Nat
      /\ D + c = C + d /\ E + b = B + e /\ E <= D
  BY CarriersOfOne
<1>2. c \in 0..1 /\ d \in 0..1 /\ b \in 0..1 /\ e \in 0..1 /\ o \in 0..1 /\ q \in 0..1
  BY DEF One, Open
<1>3. a \in Nat /\ faults \in Nat /\ MaxAttempts \in Nat /\ worker[w].copy[m] \in Nat
  BY OutboxAssumption DEF Shape, Row, Process
<1>4. mail[m].status # "none" /\ a >= MaxAttempts - 1 => a + C + B + o <= MaxAttempts + 2 * faults
  BY DEF Bounded
<1>5. CASE /\ Keeps(m)
           /\ mail'[m].status # "none" /\ a >= MaxAttempts - 1 => d + e + q <= c + b + o + 2 * f
  <2>1. mail'[m].status = "none" => mail'[m].attempts = 0
    BY <1>5 DEF Keeps, Bounded
  <2>2. ASSUME mail'[m].status # "none", mail'[m].attempts >= MaxAttempts - 1
        PROVE  mail'[m].attempts + D + E + q <= MaxAttempts + 2 * faults'
    <3>1. mail[m].status # "none" /\ mail'[m].attempts = a
      BY <1>5, <2>2 DEF Keeps
    <3>2. a + C + B + o <= MaxAttempts + 2 * faults /\ d + e + q <= c + b + o + 2 * f
      BY <1>4, <1>5, <2>2, <3>1
    <3> HIDE DEF a, C, D, B, E, c, d, b, e, o, q
    <3>3. a + D + E + q <= MaxAttempts + 2 * (faults + f)
      BY <1>1, <1>2, <1>3, <3>2
    <3> QED
      BY <3>1, <3>3
  <2> QED
    BY <2>1, <2>2 DEF Bounded
<1>6. CASE Retried(w, m)
  <2>1. /\ mail[m].status # "none" /\ mail'[m].attempts = a + 1 /\ c = 1 /\ d = 0 /\ e = 0
        /\ mail'[m].status \in {"pending", "failed"}
    BY <1>6 DEF Retried, Counted, StatusAfter, One, Behind
  <2>2. b = 1 \/ q = 0
    <3>1. CASE worker[w].copy[m] + 1 < MaxAttempts
      BY <1>6, <3>1 DEF Retried, Counted, Behind, One
    <3>2. CASE worker[w].copy[m] + 1 >= MaxAttempts
      BY <1>6, <3>2 DEF Retried, Counted, StatusAfter, Open
    <3> QED
      BY <1>3, <3>1, <3>2
  <2>3. D <= faults + f
    <3>1. Loose(m)' = 1
      BY <2>1 DEF Loose, Claimable
    <3>2. sends'[m] \in Nat
      BY DEF Shape
    <3>3. sends'[m] + D + 1 <= 1 + (faults + f)
      BY <3>1 DEF Covered
    <3> HIDE DEF D
    <3> QED
      BY <1>1, <1>3, <3>2, <3>3
  <2>4. ASSUME a + 1 >= MaxAttempts - 1
        PROVE  (a + 1) + D + E + q <= MaxAttempts + 2 * (faults + f)
    <3> HIDE DEF a, C, D, B, E, c, d, b, e, o, q
    <3>1. CASE a + 1 = MaxAttempts - 1
      BY <1>1, <1>2, <1>3, <2>3, <3>1
    <3>2. CASE a >= MaxAttempts - 1
      <4>1. a + C + B + o <= MaxAttempts + 2 * faults
        BY <1>4, <2>1, <3>2
      <4> QED
        BY <1>1, <1>2, <1>3, <2>1, <2>2, <4>1
    <3> QED
      BY <1>3, <2>4, <3>1, <3>2
  <2> QED
    BY <2>1, <2>4 DEF Bounded
<1> QED
  BY <1>5, <1>6

(* A step of w that is nothing to m. *)
LEMMA AccountSame ==
  ASSUME Shape, Shape', NEW w \in Worker, NEW m \in Mail, Alone(w), Accounted(m),
         sends'[m] = sends[m], mail'[m] = mail[m],
         Carrier(w, m)' <=> Carrier(w, m), Attends(w, m)' <=> Attends(w, m),
         Carrier(w, m)' => worker'[w].copy = worker[w].copy,
         faults' = faults \/ faults' = faults + 1
  PROVE  Accounted(m)'
<1>0. PICK f \in {0, 1} : faults' = faults + f /\ (faults' = faults + 1 => f = 1)
  BY OutboxAssumption DEF Shape
<1>1. \A u \in Worker : Attends(u, m)' <=> Attends(u, m)
  <2>1. ASSUME NEW u \in Worker, u # w
        PROVE  Attends(u, m)' <=> Attends(u, m)
    BY <2>1 DEF Alone, Attends, Carrier
  <2> QED
    BY <2>1
<1>2. Claimable(m)' <=> Claimable(m)
  BY <1>1 DEF Claimable
<1>3. Loose(m)' = Loose(m) /\ Loose(m) \in Nat /\ Open(m)' = Open(m) /\ Open(m) \in Nat
  BY <1>2 DEF Loose, Open
<1>4. One(Carrier(w, m)') = One(Carrier(w, m)) /\ One(Carrier(w, m)) \in Nat
  BY DEF One
<1>5. One(Behind(w, m)') = One(Behind(w, m)) /\ One(Behind(w, m)) \in Nat
  BY DEF One, Behind
<1>6. sends'[m] = sends[m] + 0
  BY DEF Shape
<1>7. Covered(m)'
  <2>1. 0 + One(Carrier(w, m)') + Loose(m)' <= One(Carrier(w, m)) + Loose(m) + f
    BY <1>3, <1>4
  <2> QED
    BY <1>0, <1>6, <2>1, AccountOfOne DEF Accounted
<1>8. Bounded(m)'
  <2>1. One(Carrier(w, m)') + One(Behind(w, m)') + Open(m)' <= One(Carrier(w, m)) + One(Behind(w, m)) + Open(m) + 2 * f
    BY <1>3, <1>4, <1>5
  <2>2. Keeps(m)
    BY DEF Keeps
  <2> QED
    BY <1>0, <1>7, <2>1, <2>2, BoundOfOne DEF Accounted
<1> QED
  BY <1>7, <1>8 DEF Accounted

(* A step of w that sends nothing and takes nothing up, by a fault, by     *)
(* laying m down or by settling its row.                                   *)
LEMMA AccountLess ==
  ASSUME Shape, Shape', NEW w \in Worker, NEW m \in Mail, Alone(w), Accounted(m),
         sends'[m] = sends[m], Carrier(w, m)' => Carrier(w, m),
         Carrier(w, m)' => worker'[w].copy = worker[w].copy,
         Keeps(m) \/ Retried(w, m),
         \/ faults' = faults + 1
         \/ faults' = faults /\ Carrier(w, m) /\ ~Carrier(w, m)'
         \/ faults' = faults /\ mail'[m].status \in {"none", "sent"}
  PROVE  Accounted(m)'
<1>0. PICK f \in {0, 1} : faults' = faults + f /\ (faults' = faults + 1 => f = 1)
  BY OutboxAssumption DEF Shape
<1>1. /\ Loose(m) \in 0..1 /\ Loose(m)' \in 0..1 /\ Open(m) \in 0..1 /\ Open(m)' \in 0..1
      /\ mail'[m].status \in {"none", "sent"} => Loose(m)' = 0 /\ Open(m)' = 0
  BY DEF Loose, Open, Claimable
<1>2. /\ One(Carrier(w, m)') <= One(Carrier(w, m))
      /\ One(Carrier(w, m)) \in 0..1 /\ One(Carrier(w, m)') \in 0..1
      /\ Carrier(w, m) /\ ~Carrier(w, m)' => One(Carrier(w, m)) = 1 /\ One(Carrier(w, m)') = 0
  BY DEF One
<1>3. One(Behind(w, m)') <= One(Behind(w, m)) /\ One(Behind(w, m)) \in 0..1 /\ One(Behind(w, m)') \in 0..1
  BY DEF One, Behind
<1>4. sends'[m] = sends[m] + 0
  BY DEF Shape
<1>5. Covered(m)'
  <2>1. 0 + One(Carrier(w, m)') + Loose(m)' <= One(Carrier(w, m)) + Loose(m) + f
    BY <1>0, <1>1, <1>2
  <2> QED
    BY <1>0, <1>4, <2>1, AccountOfOne DEF Accounted
<1>6. Bounded(m)'
  <2>1. One(Carrier(w, m)') + One(Behind(w, m)') + Open(m)' <= One(Carrier(w, m)) + One(Behind(w, m)) + Open(m) + 2 * f
    BY <1>0, <1>1, <1>2, <1>3
  <2> QED
    BY <1>0, <1>5, <2>1, BoundOfOne DEF Accounted
<1> QED
  BY <1>5, <1>6 DEF Accounted

(* A step of no worker that keeps the row's standing or settles it. *)
LEMMA AccountOfNone ==
  ASSUME Shape, Shape', NEW m \in Mail, Accounted(m), UNCHANGED <<worker, sends>>,
         faults' = faults \/ faults' = faults + 1, Keeps(m),
         \/ mail'[m].status = mail[m].status
         \/ mail'[m].status = "none"
         \/ Claimable(m) /\ mail[m].status # "failed"
         \/ faults' = faults + 1
  PROVE  Accounted(m)'
<1>0. PICK f \in {0, 1} : faults' = faults + f /\ (faults' = faults + 1 => f = 1)
  BY OutboxAssumption DEF Shape
<1>1. Carriers(m)' = Carriers(m) /\ Behinds(m)' = Behinds(m)
  BY DEF Carriers, Behinds, Behind, Carrier
<1>2. \A u \in Worker : Attends(u, m)' <=> Attends(u, m)
  BY DEF Attends, Carrier
<1>3. (Loose(m)' <= Loose(m) /\ Open(m)' <= Open(m)) \/ f = 1
  BY <1>0, <1>2 DEF Loose, Open, Claimable
<1>4. Loose(m) \in 0..1 /\ Loose(m)' \in 0..1 /\ Open(m) \in 0..1 /\ Open(m)' \in 0..1
  BY DEF Loose, Open
<1>5. Cardinality(Carriers(m)) \in Nat /\ Cardinality(Behinds(m)) \in Nat
  <2>1. Carriers(m) \subseteq Worker /\ Behinds(m) \subseteq Worker
    BY DEF Carriers, Behinds
  <2> QED
    BY <2>1, OutboxAssumption, FS_Subset, FS_CardinalityType
<1>6. sends[m] \in Nat /\ faults \in Nat /\ mail[m].attempts \in Nat /\ MaxAttempts \in Nat
  BY OutboxAssumption DEF Shape, Row
<1> DEFINE l == Loose(m)
           k == Loose(m)'
           o == Open(m)
           q == Open(m)'
           c == Cardinality(Carriers(m))
           b == Cardinality(Behinds(m))
<1>7. /\ l \in 0..1 /\ k \in 0..1 /\ o \in 0..1 /\ q \in 0..1 /\ ((k <= l /\ q <= o) \/ f = 1)
      /\ c \in Nat /\ b \in Nat /\ sends[m] + c + l <= 1 + faults
  BY <1>3, <1>4, <1>5 DEF Accounted, Covered
<1>8. Covered(m)'
  <2> HIDE DEF l, k, o, q, c, b
  <2>1. sends[m] + c + k <= 1 + (faults + f)
    BY <1>6, <1>7
  <2> QED
    BY <1>0, <1>1, <2>1 DEF Covered, k, c
<1>9. Bounded(m)'
  <2>1. mail'[m].status = "none" => mail'[m].attempts = 0
    BY DEF Keeps, Accounted, Bounded
  <2>2. ASSUME mail'[m].status # "none", mail'[m].attempts >= MaxAttempts - 1
        PROVE  mail'[m].attempts + c + b + q <= MaxAttempts + 2 * (faults + f)
    <3>1. mail'[m].attempts = mail[m].attempts /\ mail[m].status # "none"
      BY <2>2 DEF Keeps
    <3>2. mail[m].attempts + c + b + o <= MaxAttempts + 2 * faults
      BY <2>2, <3>1 DEF Accounted, Bounded
    <3> HIDE DEF l, k, o, q, c, b
    <3>3. mail[m].attempts + c + b + q <= MaxAttempts + 2 * (faults + f)
      BY <1>6, <1>7, <3>2
    <3> QED
      BY <3>1, <3>3
  <2> QED
    BY <1>0, <1>1, <2>1, <2>2 DEF Bounded
<1> QED
  BY <1>8, <1>9 DEF Accounted

(* Every action keeps the account of every mail. *)
LEMMA PaidStep ==
  ASSUME Shape, Shape', Fit, Exact, FailedIsSpent, Paid, Next
  PROVE  Paid'
<1> SUFFICES ASSUME NEW m \in Mail
             PROVE  Accounted(m)'
  BY DEF Paid
<1>1. Accounted(m) /\ sends[m] \in Nat /\ faults \in Nat /\ mail[m] \in Row
  BY OutboxAssumption DEF Paid, Shape
<1>2. ASSUME NEW w \in Worker
      PROVE  /\ worker[w] \in Process /\ worker[w].todo \subseteq worker[w].held
             /\ (worker[w].phase = "mark" => worker[w].cur \in worker[w].todo)
  BY DEF Shape, Fit, ClaimFits
<1>3. ASSUME NEW w \in Worker, Stop(w)
      PROVE  Alone(w) /\ ~Carrier(w, m)' /\ ~Attends(w, m)' /\ worker'[w].phase = "idle"
  <2>1. Alone(w) /\ worker'[w].phase = "idle"
    BY <1>3 DEF Stop, Idle, Shape, Alone
  <2> QED
    BY <2>1 DEF Carrier, Attends
<1>4. ASSUME NEW w \in Worker, NEW p, Go(w, p)
      PROVE  /\ Alone(w) /\ worker'[w].phase = p /\ worker'[w].held = worker[w].held
             /\ worker'[w].todo = worker[w].todo /\ worker'[w].copy = worker[w].copy
  BY <1>2, <1>4 DEF Go, Shape, Process, Alone
(* the clock, the deletions and the retention *)
<1>5. CASE \/ FanDue \/ FanStale \/ RequestCourseDeletion \/ PurgeCourse
           \/ (\E x \in Mail : CleanupSent(x) \/ MailDue(x) \/ RequestUserDeletion(x))
           \/ \E w \in Worker : CooldownEnds(w)
  <2>1. UNCHANGED <<worker, sends>> /\ (faults' = faults \/ faults' = faults + 1)
    BY <1>5 DEF FanDue, FanStale, RequestCourseDeletion, PurgeCourse, CleanupSent, MailDue,
       RequestUserDeletion, CooldownEnds, Fault, NoFault
  <2>2. mail'[m].status = mail[m].status \/ mail'[m].status = "none"
    BY <1>5 DEF FanDue, FanStale, RequestCourseDeletion, PurgeCourse, CleanupSent, MailDue,
       RequestUserDeletion, CooldownEnds, NoRow, Shape, Row
  <2>3. Keeps(m)
    BY <1>5 DEF FanDue, FanStale, RequestCourseDeletion, PurgeCourse, CleanupSent, MailDue,
       RequestUserDeletion, CooldownEnds, NoRow, Shape, Row, Keeps
  <2> QED
    BY <1>1, <2>1, <2>2, <2>3, AccountOfNone
<1>6. ASSUME NEW x \in Mail, MailStale(x)
      PROVE  Accounted(m)'
  <2>1. UNCHANGED <<worker, sends>> /\ (faults' = faults \/ faults' = faults + 1)
    BY <1>6 DEF MailStale, Fault, NoFault
  <2>2. m # x => mail'[m] = mail[m]
    BY <1>6 DEF MailStale, Shape
  <2>2a. Keeps(m)
    BY <1>6 DEF MailStale, Shape, Row, Keeps
  <2>3. CASE \E w \in Worker : x \in worker[w].held
    <3>1. faults' = faults + 1
      BY <1>6, <2>3 DEF MailStale, Fault
    <3> QED
      BY <1>1, <2>1, <2>2a, <3>1, AccountOfNone
  <2>4. CASE ~(\E w \in Worker : x \in worker[w].held)
    <3>1. \A w \in Worker : ~Attends(w, x)
      BY <1>2, <2>4 DEF Attends, Carrier
    <3>2. Claimable(x) /\ mail[x].status # "failed"
      BY <1>6, <3>1 DEF MailStale, Claimable
    <3> QED
      BY <1>1, <2>1, <2>2, <2>2a, <3>2, AccountOfNone
  <2> QED
    BY <2>3, <2>4
(* the fan-out *)
<1>7. ASSUME NEW w \in Worker,
             ClaimFanout(w) \/ BeginFanout(w) \/ MarkFanoutJobFailed(w) \/ FanoutThrows(w)
      PROVE  Accounted(m)'
  <2>1. UNCHANGED <<mail, sends>> /\ (faults' = faults \/ faults' = faults + 1)
    BY <1>7 DEF ClaimFanout, BeginFanout, MarkFanoutJobFailed, FanoutThrows, Fault, NoFault
  <2>2. ~Carrier(w, m) /\ ~Attends(w, m)
    BY <1>7 DEF ClaimFanout, BeginFanout, MarkFanoutJobFailed, FanoutThrows, Carrier, Attends
  <2>3. Alone(w) /\ worker'[w].phase \in {"idle", "fanout", "page", "fanfail"}
    <3>1. CASE ClaimFanout(w)
      BY <1>4, <3>1 DEF ClaimFanout
    <3>2. CASE Stop(w)
      BY <1>3, <3>2
    <3>3. CASE worker' = [worker EXCEPT ![w].phase = "page", ![w].page = NextPage]
      BY <1>2, <3>3 DEF Shape, Process, Alone
    <3>4. CASE worker' = [worker EXCEPT ![w] = [Idle EXCEPT !.phase = "fanfail"]]
      BY <3>4 DEF Shape, Idle, Alone
    <3> QED
      BY <1>7, <3>1, <3>2, <3>3, <3>4 DEF BeginFanout, MarkFanoutJobFailed, FanoutThrows
  <2>4. ~Carrier(w, m)' /\ ~Attends(w, m)'
    BY <2>3 DEF Carrier, Attends
  <2> QED
    BY <1>1, <2>1, <2>2, <2>3, <2>4, AccountSame
<1>8. ASSUME NEW w \in Worker, CommitFanout(w)
      PROVE  Accounted(m)'
  <2>1. Stop(w) /\ UNCHANGED <<sends, faults>> /\ worker[w].phase = "page"
    BY <1>8 DEF CommitFanout
  <2>2. ~Carrier(w, m) /\ ~Attends(w, m)
    BY <2>1 DEF Carrier, Attends
  <2>3. CASE m \in Written(worker[w].page)
    <3>1. inserted[m] = 0 /\ sends[m] = 0
      BY <1>8, <2>1, <2>3 DEF Fit, PageFits, Exact, Written
    <3>2. \A u \in Worker : m \notin worker[u].held
      BY <3>1 DEF Fit, ClaimFits
    <3>3. \A u \in Worker : ~Carrier(u, m)
      BY <1>2, <3>2 DEF Carrier
    <3>4. \A u \in Worker : ~Carrier(u, m)'
      BY <1>3, <2>1, <3>3 DEF Carrier, Alone
    <3>5. Carriers(m)' = {}
      BY <3>4 DEF Carriers
    <3>6. Cardinality(Carriers(m)') = 0
      BY <3>5, FS_EmptySet
    <3>7. Loose(m)' \in {0, 1} /\ Open(m)' \in {0, 1}
      BY DEF Loose, Open
    <3>8. Covered(m)'
      BY <1>1, <2>1, <3>1, <3>6, <3>7 DEF Covered
    <3>9. Cardinality(Behinds(m)') = 0
      <4>1. Behinds(m)' = {}
        BY <3>4 DEF Behinds, Behind
      <4> QED
        BY <4>1, FS_EmptySet
    <3>10. mail'[m].status = "pending" /\ mail'[m].attempts = 0
      BY <1>8, <2>3 DEF CommitFanout, NoRow
    <3>11. Bounded(m)'
      BY <1>1, <2>1, <3>6, <3>7, <3>9, <3>10, OutboxAssumption DEF Bounded
    <3> QED
      BY <3>8, <3>11 DEF Accounted
  <2>4. CASE m \notin Written(worker[w].page)
    <3>1. mail'[m] = mail[m]
      BY <1>8, <2>4 DEF CommitFanout
    <3> QED
      BY <1>1, <1>3, <2>1, <2>2, <3>1, AccountSame
  <2> QED
    BY <2>3, <2>4
(* steps that end in a fault or leave everything as it is *)
<1>9. ASSUME NEW w \in Worker, Stop(w), UNCHANGED <<mail, sends>>, faults' = faults + 1
      PROVE  Accounted(m)'
  <2>1. Keeps(m)
    BY <1>9 DEF Keeps
  <2> QED
    BY <1>1, <1>3, <1>9, <2>1, AccountLess
<1>10. ASSUME NEW w \in Worker, Deadline(w) \/ Crash(w)
       PROVE  Accounted(m)'
  BY <1>9, <1>10 DEF Deadline, Crash, Fault
<1>11. ASSUME NEW w \in Worker, EndSlice(w)
       PROVE  Accounted(m)'
  <2>1. Stop(w) /\ UNCHANGED <<mail, sends, faults>> /\ ~Carrier(w, m) /\ ~Attends(w, m)
    BY <1>11 DEF EndSlice, Carrier, Attends
  <2> QED
    BY <1>1, <1>3, <2>1, AccountSame
(* the claim *)
<1>12. ASSUME NEW w \in Worker, Claim(w)
       PROVE  Accounted(m)'
  <2>1. PICK held \in SUBSET Mail :
          /\ \A x \in held : Runnable(x) \/ StaleSending(x)
          /\ mail' = [x \in Mail |-> IF x \in held THEN [mail[x] EXCEPT !.status = "sending"] ELSE mail[x]]
          /\ worker' = [worker EXCEPT ![w] = [Idle EXCEPT !.phase = "group", !.held = held,
                !.copy = [x \in Mail |-> IF x \in held THEN mail[x].attempts ELSE 0]]]
    BY <1>12 DEF Claim
  <2>2. /\ Alone(w) /\ worker'[w].phase = "group" /\ worker'[w].held = held
        /\ \A x \in held : worker'[w].copy[x] = mail[x].attempts
    BY <2>1 DEF Idle, Shape, Alone
  <2>3. UNCHANGED <<sends, faults>> /\ ~Carrier(w, m) /\ ~Attends(w, m)
    BY <1>12 DEF Claim, Carrier, Attends
  <2>4. (Carrier(w, m)' <=> m \in held) /\ (Attends(w, m)' <=> m \in held)
    BY <2>2 DEF Carrier, Attends
  <2>5. CASE m \notin held
    <3>1. mail'[m] = mail[m]
      BY <2>1, <2>5
    <3> QED
      BY <1>1, <2>2, <2>3, <2>4, <2>5, <3>1, AccountSame
  <2>6. CASE m \in held
    <3>1. mail'[m].status = "sending"
      BY <2>1, <2>6 DEF Shape, Row
    <3>2. Claimable(m)
      BY <2>1, <2>6 DEF Runnable, StaleSending, Claimable
    <3>3. ~Claimable(m)'
      BY <2>4, <2>6, <3>1 DEF Claimable
    <3>4. Loose(m) = 1 /\ Loose(m)' = 0
      BY <3>2, <3>3 DEF Loose
    <3>5. One(Carrier(w, m)) = 0 /\ One(Carrier(w, m)') = 1
      BY <2>3, <2>4, <2>6 DEF One
    <3>6. sends'[m] = sends[m] + 0 /\ faults' = faults + 0
      BY <1>1, <2>3
    <3>7. 0 + One(Carrier(w, m)') + Loose(m)' <= One(Carrier(w, m)) + Loose(m) + 0
      BY <3>4, <3>5
    <3>8. Covered(m)'
      BY <1>1, <2>2, <3>6, <3>7, AccountOfOne DEF Accounted
    <3>9. Keeps(m)
      <4>1. mail'[m].attempts = mail[m].attempts
        BY <1>1, <2>1, <2>6 DEF Row
      <4>2. mail[m].status # "none"
        BY <2>1, <2>6 DEF Runnable, StaleSending
      <4> QED
        BY <3>1, <4>1, <4>2 DEF Keeps
    <3>10. mail[m].attempts \in Nat /\ MaxAttempts \in Nat
      BY <1>1, OutboxAssumption DEF Row
    <3>11. Open(m) = 1 /\ Open(m)' = 0
      <4>1. mail[m].status # "failed"
        BY <2>1, <2>6, <3>10 DEF Runnable, StaleSending, FailedIsSpent
      <4> QED
        BY <3>2, <3>3, <4>1 DEF Open
    <3>12. One(Behind(w, m)) \in 0..1 /\ (mail[m].attempts >= MaxAttempts - 1 => One(Behind(w, m)') = 0)
      <4>1. worker'[w].copy[m] = mail[m].attempts
        BY <2>2, <2>6
      <4> QED
        BY <3>10, <4>1 DEF Behind, One
    <3>13. mail[m].attempts >= MaxAttempts - 1 =>
             One(Carrier(w, m)') + One(Behind(w, m)') + Open(m)'
               <= One(Carrier(w, m)) + One(Behind(w, m)) + Open(m) + 2 * 0
      BY <3>5, <3>11, <3>12
    <3>14. Bounded(m)'
      BY <1>1, <2>2, <3>6, <3>8, <3>9, <3>13, BoundOfOne DEF Accounted
    <3> QED
      BY <3>8, <3>14 DEF Accounted
  <2> QED
    BY <2>5, <2>6
(* the group *)
<1>13. ASSUME NEW w \in Worker, StartGroup(w)
       PROVE  Accounted(m)'
  <2>1. UNCHANGED <<mail, sends, faults>> /\ worker[w].phase = "group"
    BY <1>13 DEF StartGroup
  <2>2. /\ Alone(w) /\ worker'[w].copy = worker[w].copy
        /\ \/ worker'[w].phase = "filter" /\ worker'[w].held = worker[w].held
           \/ worker'[w].phase \in {"release", "config"} /\ worker'[w].todo = worker[w].held
    <3>1. CASE Go(w, "filter")
      BY <1>4, <3>1
    <3>2. ASSUME NEW p \in {"release", "config"},
                 worker' = [worker EXCEPT ![w].phase = p, ![w].todo = worker[w].held]
          PROVE  /\ Alone(w) /\ worker'[w].todo = worker[w].held /\ worker'[w].phase = p
                 /\ worker'[w].copy = worker[w].copy
      BY <1>2, <3>2 DEF Shape, Process, Alone
    <3> QED
      BY <1>13, <3>1, <3>2 DEF StartGroup
  <2>3. (Carrier(w, m)' <=> Carrier(w, m)) /\ (Attends(w, m)' <=> Attends(w, m))
    BY <2>1, <2>2 DEF Carrier, Attends
  <2> QED
    BY <1>1, <2>1, <2>2, <2>3, AccountSame
<1>14. ASSUME NEW w \in Worker, Filter(w)
       PROVE  Accounted(m)'
  <2> DEFINE good == {x \in worker[w].held : mail[x].status \in {"sending", "stale"} /\ Mailable(x)}
             p == IF good = worker[w].held THEN "connect" ELSE "cancel"
  <2>1. UNCHANGED <<mail, sends>> /\ worker[w].phase = "filter"
    BY <1>14 DEF Filter
  <2>2. CASE Stop(w) /\ Fault
    BY <1>9, <2>1, <2>2 DEF Fault
  <2>3. CASE worker' = [worker EXCEPT ![w].todo = good, ![w].phase = p] /\ NoFault
    <3>1. (p = "connect" /\ good = worker[w].held) \/ p = "cancel"
      OBVIOUS
    <3> HIDE DEF good, p
    <3>2. /\ Alone(w) /\ worker'[w].todo = good /\ worker'[w].phase = p /\ worker'[w].held = worker[w].held
          /\ worker'[w].copy = worker[w].copy
      BY <1>2, <2>3 DEF Shape, Process, Alone
    <3>3. (Carrier(w, m)' <=> Carrier(w, m)) /\ (Attends(w, m)' <=> Attends(w, m))
      BY <2>1, <3>1, <3>2 DEF Carrier, Attends
    <3> QED
      BY <1>1, <2>1, <2>3, <3>2, <3>3, AccountSame DEF NoFault
  <2> QED
    BY <1>14, <2>2, <2>3 DEF Filter
<1>15. ASSUME NEW w \in Worker, Cancel(w)
       PROVE  Accounted(m)'
  <2>1. sends' = sends /\ worker[w].phase = "cancel"
    BY <1>15 DEF Cancel
  <2>2. CASE UNCHANGED mail /\ Stop(w) /\ Fault
    BY <1>9, <2>1, <2>2 DEF Fault
  <2>3. CASE /\ NoFault /\ (IF worker[w].todo = {} THEN Stop(w) ELSE Go(w, "connect"))
             /\ mail' = [x \in Mail |->
                  IF x \in worker[w].held \ worker[w].todo /\ mail[x].status \in {"sending", "stale"}
                  THEN NoRow ELSE mail[x]]
    <3>1. /\ Alone(w) /\ (Carrier(w, m)' <=> m \in worker[w].todo) /\ (Attends(w, m)' <=> m \in worker[w].todo)
          /\ Carrier(w, m)' => worker'[w].copy = worker[w].copy
      <4>1. CASE worker[w].todo = {}
        BY <1>3, <2>3, <4>1
      <4>2. CASE worker[w].todo # {}
        <5>1. /\ Alone(w) /\ worker'[w].phase = "connect" /\ worker'[w].todo = worker[w].todo
              /\ worker'[w].copy = worker[w].copy
          BY <1>4, <2>3, <4>2
        <5> QED
          BY <5>1 DEF Carrier, Attends
      <4> QED
        BY <4>1, <4>2
    <3>2. (Carrier(w, m) <=> m \in worker[w].held) /\ (Attends(w, m) <=> m \in worker[w].held)
      BY <2>1 DEF Carrier, Attends
    <3>3. CASE m \in worker[w].held \ worker[w].todo
      <4>1. Keeps(m)
        BY <2>3 DEF Keeps, NoRow
      <4> QED
        BY <1>1, <2>1, <2>3, <3>1, <3>2, <3>3, <4>1, AccountLess DEF NoFault
    <3>4. CASE m \notin worker[w].held \ worker[w].todo
      <4>1. mail'[m] = mail[m]
        BY <2>3, <3>4
      <4>2. m \in worker[w].todo <=> m \in worker[w].held
        BY <1>2, <3>4
      <4> QED
        BY <1>1, <2>1, <2>3, <3>1, <3>2, <4>1, <4>2, AccountSame DEF NoFault
    <3> QED
      BY <3>3, <3>4
  <2> QED
    BY <1>15, <2>2, <2>3 DEF Cancel
<1>16. ASSUME NEW w \in Worker, Connect(w)
       PROVE  Accounted(m)'
  <2>1. /\ Alone(w) /\ worker'[w].todo = worker[w].todo /\ worker'[w].copy = worker[w].copy
        /\ worker'[w].phase \in {"send", "unseen"} /\ worker[w].phase = "connect"
    BY <1>2, <1>16 DEF Connect, Go, Shape, Process, Alone
  <2>2. UNCHANGED <<mail, sends, faults>>
    BY <1>16 DEF Connect
  <2>3. (Carrier(w, m)' <=> Carrier(w, m)) /\ (Attends(w, m)' <=> Attends(w, m))
    BY <2>1 DEF Carrier, Attends
  <2> QED
    BY <1>1, <2>1, <2>2, <2>3, AccountSame
(* the results *)
<1>17. ASSUME NEW w \in Worker, NEW x \in worker[w].todo, Alone(w), sends' = sends, NoFault,
              worker[w].phase \in {"release", "config", "unseen"},
              \A y \in Mail : y # x => mail'[y] = mail[y],
              Keeps(x) \/ Counted(w, x),
              \/ worker[w].todo = {x} /\ worker'[w].phase \in {"idle", "end"}
              \/ /\ worker'[w].phase = worker[w].phase /\ worker'[w].todo = worker[w].todo \ {x}
                 /\ worker'[w].copy = worker[w].copy
       PROVE  Accounted(m)'
  <2>1. (Carrier(w, m) <=> m \in worker[w].todo) /\ (Attends(w, m) <=> m \in worker[w].todo)
    BY <1>17 DEF Carrier, Attends
  <2>2. (Carrier(w, m)' <=> m \in worker[w].todo \ {x}) /\ (Attends(w, m)' <=> m \in worker[w].todo \ {x})
    BY <1>17 DEF Carrier, Attends
  <2>2a. Carrier(w, m)' => worker'[w].copy = worker[w].copy
    BY <1>17, <2>2
  <2>3. CASE m = x
    <3>1. Keeps(m) \/ Retried(w, m)
      BY <1>17, <2>1, <2>2, <2>3 DEF Counted, Retried
    <3> QED
      BY <1>1, <1>17, <2>1, <2>2, <2>3, <2>2a, <3>1, AccountLess DEF NoFault
  <2>4. CASE m # x
    BY <1>1, <1>17, <2>1, <2>2, <2>4, <2>2a, AccountSame DEF NoFault
  <2> QED
    BY <2>3, <2>4
<1>18. ASSUME NEW x \in Mail, NEW row, mail' = mail \/ Update(x, row)
       PROVE  \A y \in Mail : y # x => mail'[y] = mail[y]
  BY <1>18 DEF Update, Shape
<1>18a. ASSUME NEW w \in Worker, NEW x \in Mail, MarkRetry(w, x)
       PROVE  Keeps(x) \/ Counted(w, x)
  BY <1>18a DEF MarkRetry, Update, Keeps, Counted, Shape
<1>18b. ASSUME NEW x \in Mail, NEW row, row.attempts = mail[x].attempts, row.status # "none", Update(x, row)
       PROVE  Keeps(x)
  BY <1>18b DEF Update, Keeps, Shape
<1>19. ASSUME NEW w \in Worker, Release(w)
       PROVE  Accounted(m)'
  <2>1. PICK x \in worker[w].todo :
          /\ \/ Update(x, [mail[x] EXCEPT !.status = "pending", !.due = FALSE]) /\ NoFault
             \/ UNCHANGED mail /\ Fault
          /\ IF worker[w].todo = {x} THEN Stop(w) ELSE worker' = [worker EXCEPT ![w].todo = @ \ {x}]
    BY <1>19 DEF Release
  <2>2. worker[w].phase = "release" /\ sends' = sends /\ x \in Mail
    BY <1>2, <1>19, <2>1 DEF Release, Process
  <2>3. /\ Alone(w)
        /\ \/ worker[w].todo = {x} /\ worker'[w].phase = "idle"
           \/ /\ worker'[w].phase = worker[w].phase /\ worker'[w].todo = worker[w].todo \ {x}
              /\ worker'[w].copy = worker[w].copy
    <3>1. CASE worker' = [worker EXCEPT ![w].todo = @ \ {x}]
      BY <1>2, <3>1 DEF Shape, Process, Alone
    <3> QED
      BY <1>3, <2>1, <3>1
  <2>4. CASE NoFault /\ Update(x, [mail[x] EXCEPT !.status = "pending", !.due = FALSE])
    <3> DEFINE row == [mail[x] EXCEPT !.status = "pending", !.due = FALSE]
    <3>1. row.attempts = mail[x].attempts /\ row.status # "none"
      BY <2>2 DEF Shape, Row
    <3>2. Update(x, row)
      BY <2>4
    <3> HIDE DEF row
    <3>3. Keeps(x)
      BY <1>18b, <2>2, <3>1, <3>2
    <3>4. \A y \in Mail : y # x => mail'[y] = mail[y]
      BY <1>18, <2>2, <3>2
    <3> QED
      BY <1>17, <2>2, <2>3, <2>4, <3>3, <3>4
  <2>5. CASE UNCHANGED mail /\ Fault
    <3>1. (Carrier(w, m)' => Carrier(w, m)) /\ (Carrier(w, m)' => worker'[w].copy = worker[w].copy)
      BY <2>2, <2>3 DEF Carrier
    <3>2. Keeps(m)
      BY <2>5 DEF Keeps
    <3> QED
      BY <1>1, <2>2, <2>3, <2>5, <3>1, <3>2, AccountLess DEF Fault
  <2> QED
    BY <2>1, <2>4, <2>5
<1>20. ASSUME NEW w \in Worker, RetryRest(w)
       PROVE  Accounted(m)'
  <2>1. PICK x \in worker[w].todo :
          \/ /\ MarkRetry(w, x) /\ NoFault
             /\ IF worker[w].todo # {x} THEN worker' = [worker EXCEPT ![w].todo = @ \ {x}]
                ELSE IF worker[w].phase = "config" THEN Stop(w)
                ELSE worker' = [worker EXCEPT ![w].todo = {}, ![w].phase = "end"]
          \/ UNCHANGED mail /\ Stop(w) /\ Fault
    BY <1>20 DEF RetryRest
  <2>2. worker[w].phase \in {"config", "unseen"} /\ sends' = sends /\ x \in Mail
    BY <1>2, <1>20, <2>1 DEF RetryRest, Process
  <2>3. CASE UNCHANGED mail /\ Stop(w) /\ Fault
    BY <1>9, <2>2, <2>3 DEF Fault
  <2>4. CASE /\ MarkRetry(w, x) /\ NoFault
             /\ IF worker[w].todo # {x} THEN worker' = [worker EXCEPT ![w].todo = @ \ {x}]
                ELSE IF worker[w].phase = "config" THEN Stop(w)
                ELSE worker' = [worker EXCEPT ![w].todo = {}, ![w].phase = "end"]
    <3>1. /\ Alone(w)
          /\ \/ worker[w].todo = {x} /\ worker'[w].phase \in {"idle", "end"}
             \/ /\ worker'[w].phase = worker[w].phase /\ worker'[w].todo = worker[w].todo \ {x}
                /\ worker'[w].copy = worker[w].copy
      <4>1. CASE worker' = [worker EXCEPT ![w].todo = @ \ {x}]
        BY <1>2, <4>1 DEF Shape, Process, Alone
      <4>2. CASE worker[w].todo = {x} /\ Stop(w)
        BY <1>3, <4>2
      <4>3. CASE worker[w].todo = {x} /\ worker' = [worker EXCEPT ![w].todo = {}, ![w].phase = "end"]
        BY <1>2, <4>3 DEF Shape, Process, Alone
      <4> QED
        BY <2>4, <4>1, <4>2, <4>3
    <3>2. \A y \in Mail : y # x => mail'[y] = mail[y]
      BY <1>18, <2>2, <2>4 DEF MarkRetry
    <3>3. Keeps(x) \/ Counted(w, x)
      BY <1>18a, <2>2, <2>4
    <3> QED
      BY <1>17, <2>2, <2>4, <3>1, <3>2, <3>3
  <2> QED
    BY <2>1, <2>3, <2>4
<1>21. ASSUME NEW w \in Worker, Send(w)
       PROVE  Accounted(m)'
  <2>1. PICK x \in worker[w].todo, ok \in BOOLEAN :
          /\ worker' = [worker EXCEPT ![w].phase = "mark", ![w].cur = x, ![w].ok = ok, ![w].infra = @ \/ ~ok]
          /\ \/ sends' = [sends EXCEPT ![x] = @ + (IF ok THEN 1 ELSE 0)] /\ NoFault
             \/ ~ok /\ sends' = [sends EXCEPT ![x] = @ + 1] /\ Fault
    BY <1>21 DEF Send
  <2>2. worker[w].phase = "send" /\ mail' = mail /\ x \in Mail
    BY <1>2, <1>21, <2>1 DEF Send, Process
  <2>3. /\ Alone(w) /\ worker'[w].phase = "mark" /\ worker'[w].todo = worker[w].todo
        /\ worker'[w].cur = x /\ worker'[w].ok = ok /\ worker'[w].copy = worker[w].copy
    <3> DEFINE i == worker[w].infra \/ ~ok
    <3>1. worker' = [worker EXCEPT ![w].phase = "mark", ![w].cur = x, ![w].ok = ok, ![w].infra = i]
      BY <2>1
    <3> HIDE DEF i
    <3> QED
      BY <1>2, <3>1 DEF Shape, Process, Alone
  <2>4. Carrier(w, m) <=> m \in worker[w].todo
    BY <2>2 DEF Carrier
  <2>5. Carrier(w, m)' <=> m \in worker[w].todo /\ ~(ok /\ m = x)
    BY <2>3 DEF Carrier
  <2>6. Attends(w, m) <=> m \in worker[w].todo
    BY <2>2 DEF Attends, Carrier
  <2>7. Attends(w, m)' <=> m \in worker[w].todo
    BY <2>1, <2>3 DEF Attends, Carrier
  <2>8. CASE m # x
    <3>1. sends'[m] = sends[m] /\ (faults' = faults \/ faults' = faults + 1)
      BY <2>1, <2>8 DEF Shape, Fault, NoFault
    <3> QED
      BY <1>1, <2>2, <2>3, <2>4, <2>5, <2>6, <2>7, <2>8, <3>1, AccountSame
  <2>9. CASE m = x
    <3>1. /\ Loose(m)' = Loose(m) /\ Loose(m) \in Nat
          /\ Open(m)' = Open(m) /\ Open(m) \in Nat
      <4>1. \A u \in Worker : Attends(u, m)' <=> Attends(u, m)
        BY <2>3, <2>6, <2>7 DEF Alone, Attends, Carrier
      <4>2. Claimable(m)' <=> Claimable(m)
        BY <2>2, <4>1 DEF Claimable
      <4> QED
        BY <2>2, <4>2 DEF Loose, Open
    <3>2. One(Carrier(w, m)) = 1 /\ One(Carrier(w, m)') = IF ok THEN 0 ELSE 1
      BY <2>1, <2>4, <2>5, <2>9 DEF One
    <3>3. One(Behind(w, m)') <= One(Behind(w, m)) /\ One(Behind(w, m)) \in Nat /\ One(Behind(w, m)') \in Nat
      BY <2>3, <2>4, <2>5 DEF Behind, One
    <3>4. PICK s \in {0, 1}, f \in {0, 1} :
            sends'[m] = sends[m] + s /\ faults' = faults + f /\ s = IF ok THEN 1 ELSE f
      <4>1. CASE ok
        BY <1>1, <2>1, <2>9, <4>1 DEF Shape, NoFault
      <4>2. CASE ~ok /\ NoFault /\ sends' = [sends EXCEPT ![x] = @ + (IF ok THEN 1 ELSE 0)]
        BY <1>1, <2>9, <4>2 DEF Shape, NoFault
      <4>3. CASE ~ok /\ Fault /\ sends' = [sends EXCEPT ![x] = @ + 1]
        BY <1>1, <2>9, <4>3 DEF Shape, Fault
      <4> QED
        BY <2>1, <4>1, <4>2, <4>3
    <3>5. Covered(m)'
      <4>1. s + One(Carrier(w, m)') + Loose(m)' <= One(Carrier(w, m)) + Loose(m) + f
        BY <3>1, <3>2, <3>4
      <4> QED
        BY <1>1, <2>3, <3>4, <4>1, AccountOfOne DEF Accounted
    <3>6. Bounded(m)'
      <4>1. One(Carrier(w, m)') + One(Behind(w, m)') + Open(m)'
              <= One(Carrier(w, m)) + One(Behind(w, m)) + Open(m) + 2 * f
        BY <3>1, <3>2, <3>3, <3>4
      <4>2. Keeps(m)
        BY <2>2 DEF Keeps
      <4> QED
        BY <1>1, <2>3, <3>4, <3>5, <4>1, <4>2, BoundOfOne DEF Accounted
    <3> QED
      BY <3>5, <3>6 DEF Accounted
  <2> QED
    BY <2>8, <2>9
<1>22. ASSUME NEW w \in Worker, NEW x, After(w, x)
       PROVE  /\ Alone(w) /\ worker'[w].todo = worker[w].todo \ {x} /\ worker'[w].copy = worker[w].copy
              /\ (worker'[w].phase = "send" \/ (worker'[w].phase = "end" /\ worker[w].todo = {x}))
  <2> DEFINE g == worker[w].good \/ worker[w].ok
             p == IF worker[w].todo = {x} THEN "end" ELSE "send"
             T == worker[w].todo \ {x}
             slot == [worker[w] EXCEPT !.todo = T, !.cur = 0, !.ok = FALSE, !.good = g, !.phase = p]
  <2>1. worker' = [worker EXCEPT ![w] = slot]
    BY <1>22, Zenon DEF After, Shape
  <2>2. p = "send" \/ (p = "end" /\ worker[w].todo = {x})
    OBVIOUS
  <2> HIDE DEF g, p, T
  <2>3. slot.todo = T /\ slot.phase = p /\ slot.copy = worker[w].copy
    BY <1>2 DEF Process
  <2> HIDE DEF slot
  <2>4. worker'[w] = slot /\ Alone(w)
    BY <2>1 DEF Shape, Alone
  <2>5. T = worker[w].todo \ {x}
    BY DEF T
  <2> QED
    BY <2>2, <2>3, <2>4, <2>5
<1>23. ASSUME NEW w \in Worker, worker[w].phase = "mark", NEW x \in Mail, x = worker[w].cur, After(w, x), NoFault,
              sends' = sends, \A y \in Mail : y # x => mail'[y] = mail[y],
              \/ Keeps(x) /\ mail'[x].status \in {"none", "sent"}
              \/ Carrier(w, x) /\ (Keeps(x) \/ Counted(w, x))
       PROVE  Accounted(m)'
  <2>1. (Carrier(w, m)' <=> m \in worker[w].todo \ {x}) /\ (Attends(w, m)' <=> m \in worker[w].todo \ {x})
    BY <1>22, <1>23 DEF Carrier, Attends
  <2>2. CASE m # x
    <3>1. (Carrier(w, m) <=> m \in worker[w].todo) /\ (Attends(w, m) <=> m \in worker[w].todo)
      BY <1>23, <2>2 DEF Carrier, Attends
    <3> QED
      BY <1>1, <1>22, <1>23, <2>1, <2>2, <3>1, AccountSame DEF NoFault
  <2>3. CASE m = x
    <3>1. Keeps(m) \/ Retried(w, m)
      BY <1>23, <2>1, <2>3 DEF Counted, Retried
    <3> QED
      BY <1>1, <1>22, <1>23, <2>1, <2>3, <3>1, AccountLess DEF NoFault
  <2> QED
    BY <2>2, <2>3
<1>24. ASSUME NEW w \in Worker, MarkSent(w)
       PROVE  Accounted(m)'
  <2> DEFINE x == worker[w].cur
  <2>1. worker[w].phase = "mark" /\ worker[w].ok /\ sends' = sends /\ x \in worker[w].todo /\ x \in Mail
    BY <1>2, <1>24 DEF MarkSent, Process
  <2> DEFINE row == [mail[x] EXCEPT !.status = "sent"]
  <2>2. CASE Update(x, row) /\ After(w, x) /\ NoFault
    <3>1. row.status = "sent" /\ row.attempts = mail[x].attempts
      BY <2>1 DEF Shape, Row
    <3> HIDE DEF row
    <3>2. mail'[x].status \in {"none", "sent"}
      BY <2>1, <2>2, <3>1 DEF Update, Shape
    <3> HIDE DEF x
    <3>3. \A y \in Mail : y # x => mail'[y] = mail[y]
      BY <1>18, <2>1, <2>2
    <3>4. x = worker[w].cur
      BY DEF x
    <3>5. Keeps(x)
      BY <1>18b, <2>1, <2>2, <3>1
    <3> QED
      BY <1>23, <2>1, <2>2, <3>2, <3>3, <3>4, <3>5
  <2>3. CASE UNCHANGED mail /\ Fault /\ worker' = [worker EXCEPT ![w].ok = FALSE, ![w].infra = TRUE]
    <3>1. /\ Alone(w) /\ worker'[w].phase = "mark" /\ worker'[w].todo = worker[w].todo
          /\ worker'[w].cur = x /\ ~worker'[w].ok /\ worker'[w].copy = worker[w].copy
      BY <1>2, <2>1, <2>3 DEF Shape, Process, Alone
    <3>2. Attends(w, m)' <=> Attends(w, m)
      BY <2>1, <3>1 DEF Attends, Carrier
    <3>3. /\ Loose(m)' = Loose(m) /\ Loose(m) \in Nat
          /\ Open(m)' = Open(m) /\ Open(m) \in Nat
      <4>1. \A u \in Worker : Attends(u, m)' <=> Attends(u, m)
        BY <3>1, <3>2 DEF Alone, Attends, Carrier
      <4>2. Claimable(m)' <=> Claimable(m)
        BY <2>3, <4>1 DEF Claimable
      <4> QED
        BY <2>3, <4>2 DEF Loose, Open
    <3>4. /\ One(Carrier(w, m)) \in 0..1 /\ One(Carrier(w, m)') \in 0..1
          /\ One(Behind(w, m)) \in 0..1 /\ One(Behind(w, m)') \in 0..1
      BY DEF One
    <3>5. sends'[m] = sends[m] + 0 /\ faults' = faults + 1
      BY <1>1, <2>1, <2>3 DEF Fault
    <3>6. 0 + One(Carrier(w, m)') + Loose(m)' <= One(Carrier(w, m)) + Loose(m) + 1
      BY <3>3, <3>4
    <3>7. Covered(m)'
      BY <1>1, <3>1, <3>5, <3>6, AccountOfOne DEF Accounted
    <3>8. One(Carrier(w, m)') + One(Behind(w, m)') + Open(m)'
            <= One(Carrier(w, m)) + One(Behind(w, m)) + Open(m) + 2 * 1
      BY <3>3, <3>4
    <3>9. Keeps(m)
      BY <2>3 DEF Keeps
    <3>10. Bounded(m)'
      BY <1>1, <3>1, <3>5, <3>7, <3>8, <3>9, BoundOfOne DEF Accounted
    <3> QED
      BY <3>7, <3>10 DEF Accounted
  <2> QED
    BY <1>24, <2>2, <2>3 DEF MarkSent
<1>25. ASSUME NEW w \in Worker, MarkRefused(w)
       PROVE  Accounted(m)'
  <2> DEFINE x == worker[w].cur
  <2>1. worker[w].phase = "mark" /\ ~worker[w].ok /\ sends' = sends /\ x \in worker[w].todo /\ x \in Mail
    BY <1>2, <1>25 DEF MarkRefused, Process
  <2>2. CASE MarkRetry(w, x) /\ After(w, x) /\ NoFault
    <3>1. Carrier(w, x)
      BY <2>1 DEF Carrier
    <3>2. x = worker[w].cur
      OBVIOUS
    <3> HIDE DEF x
    <3>3. \A y \in Mail : y # x => mail'[y] = mail[y]
      BY <1>18, <2>1, <2>2 DEF MarkRetry
    <3>4. Keeps(x) \/ Counted(w, x)
      BY <1>18a, <2>1, <2>2
    <3> QED
      BY <1>23, <2>1, <2>2, <3>1, <3>2, <3>3, <3>4
  <2>3. CASE UNCHANGED mail /\ Fault /\ worker' = [worker EXCEPT ![w].phase = "unseen", ![w].infra = TRUE, ![w].cur = 0]
    <3>1. /\ Alone(w) /\ worker'[w].phase = "unseen" /\ worker'[w].todo = worker[w].todo
          /\ worker'[w].copy = worker[w].copy
      BY <1>2, <2>1, <2>3 DEF Shape, Process, Alone
    <3>2. Carrier(w, m)' => Carrier(w, m)
      BY <2>1, <3>1 DEF Carrier
    <3>3. Keeps(m)
      BY <2>3 DEF Keeps
    <3> QED
      BY <1>1, <2>1, <2>3, <3>1, <3>2, <3>3, AccountLess DEF Fault
  <2> QED
    BY <1>25, <2>2, <2>3 DEF MarkRefused
<1> QED
  BY <1>5, <1>6, <1>7, <1>8, <1>10, <1>11, <1>12, <1>13, <1>14, <1>15, <1>16, <1>19, <1>20, <1>21,
     <1>24, <1>25
  DEF Next, Step

(* At the start nothing is written, sent or counted. *)
LEMMA InitPaid == Init => Paid
<1> SUFFICES ASSUME Init, NEW m \in Mail
             PROVE  Accounted(m)
  BY DEF Paid
<1>1. sends[m] = 0 /\ faults = 0 /\ mail[m].status = "none" /\ mail[m].attempts = 0
  BY DEF Init, NoRow
<1>2. \A w \in Worker : ~Carrier(w, m)
  BY DEF Init, Idle, Carrier
<1>3. Carriers(m) = {}
  BY <1>2 DEF Carriers
<1>4. Cardinality(Carriers(m)) = 0
  BY <1>3, FS_EmptySet
<1>5. Loose(m) = 0
  BY <1>1 DEF Loose, Claimable
<1> QED
  BY <1>1, <1>4, <1>5 DEF Accounted, Covered, Bounded

(* The accounts are kept at every step. *)
LEMMA AlwaysPaid == Spec => []Paid
<1>1. ASSUME Sound, Sound', FailedIsSpent, Paid, [Next]_vars
      PROVE  Paid'
  <2>1. CASE Next
    BY <1>1, <2>1, PaidStep DEF Sound
  <2>2. CASE UNCHANGED vars
    <3>1. UNCHANGED <<mail, worker, sends, faults>>
      BY <2>2 DEF vars
    <3>2. ASSUME NEW m \in Mail
          PROVE  /\ Carriers(m)' = Carriers(m) /\ Behinds(m)' = Behinds(m)
                 /\ Loose(m)' = Loose(m) /\ Open(m)' = Open(m)
      BY <3>1 DEF Carriers, Behinds, Behind, Carrier, Loose, Open, Claimable, Attends
    <3> QED
      BY <1>1, <3>1, <3>2 DEF Paid, Accounted, Covered, Bounded
  <2> QED
    BY <1>1, <2>1, <2>2
<1> QED
  BY <1>1, InitPaid, AlwaysSound, FailedSpent, PTL DEF Spec

(* Nobody is mailed twice without a reason: each further copy of a mail    *)
(* is paid for by a crash, a lost answer, a failed write or a worker that  *)
(* was slower than the five minutes of claimEmailOutboxJobs.               *)
THEOREM CopiesArePaid == Spec => []CopiesNeedFaults
<1>1. Sound /\ Paid => CopiesNeedFaults
  <2> SUFFICES ASSUME Sound, Paid, NEW m \in Mail
               PROVE  sends[m] <= 1 + faults
    BY DEF CopiesNeedFaults
  <2>1. Carriers(m) \subseteq Worker
    BY DEF Carriers
  <2>2. Cardinality(Carriers(m)) \in Nat
    BY <2>1, OutboxAssumption, FS_Subset, FS_CardinalityType
  <2>3. Loose(m) \in Nat
    BY DEF Loose
  <2>4. sends[m] \in Nat /\ faults \in Nat
    BY OutboxAssumption DEF Sound, Shape
  <2>5. sends[m] + Cardinality(Carriers(m)) + Loose(m) <= 1 + faults
    BY DEF Paid, Accounted, Covered
  <2> QED
    BY <2>2, <2>3, <2>4, <2>5
<1> QED
  BY <1>1, AlwaysPaid, AlwaysSound, PTL

-----------------------------------------------------------------------------
(* Attempts *)

(* A row in the outbox counts no more than its attempts and two for each   *)
(* fault.                                                                  *)
LEMMA AttemptsBounded ==
  ASSUME Shape, Paid
  PROVE  mail \in [Mail -> MailRow]
<1> SUFFICES ASSUME NEW m \in Mail
             PROVE  mail[m] \in MailRow
  BY DEF Shape
<1>1. /\ mail[m] \in Row /\ mail[m].attempts \in Nat /\ MaxAttempts \in Nat /\ MaxFaults \in Nat
      /\ faults \in Nat /\ faults <= MaxFaults
  BY OutboxAssumption DEF Shape, Row
<1>2. Cardinality(Carriers(m)) \in Nat /\ Cardinality(Behinds(m)) \in Nat
  <2>1. Carriers(m) \subseteq Worker /\ Behinds(m) \subseteq Worker
    BY DEF Carriers, Behinds
  <2> QED
    BY <2>1, OutboxAssumption, FS_Subset, FS_CardinalityType
<1>3. Open(m) \in Nat
  BY DEF Open
<1>4. mail[m].attempts <= MaxAttempts + 2 * MaxFaults
  <2>1. CASE mail[m].status = "none" \/ mail[m].attempts < MaxAttempts - 1
    BY <1>1, <2>1 DEF Paid, Accounted, Bounded
  <2>2. CASE mail[m].status # "none" /\ mail[m].attempts >= MaxAttempts - 1
    <3>1. mail[m].attempts + Cardinality(Carriers(m)) + Cardinality(Behinds(m)) + Open(m) <= MaxAttempts + 2 * faults
      BY <2>2 DEF Paid, Accounted, Bounded
    <3> QED
      BY <1>1, <1>2, <1>3, <3>1
  <2> QED
    BY <1>1, <2>1, <2>2
<1>5. mail[m].attempts \in Attempts
  BY <1>1, <1>4 DEF Attempts
<1> QED
  BY <1>1, <1>5 DEF Row, MailRow

(* The attempts the workers have read are those of rows. *)
CopiesInRange == \A w \in Worker : worker[w].copy \in [Mail -> Attempts]

(* A worker's copies change when it claims and when it stops only. *)
LEMMA CopiesStep ==
  ASSUME Shape, mail \in [Mail -> MailRow], CopiesInRange, Next
  PROVE  CopiesInRange'
<1>1. ASSUME NEW w \in Worker, NEW slot, worker' = [worker EXCEPT ![w] = slot], slot.copy \in [Mail -> Attempts]
      PROVE  CopiesInRange'
  BY <1>1 DEF CopiesInRange, Shape
<1>2. ASSUME NEW w \in Worker, NEW slot, worker' = [worker EXCEPT ![w] = slot], slot.copy = worker[w].copy
      PROVE  CopiesInRange'
  BY <1>2 DEF CopiesInRange, Shape
<1>3. 0 \in Attempts
  BY OutboxAssumption DEF Attempts
<1>4. Idle.copy \in [Mail -> Attempts]
  BY <1>3 DEF Idle
<1>5. ASSUME NEW w \in Worker
      PROVE  Stop(w) => CopiesInRange'
  BY <1>1, <1>4 DEF Stop
<1>6. ASSUME NEW w \in Worker
      PROVE  worker[w] \in Process
  BY DEF Shape
<1>7. ASSUME NEW w \in Worker, NEW p
      PROVE  Go(w, p) => CopiesInRange'
  <2> DEFINE slot == [worker[w] EXCEPT !.phase = p]
  <2>1. slot.copy = worker[w].copy
    BY <1>6 DEF Process
  <2>2. Go(w, p) => worker' = [worker EXCEPT ![w] = slot]
    BY DEF Go, Shape
  <2> HIDE DEF slot
  <2> QED
    BY <1>2, <2>1, <2>2
<1>8. worker' = worker => CopiesInRange'
  BY DEF CopiesInRange
<1>9. ASSUME NEW w \in Worker, NEW T
      PROVE  worker' = [worker EXCEPT ![w].todo = T] => CopiesInRange'
  <2> DEFINE slot == [worker[w] EXCEPT !.todo = T]
  <2>1. slot.copy = worker[w].copy
    BY <1>6 DEF Process
  <2>2. worker' = [worker EXCEPT ![w].todo = T] => worker' = [worker EXCEPT ![w] = slot]
    BY DEF Shape
  <2> HIDE DEF slot
  <2> QED
    BY <1>2, <2>1, <2>2
<1>10. ASSUME NEW w \in Worker, NEW T, NEW p
       PROVE  worker' = [worker EXCEPT ![w].todo = T, ![w].phase = p] => CopiesInRange'
  <2> DEFINE slot == [worker[w] EXCEPT !.todo = T, !.phase = p]
  <2>1. slot.copy = worker[w].copy
    BY <1>6 DEF Process
  <2>2. worker' = [worker EXCEPT ![w].todo = T, ![w].phase = p] => worker' = [worker EXCEPT ![w] = slot]
    BY DEF Shape
  <2> HIDE DEF slot
  <2> QED
    BY <1>2, <2>1, <2>2
<1>11. CASE \/ RequestCourseDeletion \/ PurgeCourse \/ FanDue \/ FanStale
            \/ (\E r \in Mail : RequestUserDeletion(r) \/ CleanupSent(r) \/ MailDue(r) \/ MailStale(r))
            \/ \E w \in Worker : CooldownEnds(w)
  BY <1>8, <1>11 DEF RequestCourseDeletion, PurgeCourse, FanDue, FanStale, RequestUserDeletion, CleanupSent,
     MailDue, MailStale, CooldownEnds
<1>12. ASSUME NEW w \in Worker,
              \/ ClaimFanout(w) \/ CommitFanout(w) \/ MarkFanoutJobFailed(w) \/ EndSlice(w)
              \/ Deadline(w) \/ Crash(w)
       PROVE  CopiesInRange'
  BY <1>5, <1>7, <1>12 DEF ClaimFanout, CommitFanout, MarkFanoutJobFailed, EndSlice, Deadline, Crash
<1>13. ASSUME NEW w \in Worker, BeginFanout(w)
       PROVE  CopiesInRange'
  <2>1. CASE worker' = [worker EXCEPT ![w].phase = "page", ![w].page = NextPage]
    <3> DEFINE slot == [worker[w] EXCEPT !.phase = "page", !.page = NextPage]
    <3>1. slot.copy = worker[w].copy /\ worker' = [worker EXCEPT ![w] = slot]
      BY <1>6, <2>1 DEF Process, Shape
    <3> HIDE DEF slot
    <3> QED
      BY <1>2, <3>1
  <2> QED
    BY <1>5, <1>13, <2>1 DEF BeginFanout
<1>14. ASSUME NEW w \in Worker, FanoutThrows(w)
       PROVE  CopiesInRange'
  <2> DEFINE slot == [Idle EXCEPT !.phase = "fanfail"]
  <2>1. slot.copy \in [Mail -> Attempts] /\ worker' = [worker EXCEPT ![w] = slot]
    BY <1>4, <1>14 DEF FanoutThrows, Idle
  <2> HIDE DEF slot
  <2> QED
    BY <1>1, <2>1
<1>15. ASSUME NEW w \in Worker, Claim(w)
       PROVE  CopiesInRange'
  <2>1. PICK held \in SUBSET Mail :
          worker' = [worker EXCEPT ![w] = [Idle EXCEPT !.phase = "group", !.held = held,
            !.copy = [m \in Mail |-> IF m \in held THEN mail[m].attempts ELSE 0]]]
    BY <1>15 DEF Claim
  <2> DEFINE f == [m \in Mail |-> IF m \in held THEN mail[m].attempts ELSE 0]
             slot == [Idle EXCEPT !.phase = "group", !.held = held, !.copy = f]
  <2>2. f \in [Mail -> Attempts]
    BY <1>3 DEF MailRow
  <2>3. worker' = [worker EXCEPT ![w] = slot]
    BY <2>1
  <2> HIDE DEF f
  <2>4. slot.copy = f
    BY DEF Idle
  <2> HIDE DEF slot
  <2> QED
    BY <1>1, <2>2, <2>3, <2>4
<1>16. ASSUME NEW w \in Worker, StartGroup(w) \/ Connect(w)
       PROVE  CopiesInRange'
  <2>1. ASSUME NEW p, worker' = [worker EXCEPT ![w].phase = p, ![w].todo = worker[w].held]
        PROVE  CopiesInRange'
    <3> DEFINE slot == [worker[w] EXCEPT !.phase = p, !.todo = worker[w].held]
    <3>1. slot.copy = worker[w].copy /\ worker' = [worker EXCEPT ![w] = slot]
      BY <1>6, <2>1 DEF Process, Shape
    <3> HIDE DEF slot
    <3> QED
      BY <1>2, <3>1
  <2>2. CASE worker' = [worker EXCEPT ![w].phase = "unseen", ![w].infra = TRUE]
    <3> DEFINE slot == [worker[w] EXCEPT !.phase = "unseen", !.infra = TRUE]
    <3>1. slot.copy = worker[w].copy /\ worker' = [worker EXCEPT ![w] = slot]
      BY <1>6, <2>2 DEF Process, Shape
    <3> HIDE DEF slot
    <3> QED
      BY <1>2, <3>1
  <2> QED
    BY <1>7, <1>16, <2>1, <2>2 DEF StartGroup, Connect
<1>17. ASSUME NEW w \in Worker, Release(w) \/ Filter(w) \/ Cancel(w) \/ RetryRest(w)
       PROVE  CopiesInRange'
  <2>1. CASE Release(w)
    BY <1>5, <1>9, <2>1 DEF Release
  <2>2. CASE Filter(w)
    BY <1>5, <1>10, <2>2 DEF Filter
  <2>3. CASE Cancel(w)
    BY <1>5, <1>7, <2>3 DEF Cancel
  <2>4. CASE RetryRest(w)
    BY <1>5, <1>9, <1>10, <2>4 DEF RetryRest
  <2> QED
    BY <1>17, <2>1, <2>2, <2>3, <2>4
<1>18. ASSUME NEW w \in Worker, Send(w)
       PROVE  CopiesInRange'
  <2>1. PICK m \in worker[w].todo, ok \in BOOLEAN :
          worker' = [worker EXCEPT ![w].phase = "mark", ![w].cur = m, ![w].ok = ok, ![w].infra = @ \/ ~ok]
    BY <1>18 DEF Send
  <2> DEFINE i == worker[w].infra \/ ~ok
             slot == [worker[w] EXCEPT !.phase = "mark", !.cur = m, !.ok = ok, !.infra = i]
  <2>2. worker' = [worker EXCEPT ![w] = slot]
    BY <2>1, Zenon DEF Shape
  <2> HIDE DEF i
  <2>3. slot.copy = worker[w].copy
    BY <1>6 DEF Process
  <2> HIDE DEF slot
  <2> QED
    BY <1>2, <2>2, <2>3
<1>19. ASSUME NEW w \in Worker, NEW m
       PROVE  After(w, m) => CopiesInRange'
  <2> DEFINE g == worker[w].good \/ worker[w].ok
             p == IF worker[w].todo = {m} THEN "end" ELSE "send"
             T == worker[w].todo \ {m}
             slot == [worker[w] EXCEPT !.todo = T, !.cur = 0, !.ok = FALSE, !.good = g, !.phase = p]
  <2>1. After(w, m) => worker' = [worker EXCEPT ![w] = slot]
    BY Zenon DEF After, Shape
  <2> HIDE DEF g, p, T
  <2>2. slot.copy = worker[w].copy
    BY <1>6 DEF Process
  <2> HIDE DEF slot
  <2> QED
    BY <1>2, <2>1, <2>2
<1>20. ASSUME NEW w \in Worker, MarkSent(w) \/ MarkRefused(w)
       PROVE  CopiesInRange'
  <2>1. CASE worker' = [worker EXCEPT ![w].ok = FALSE, ![w].infra = TRUE]
    <3> DEFINE slot == [worker[w] EXCEPT !.ok = FALSE, !.infra = TRUE]
    <3>1. slot.copy = worker[w].copy /\ worker' = [worker EXCEPT ![w] = slot]
      BY <1>6, <2>1 DEF Process, Shape
    <3> HIDE DEF slot
    <3> QED
      BY <1>2, <3>1
  <2>2. CASE worker' = [worker EXCEPT ![w].phase = "unseen", ![w].infra = TRUE, ![w].cur = 0]
    <3> DEFINE slot == [worker[w] EXCEPT !.phase = "unseen", !.infra = TRUE, !.cur = 0]
    <3>1. slot.copy = worker[w].copy /\ worker' = [worker EXCEPT ![w] = slot]
      BY <1>6, <2>2 DEF Process, Shape
    <3> HIDE DEF slot
    <3> QED
      BY <1>2, <3>1
  <2> QED
    BY <1>19, <1>20, <2>1, <2>2 DEF MarkSent, MarkRefused
<1> QED
  BY <1>11, <1>12, <1>13, <1>14, <1>15, <1>16, <1>17, <1>18, <1>20 DEF Next, Step

(* Every row keeps its type.  Above all, attempts cannot run away although *)
(* markEmailOutboxJobRetry adds to the row and judges by the worker's      *)
(* copy: a row counts at most two attempts more for each fault.            *)
THEOREM TypeCorrect == Spec => []TypeOK
<1>1. Init => CopiesInRange
  <2>1. 0 \in Attempts
    BY OutboxAssumption DEF Attempts
  <2> QED
    BY <2>1 DEF Init, Idle, CopiesInRange
<1>2. ASSUME Sound, Paid, CopiesInRange, [Next]_vars
      PROVE  CopiesInRange'
  <2>1. CASE Next
    BY <1>2, <2>1, AttemptsBounded, CopiesStep DEF Sound
  <2>2. CASE UNCHANGED vars
    BY <1>2, <2>2 DEF vars, CopiesInRange
  <2> QED
    BY <1>2, <2>1, <2>2
<1>3. ASSUME Sound, Paid, CopiesInRange
      PROVE  TypeOK
  <2>1. mail \in [Mail -> MailRow]
    BY <1>3, AttemptsBounded DEF Sound
  <2>2. worker \in [Worker -> Slot]
    <3>1. ASSUME NEW w \in Worker
          PROVE  worker[w] \in Slot
      <4>1. worker[w] \in Process /\ worker[w].copy \in [Mail -> Attempts]
        BY <1>3 DEF Sound, Shape, CopiesInRange
      <4> QED
        BY <4>1 DEF Process, Slot
    <3> QED
      BY <1>3, <3>1 DEF Sound, Shape
  <2> QED
    BY <1>3, <2>1, <2>2 DEF Sound, Shape, TypeOK
<1> QED
  BY <1>1, <1>2, <1>3, AlwaysSound, AlwaysPaid, PTL DEF Spec

=============================================================================
