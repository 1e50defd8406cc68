--------------------------- MODULE AiCredit_proofs ---------------------------
(***************************************************************************)
(* Proofs about AiCredit: its types, its books, its budget and its         *)
(* refusals, for any calls, processes, plans, rates and months.            *)
(*                                                                         *)
(*  - Known: the first month has a rate, so that every month has one.      *)
(*  - Lines: a reserve transaction belongs to one call, which has no       *)
(*    reservation yet; a reservation lies in a month that exists; and only *)
(*    finitely many calls have one, so that their sums are defined.        *)
(*  - Rows: a month that does not exist is empty, and the budget of a      *)
(*    month is within its peak.                                            *)
(***************************************************************************)
EXTENDS AiCredit, DataLemmas

-----------------------------------------------------------------------------
(* The inductive invariant *)

Money == Nat \cup {Unlimited}

Known == rate[1] # None

Made == {c \in Call : res[c].status # "none"}

Lines ==
  /\ \A m \in Month : reserving[m].call # None => call[reserving[m].call] = "reserving"
  /\ \A m, n \in Month : reserving[m].call # None /\ reserving[m].call = reserving[n].call => m = n
  /\ \A c \in Call : call[c] \in {"idle", "reserving"} => res[c].status = "none"
  /\ \A c \in Call : res[c].status # "none" => month[res[c].month].present
  /\ IsFiniteSet(Made)

Fine(row) ==
  /\ ~row.present => row.used = 0 /\ row.reserved = 0 /\ row.peak = 0
  /\ row.peak # Unlimited => row.budget # Unlimited /\ row.budget <= row.peak

Rows == \A m \in Month : Fine(month[m])

Sound == TypeOK /\ Known /\ Lines /\ Rows /\ BooksBalance

-----------------------------------------------------------------------------
(* Rates and rows *)

(* The rate of a month is that of the latest month that has one. *)
LEMMA RateType ==
  ASSUME TypeOK, Known, NEW m \in Month
  PROVE  RateOf(m) \in Rate /\ BudgetOf(m) \in Money
<1> DEFINE T == {n \in 1..m : rate[n] # None}
<1>1. m \in Nat /\ m >= 1 /\ LastMonth \in Nat /\ 1..m \subseteq Month
  BY BudgetAssumption DEF Month
<1>2. T \subseteq 0..m /\ 1 \in T
  BY <1>1 DEF Known
<1>3. PICK n \in T : \A k \in T : k <= n
  <2> HIDE DEF T
  <2> QED
    BY <1>1, <1>2, HasGreatest
<1>4. n \in 1..m /\ rate[n] # None /\ \A k \in (n + 1)..m : rate[k] = None
  <2>1. ASSUME NEW k \in (n + 1)..m
        PROVE  rate[k] = None
    <3>1. k \in 1..m /\ ~(k <= n)
      BY <1>1, <1>3
    <3> QED
      BY <1>3, <3>1
  <2> QED
    BY <1>3, <2>1
<1> DEFINE l == CHOOSE k \in 1..m : rate[k] # None /\ \A j \in (k + 1)..m : rate[j] = None
<1>5. l \in 1..m /\ rate[l] # None
  BY <1>4
<1>6. RateOf(m) = rate[l]
  BY DEF RateOf
<1> HIDE DEF l
<1>7. RateOf(m) \in Rate
  BY <1>1, <1>5, <1>6 DEF TypeOK
<1> QED
  BY <1>7, BudgetAssumption DEF BudgetOf, TypeOK, Money

(* A new month is a row, within its budget and empty. *)
LEMMA NewMonthType ==
  ASSUME NEW p \in Plan \cup {None}, NEW b \in Money
  PROVE  /\ NewMonth(p, b) \in MonthRow /\ NewMonth(p, b).present
         /\ NewMonth(p, b).used = 0 /\ NewMonth(p, b).reserved = 0
         /\ NewMonth(p, b).budget = b /\ NewMonth(p, b).peak = b
BY DEF NewMonth, Absent, MonthRow, Money

LEMMA AbsentType == Absent \in MonthRow /\ Free \in Reserving
BY DEF Absent, MonthRow, Free, Reserving

(* The budget b is at least a. *)
Within(a, b) == b = Unlimited \/ (a # Unlimited /\ a <= b)

(* row may replace the row of m: it has the same use and holds, and the    *)
(* highest budget so far is not lower.                                     *)
Keeps(row, m) ==
  /\ row \in MonthRow
  /\ Fine(row)
  /\ month[m].present => row.present
  /\ row.used = month[m].used /\ row.reserved = month[m].reserved
  /\ Within(month[m].peak, row.peak)

LEMMA NewMonthKeeps ==
  ASSUME TypeOK, Rows, NEW m \in Month, ~month[m].present, NEW p \in Plan \cup {None}, NEW b \in Money
  PROVE  Keeps(NewMonth(p, b), m) /\ NewMonth(p, b).present
<1>1. month[m].used = 0 /\ month[m].reserved = 0 /\ month[m].peak = 0
  BY DEF Rows, Fine
<1>2. b = Unlimited \/ (b \in Nat /\ b # Unlimited)
  BY BudgetAssumption DEF Money
<1>3. 0 # Unlimited
  BY BudgetAssumption
<1> QED
  BY <1>1, <1>2, <1>3, NewMonthType DEF Keeps, Fine, Within

LEMMA SameKeeps ==
  ASSUME TypeOK, Rows, NEW m \in Month
  PROVE  Keeps(month[m], m)
<1>1. month[m] \in MonthRow
  BY DEF TypeOK
<1>2. month[m].peak \in Nat \cup {Unlimited}
  BY <1>1 DEF MonthRow
<1> QED
  BY <1>1, <1>2 DEF Rows, Keeps, Within

LEMMA RowToHoldKeeps ==
  ASSUME TypeOK, Known, Rows, NEW m \in Month
  PROVE  Keeps(RowToHold(m), m) /\ RowToHold(m).present
<1>1. month[m] \in MonthRow /\ reserving[m] \in Reserving /\ plan \in Plan
  BY DEF TypeOK
<1>2. BudgetOf(m) \in Money /\ reserving[m].budget \in Money /\ reserving[m].plan \in Plan \cup {None}
  BY <1>1, RateType DEF Reserving, Money
<1>3. CASE month[m].present
  BY <1>3, SameKeeps DEF RowToHold
<1>4. CASE ~month[m].present
  <2>1. PICK p \in Plan \cup {None}, b \in Money : RowToHold(m) = NewMonth(p, b)
    BY <1>1, <1>2, <1>4 DEF RowToHold
  <2> QED
    BY <1>4, <2>1, NewMonthKeeps
<1> QED
  BY <1>3, <1>4

LEMMA AfterEnsureKeeps ==
  ASSUME TypeOK, Known, Rows, NEW m \in Month, NEW p
  PROVE  Keeps(AfterEnsure(p, m), m)
<1>1. BudgetOf(m) \in Money /\ plan \in Plan \cup {None}
  BY RateType DEF TypeOK
<1>2. CASE m \in ensured[p] \/ month[m].present
  BY <1>2, SameKeeps DEF AfterEnsure
<1>3. CASE ~(m \in ensured[p] \/ month[m].present)
  BY <1>1, <1>3, NewMonthKeeps DEF AfterEnsure
<1> QED
  BY <1>2, <1>3

(* recomputeCreditMonth keeps use and holds, and the peak covers the new   *)
(* budget.                                                                 *)
LEMMA RecomputedKeeps ==
  ASSUME TypeOK, Known, NEW m \in Month, NEW row, Keeps(row, m)
  PROVE  Keeps(Recomputed(row, m), m)
<1> DEFINE b == BudgetOf(m)
           h == Higher(row.peak, b)
           new == [row EXCEPT !.plan = plan, !.budget = b, !.peak = h]
<1>1. b \in Money /\ plan \in Plan /\ row \in MonthRow
  BY RateType DEF TypeOK, Keeps
<1>2. row.peak \in Money /\ month[m].peak \in Money
  BY <1>1 DEF MonthRow, Money, TypeOK
<1>3. CASE ~row.present
  BY <1>3 DEF Recomputed
<1>4. CASE row.present
  <2>1. Recomputed(row, m) = new
    BY <1>4 DEF Recomputed
  <2> HIDE DEF b
  <2>2. h \in Money /\ Within(b, h) /\ Within(month[m].peak, h)
    BY <1>1, <1>2, BudgetAssumption DEF Higher, Within, Keeps, Money
  <2> HIDE DEF h
  <2>3. /\ new \in MonthRow /\ new.present = row.present /\ new.used = row.used
        /\ new.reserved = row.reserved /\ new.budget = b /\ new.peak = h
    BY <1>1, <2>2 DEF MonthRow, Money
  <2> HIDE DEF new
  <2> QED
    BY <1>4, <2>1, <2>2, <2>3 DEF Keeps, Fine, Within
<1> QED
  BY <1>3, <1>4

-----------------------------------------------------------------------------
(* Kinds of steps *)

(* The books stay as they are; months may be created or recomputed. *)
Quiet ==
  /\ month' \in [Month -> MonthRow]
  /\ \A m \in Month : Keeps(month'[m], m)
  /\ UNCHANGED <<res, ledger>>

Holding(m) ==
  \E hold \in Nat : LET c == reserving[m].call IN
    /\ c \in Call
    /\ call[c] = "reserving"
    /\ Fits(c, RowToHold(m), hold)
    /\ month' = [month EXCEPT ![m] = [RowToHold(m) EXCEPT !.reserved = @ + hold]]
    /\ res' = [res EXCEPT ![c] = [status |-> "reserved", month |-> m, hold |-> hold]]
    /\ call' = [call EXCEPT ![c] = "calling"]
    /\ ledger' = ledger

Settling(c) == Release(c) \/ \E cost \in Nat : Finalize(c, cost)

Sweeping ==
  \E batch \in SUBSET Call :
    /\ \A c \in batch : res[c].status = "reserved"
    /\ res' = [c \in Call |-> IF c \in batch THEN [res[c] EXCEPT !.status = "expired"] ELSE res[c]]
    /\ month' = [m \in Month |-> [month[m] EXCEPT !.reserved =
         Less(@, SumFunctionOnSet(Holds, {c \in batch : res[c].month = m}))]]
    /\ ledger' = ledger

(* The grant is one that fits. *)
LEMMA GrantFits ==
  ASSUME NEW c \in Call, NEW row, Grants(c, row) # {}
  PROVE  Max(Grants(c, row)) \in Nat /\ Fits(c, row, Max(Grants(c, row)))
<1>1. Grants(c, row) \subseteq {Least[c], Most[c]} /\ Least[c] \in Nat /\ Most[c] \in Nat
  BY CallAssumption DEF Grants
<1>2. \E x \in Grants(c, row) : \A y \in Grants(c, row) : x >= y
  BY <1>1, CallAssumption
<1>3. Max(Grants(c, row)) \in Grants(c, row)
  BY <1>2, Zenon DEF Max
<1> QED
  BY <1>1, <1>3 DEF Grants

LEMMA NoCallFree == Free.call = None /\ Free.plan = None /\ Free.proc = None
BY DEF Free

(* Every step is of one kind. *)
LEMMA StepKinds ==
  ASSUME Sound, [Next]_vars
  PROVE  Quiet \/ (\E m \in Month : Holding(m)) \/ (\E c \in Call : Settling(c)) \/ Sweeping
<1> USE DEF Sound
<1>0. UNCHANGED <<month, res, ledger>> => Quiet
  BY SameKeeps DEF Quiet, TypeOK
<1>1. ASSUME NEW c \in Call, NEW p \in Process, ReserveStart(c, p)
      PROVE  Quiet
  BY <1>0, <1>1 DEF ReserveStart
<1>2. ASSUME NEW c \in Call, CallEnds(c)
      PROVE  Quiet
  BY <1>0, <1>2 DEF CallEnds
<1>3. ASSUME NEW c \in Call, FinalizeAnswer(c) \/ FinalizeBilled(c) \/ ReleaseFailed(c) \/ Reconcile(c)
      PROVE  Quiet \/ Settling(c)
  <2>1. Charge \subseteq Nat /\ res[c].hold \in Nat
    BY CallAssumption DEF TypeOK, Reservation
  <2> QED
    BY <1>0, <1>3, <2>1 DEF FinalizeAnswer, FinalizeBilled, ReleaseFailed, Reconcile, Gone, Settling
<1>4. ASSUME NEW c \in Call, CallLost(c)
      PROVE  Quiet
  BY <1>0, <1>4 DEF CallLost
<1>5. ASSUME NEW m \in Month, ReserveCommit(m)
      PROVE  Holding(m)
  <2>1. reserving[m].call \in Call
    BY <1>5 DEF ReserveCommit, TypeOK, Reserving
  <2>2. call[reserving[m].call] = "reserving"
    BY <1>5 DEF ReserveCommit, Lines
  <2> DEFINE hold == Max(Grants(reserving[m].call, RowToHold(m)))
  <2>3. hold \in Nat /\ Fits(reserving[m].call, RowToHold(m), hold)
    BY <1>5, <2>1, GrantFits DEF ReserveCommit
  <2>4. /\ month' = [month EXCEPT ![m] = [RowToHold(m) EXCEPT !.reserved = @ + hold]]
        /\ res' = [res EXCEPT ![reserving[m].call] = [status |-> "reserved", month |-> m, hold |-> hold]]
        /\ call' = [call EXCEPT ![reserving[m].call] = "calling"]
        /\ ledger' = ledger
    BY <1>5 DEF ReserveCommit
  <2> HIDE DEF hold
  <2> QED
    BY <2>1, <2>2, <2>3, <2>4 DEF Holding
<1>6. ASSUME NEW m \in Month, ReserveRefused(m) \/ ReserveAborts(m) \/ SetRate(m)
      PROVE  Quiet
  BY <1>0, <1>6 DEF ReserveRefused, ReserveAborts, SetRate
<1>7. ASSUME NEW batch \in SUBSET Call, Expire(batch)
      PROVE  Sweeping
  BY <1>7 DEF Expire, Expirable, Settleable, Sweeping
<1>8. ASSUME NEW p \in Process, EnsureMonth(p) \/ RecomputePlan(p)
      PROVE  Quiet
  <2>1. PICK row : Keeps(row, now) /\ month' = [month EXCEPT ![now] = row] /\ UNCHANGED <<res, ledger>>
    <3>1. now \in Month
      BY DEF TypeOK
    <3>2. Keeps(AfterEnsure(p, now), now)
      BY <3>1, AfterEnsureKeeps
    <3>3. Keeps(Recomputed(AfterEnsure(p, now), now), now)
      BY <3>1, <3>2, RecomputedKeeps
    <3> QED
      BY <1>8, <3>2, <3>3 DEF EnsureMonth, RecomputePlan
  <2>2. row \in MonthRow
    BY <2>1 DEF Keeps
  <2>3. ASSUME NEW m \in Month
        PROVE  Keeps(month'[m], m)
    <3>1. month'[m] = IF m = now THEN row ELSE month[m]
      BY <2>1 DEF TypeOK
    <3> QED
      BY <2>1, <3>1, SameKeeps
  <2> QED
    BY <2>1, <2>2, <2>3 DEF Quiet, TypeOK
<1>9. ASSUME NEW p \in Process, Restart(p)
      PROVE  Quiet
  BY <1>0, <1>9 DEF Restart
<1>10. ASSUME MonthTurns \/ SetPlan
       PROVE  Quiet
  BY <1>0, <1>10 DEF MonthTurns, SetPlan
<1>11. ASSUME RecomputeRate
       PROVE  Quiet
  <2>1. ASSUME NEW m \in Month
        PROVE  Keeps(month'[m], m)
    <3>1. month'[m] = Recomputed(month[m], m) \/ month'[m] = month[m]
      BY <1>11 DEF RecomputeRate
    <3> QED
      BY <3>1, SameKeeps, RecomputedKeeps
  <2>2. month' = [m \in Month |-> month'[m]]
    BY <1>11 DEF RecomputeRate
  <2>3. month' \in [Month -> MonthRow]
    BY <2>1, <2>2 DEF Keeps
  <2> QED
    BY <1>11, <2>1, <2>3 DEF Quiet, RecomputeRate
<1>12. ASSUME UNCHANGED vars
       PROVE  Quiet
  BY <1>0, <1>12 DEF vars
<1> QED
  BY <1>1, <1>2, <1>3, <1>4, <1>5, <1>6, <1>7, <1>8, <1>9, <1>10, <1>11, <1>12 DEF Next

-----------------------------------------------------------------------------
(* Rows through a step *)

(* The calls with a reservation in a month are finitely many, and what     *)
(* they hold, cost and share are natural numbers.                          *)
LEMMA Countable ==
  ASSUME TypeOK, IsFiniteSet(Made)
  PROVE  /\ \A S \in SUBSET Made : IsFiniteSet(S)
         /\ \A m \in Month : /\ In(m, "reserved") \in SUBSET Made
                             /\ In(m, "finalized") \in SUBSET Made
         /\ \A c \in Call : /\ Holds[c] = res[c].hold /\ Holds[c] \in Nat
                            /\ Costs[c] = ledger[c].cost /\ Costs[c] \in Nat
                            /\ Shares[c] \in Nat
<1>1. \A S \in SUBSET Made : IsFiniteSet(S)
  BY FS_Subset
<1>2. \A m \in Month : In(m, "reserved") \in SUBSET Made /\ In(m, "finalized") \in SUBSET Made
  BY DEF In, Made
<1>3. \A c \in Call : res[c].hold \in Nat /\ ledger[c].cost \in Nat
  BY DEF TypeOK, Reservation
<1> QED
  BY <1>1, <1>2, <1>3 DEF Holds, Costs, Shares

(* row is the row of m but for its use, its holds and its warnings. *)
Like(row, m) ==
  /\ row \in MonthRow
  /\ row.present = month[m].present /\ row.budget = month[m].budget /\ row.peak = month[m].peak

LEMMA LessType == ASSUME NEW a \in Nat, NEW b \in Nat PROVE Less(a, b) \in Nat
BY DEF Less

LEMMA HoldingRow ==
  ASSUME TypeOK, Known, Rows, NEW m \in Month, NEW hold \in Nat,
         month' = [month EXCEPT ![m] = [RowToHold(m) EXCEPT !.reserved = @ + hold]]
  PROVE  /\ month'[m] \in MonthRow /\ month'[m].present /\ Fine(month'[m])
         /\ month'[m].used = month[m].used /\ month'[m].reserved = month[m].reserved + hold
         /\ Within(month[m].peak, month'[m].peak) /\ month'[m].peak = RowToHold(m).peak
         /\ \A n \in Month \ {m} : month'[n] = month[n]
<1> DEFINE row == RowToHold(m)
           new == [row EXCEPT !.reserved = @ + hold]
<1>1. Keeps(row, m) /\ row.present
  BY RowToHoldKeeps
<1>2. month'[m] = new /\ \A n \in Month \ {m} : month'[n] = month[n]
  BY DEF TypeOK
<1> HIDE DEF row
<1>3. row \in MonthRow
  BY <1>1 DEF Keeps
<1>4. /\ new \in MonthRow /\ new.present = row.present /\ new.used = row.used
      /\ new.reserved = row.reserved + hold /\ new.peak = row.peak /\ new.budget = row.budget
  BY <1>3 DEF MonthRow
<1> HIDE DEF new
<1> QED
  BY <1>1, <1>2, <1>4 DEF Keeps, Fine, row

(* A settlement takes the hold from the reservation's month and adds the   *)
(* cost; the warning marks touch neither.                                  *)
LEMMA SettlingRow ==
  ASSUME TypeOK, NEW c \in Call, Settling(c)
  PROVE  LET m == res[c].month IN
         /\ m \in Month /\ res[c].status = "reserved" /\ Like(month'[m], m)
         /\ month'[m].reserved = Less(month[m].reserved, res[c].hold)
         /\ \A n \in Month \ {m} : month'[n] = month[n]
         /\ month' \in [Month -> MonthRow]
         /\ \/ /\ res' = [res EXCEPT ![c].status = "released"]
               /\ month'[m].used = month[m].used
               /\ ledger' = ledger
            \/ \E cost \in Nat :
                 /\ res' = [res EXCEPT ![c].status = "finalized"]
                 /\ month'[m].used = month[m].used + cost
                 /\ ledger' = [ledger EXCEPT ![c] = [rows |-> @.rows + 1, cost |-> cost]]
<1> DEFINE m == res[c].month
           left == Less(month[m].reserved, res[c].hold)
<1>1. m \in Month /\ res[c].hold \in Nat /\ month[m] \in MonthRow
  BY DEF TypeOK, Reservation
<1>2. left \in Nat /\ month[m].used \in Nat
  BY <1>1, LessType DEF MonthRow
<1>3. CASE Release(c)
  <2> DEFINE new == [month[m] EXCEPT !.reserved = left]
  <2>1. month' = [month EXCEPT ![m] = new]
    BY <1>3 DEF Release
  <2> HIDE DEF m, left
  <2>2. new \in MonthRow /\ new.reserved = left /\ new.used = month[m].used
        /\ new.present = month[m].present /\ new.budget = month[m].budget /\ new.peak = month[m].peak
    BY <1>1, <1>2 DEF MonthRow
  <2> HIDE DEF new
  <2>3. month'[m] = new /\ (\A n \in Month \ {m} : month'[n] = month[n]) /\ month' \in [Month -> MonthRow]
    BY <1>1, <2>1, <2>2 DEF TypeOK
  <2> QED
    BY <1>1, <1>3, <2>2, <2>3 DEF Release, Settleable, Like, m, left
<1>4. ASSUME NEW cost \in Nat, Finalize(c, cost)
      PROVE  /\ Like(month'[m], m) /\ month'[m].reserved = left /\ month'[m].used = month[m].used + cost
             /\ \A n \in Month \ {m} : month'[n] = month[n]
             /\ month' \in [Month -> MonthRow]
  <2> DEFINE use == month[m].used + cost
             paid == [month[m] EXCEPT !.used = use, !.reserved = left]
             new == Marked(paid)
  <2>1. month' = [month EXCEPT ![m] = new]
    <3>1. month' = [month EXCEPT ![m] = Charged(month[m], cost, res[c].hold)]
      BY <1>4, Zenon DEF Finalize
    <3>2. Charged(month[m], cost, res[c].hold) = new
      BY Zenon DEF Charged
    <3> QED
      BY <3>1, <3>2, Zenon
  <2>0. use \in Nat
    BY <1>2, <1>4
  <2> HIDE DEF m, left, use
  <2>2. paid \in MonthRow /\ paid.reserved = left /\ paid.used = use
        /\ paid.present = month[m].present /\ paid.budget = month[m].budget /\ paid.peak = month[m].peak
    BY <1>1, <1>2, <2>0 DEF MonthRow
  <2> HIDE DEF paid
  <2>3. new \in MonthRow /\ new.reserved = paid.reserved /\ new.used = paid.used
        /\ new.present = paid.present /\ new.budget = paid.budget /\ new.peak = paid.peak
    BY <2>2 DEF MonthRow, Marked
  <2> HIDE DEF new
  <2>4. month'[m] = new /\ (\A n \in Month \ {m} : month'[n] = month[n]) /\ month' \in [Month -> MonthRow]
    BY <1>1, <2>1, <2>3 DEF TypeOK
  <2> QED
    BY <2>2, <2>3, <2>4 DEF Like, use
<1>5. CASE \E cost \in Nat : Finalize(c, cost)
  <2>1. PICK cost \in Nat : Finalize(c, cost)
    BY <1>5
  <2>2. /\ res[c].status = "reserved" /\ res' = [res EXCEPT ![c].status = "finalized"]
        /\ ledger' = [ledger EXCEPT ![c] = [rows |-> @.rows + 1, cost |-> cost]]
    BY <2>1 DEF Finalize, Settleable
  <2> QED
    BY <1>1, <1>4, <2>1, <2>2
<1> QED
  BY <1>3, <1>5 DEF Settling

LEMMA SweepingRow ==
  ASSUME TypeOK, IsFiniteSet(Made), NEW batch \in SUBSET Call,
         \A c \in batch : res[c].status = "reserved",
         month' = [m \in Month |-> [month[m] EXCEPT !.reserved =
           Less(@, SumFunctionOnSet(Holds, {c \in batch : res[c].month = m}))]]
  PROVE  /\ month' \in [Month -> MonthRow]
         /\ \A m \in Month :
              LET swept == SumFunctionOnSet(Holds, {c \in batch : res[c].month = m}) IN
              /\ swept \in Nat /\ Like(month'[m], m) /\ month'[m].used = month[m].used
              /\ month'[m].reserved = Less(month[m].reserved, swept)
<1>1. ASSUME NEW m \in Month
      PROVE  LET swept == SumFunctionOnSet(Holds, {c \in batch : res[c].month = m}) IN
             /\ swept \in Nat /\ Like(month'[m], m) /\ month'[m].used = month[m].used
             /\ month'[m].reserved = Less(month[m].reserved, swept)
  <2> DEFINE B == {c \in batch : res[c].month = m}
             swept == SumFunctionOnSet(Holds, B)
             left == Less(month[m].reserved, swept)
             new == [month[m] EXCEPT !.reserved = left]
  <2>1. B \in SUBSET Made
    BY DEF Made
  <2>2. IsFiniteSet(B) /\ \A x \in B : Holds[x] \in Nat
    BY <2>1, Countable
  <2>3. month'[m] = new
    OBVIOUS
  <2> HIDE DEF B
  <2>4. swept \in Nat
    BY <2>2, SumType
  <2> HIDE DEF swept
  <2>5. month[m] \in MonthRow
    BY DEF TypeOK
  <2>6. left \in Nat
    BY <2>4, <2>5, LessType DEF MonthRow
  <2> HIDE DEF left
  <2>7. new \in MonthRow /\ new.reserved = left /\ new.used = month[m].used
        /\ new.present = month[m].present /\ new.budget = month[m].budget /\ new.peak = month[m].peak
    BY <2>5, <2>6 DEF MonthRow
  <2> HIDE DEF new
  <2>8. swept \in Nat /\ Like(month'[m], m) /\ month'[m].used = month[m].used /\ month'[m].reserved = left
    BY <2>3, <2>4, <2>7 DEF Like
  <2> QED
    BY <2>8 DEF left, swept, B
<1>2. month' = [m \in Month |-> month'[m]]
  OBVIOUS
<1>3. \A m \in Month : month'[m] \in MonthRow
  BY <1>1 DEF Like
<1> QED
  BY <1>1, <1>2, <1>3

(* A step keeps the rows of months, reservations and charges well formed,  *)
(* and neither removes a month nor lowers its peak.                        *)
LEMMA RowsStep ==
  ASSUME Sound, [Next]_vars
  PROVE  /\ month' \in [Month -> MonthRow]
         /\ res' \in [Call -> Reservation]
         /\ ledger' \in [Call -> [rows : Nat, cost : Nat]]
         /\ Rows'
         /\ \A m \in Month : (month[m].present => month'[m].present) /\ Within(month[m].peak, month'[m].peak)
<1>1. TypeOK /\ Known /\ Lines /\ Rows /\ IsFiniteSet(Made)
  BY DEF Sound, Lines
<1>2. month \in [Month -> MonthRow] /\ res \in [Call -> Reservation] /\ ledger \in [Call -> [rows : Nat, cost : Nat]]
  BY <1>1 DEF TypeOK
<1>3. \A m \in Month : Fine(month[m]) /\ Within(month[m].peak, month[m].peak)
  BY <1>1, SameKeeps DEF Keeps
<1>4. CASE Quiet
  BY <1>2, <1>4 DEF Quiet, Keeps, Rows
<1>5. ASSUME NEW m \in Month, Holding(m)
      PROVE  /\ month' \in [Month -> MonthRow]
             /\ res' \in [Call -> Reservation]
             /\ ledger' = ledger
             /\ Rows'
             /\ \A n \in Month : (month[n].present => month'[n].present) /\ Within(month[n].peak, month'[n].peak)
  <2>1. PICK hold \in Nat :
          /\ month' = [month EXCEPT ![m] = [RowToHold(m) EXCEPT !.reserved = @ + hold]]
          /\ res' = [res EXCEPT ![reserving[m].call] = [status |-> "reserved", month |-> m, hold |-> hold]]
          /\ ledger' = ledger
    BY <1>5 DEF Holding
  <2>2. /\ month'[m] \in MonthRow /\ month'[m].present /\ Fine(month'[m])
        /\ Within(month[m].peak, month'[m].peak)
        /\ \A n \in Month \ {m} : month'[n] = month[n]
    BY <1>1, <2>1, HoldingRow
  <2>3. month' = [n \in Month |-> month'[n]]
    BY <1>2, <2>1
  <2>4. month' \in [Month -> MonthRow]
    BY <1>2, <2>2, <2>3
  <2>5. [status |-> "reserved", month |-> m, hold |-> hold] \in Reservation
    BY DEF Reservation
  <2>6. res' \in [Call -> Reservation]
    BY <1>2, <2>1, <2>5
  <2>7. \A n \in Month : Fine(month'[n])
    BY <1>3, <2>2
  <2> QED
    BY <1>3, <2>1, <2>2, <2>4, <2>6, <2>7 DEF Rows
<1>6. ASSUME NEW m \in Month, Like(month'[m], m), Fine(month[m]),
             ~month[m].present => month'[m].used = 0 /\ month'[m].reserved = 0
      PROVE  Fine(month'[m])
  BY <1>6 DEF Like, Fine
<1>7. ASSUME NEW c \in Call, Settling(c)
      PROVE  /\ month' \in [Month -> MonthRow]
             /\ res' \in [Call -> Reservation]
             /\ ledger' \in [Call -> [rows : Nat, cost : Nat]]
             /\ Rows'
             /\ \A n \in Month : (month[n].present => month'[n].present) /\ Within(month[n].peak, month'[n].peak)
  <2> DEFINE m == res[c].month
  <2>1. /\ m \in Month /\ res[c].status = "reserved" /\ Like(month'[m], m)
        /\ \A n \in Month \ {m} : month'[n] = month[n]
        /\ month' \in [Month -> MonthRow]
    BY <1>1, <1>7, SettlingRow
  <2>2. \/ /\ res' = [res EXCEPT ![c].status = "released"]
           /\ ledger' = ledger
        \/ \E cost \in Nat :
             /\ res' = [res EXCEPT ![c].status = "finalized"]
             /\ ledger' = [ledger EXCEPT ![c] = [rows |-> @.rows + 1, cost |-> cost]]
    <3>1. LET k == res[c].month IN
          \/ /\ res' = [res EXCEPT ![c].status = "released"]
             /\ month'[k].used = month[k].used
             /\ ledger' = ledger
          \/ \E cost \in Nat :
               /\ res' = [res EXCEPT ![c].status = "finalized"]
               /\ month'[k].used = month[k].used + cost
               /\ ledger' = [ledger EXCEPT ![c] = [rows |-> @.rows + 1, cost |-> cost]]
      BY <1>1, <1>7, SettlingRow
    <3> QED
      BY <3>1
  <2>3. res' \in [Call -> Reservation]
    <3>1. PICK st \in {"released", "finalized"} : res' = [res EXCEPT ![c] = [res[c] EXCEPT !.status = st]]
      BY <2>2
    <3>2. [res[c] EXCEPT !.status = st] \in Reservation
      BY <1>2 DEF Reservation
    <3> QED
      BY <1>2, <3>1, <3>2
  <2>4. ledger' \in [Call -> [rows : Nat, cost : Nat]]
    BY <1>2, <2>2
  <2>5. month[m].present
    BY <1>1, <2>1 DEF Lines
  <2> HIDE DEF m
  <2>6. \A n \in Month : Fine(month'[n])
    BY <1>3, <1>6, <2>1, <2>5
  <2>7. \A n \in Month : (month[n].present => month'[n].present) /\ Within(month[n].peak, month'[n].peak)
    BY <1>3, <2>1 DEF Like
  <2> QED
    BY <2>1, <2>3, <2>4, <2>6, <2>7 DEF Rows
<1>8. CASE Sweeping
  <2>1. PICK batch \in SUBSET Call :
          /\ \A c \in batch : res[c].status = "reserved"
          /\ res' = [c \in Call |-> IF c \in batch THEN [res[c] EXCEPT !.status = "expired"] ELSE res[c]]
          /\ month' = [m \in Month |-> [month[m] EXCEPT !.reserved =
               Less(@, SumFunctionOnSet(Holds, {c \in batch : res[c].month = m}))]]
          /\ ledger' = ledger
    BY <1>8 DEF Sweeping
  <2>2. /\ month' \in [Month -> MonthRow]
        /\ \A m \in Month :
             LET swept == SumFunctionOnSet(Holds, {c \in batch : res[c].month = m}) IN
             /\ swept \in Nat /\ Like(month'[m], m) /\ month'[m].used = month[m].used
             /\ month'[m].reserved = Less(month[m].reserved, swept)
    BY <1>1, <2>1, SweepingRow
  <2>3. ASSUME NEW m \in Month
        PROVE  Fine(month'[m])
    <3> DEFINE swept == SumFunctionOnSet(Holds, {c \in batch : res[c].month = m})
    <3>1. /\ swept \in Nat /\ Like(month'[m], m) /\ month'[m].used = month[m].used
          /\ month'[m].reserved = Less(month[m].reserved, swept)
      BY <2>2
    <3> HIDE DEF swept
    <3>2. ~month[m].present => month[m].used = 0 /\ month[m].reserved = 0
      BY <1>3 DEF Fine
    <3>3. Less(0, swept) = 0
      BY <3>1 DEF Less
    <3> QED
      BY <1>3, <1>6, <3>1, <3>2, <3>3
  <2>4. res' \in [Call -> Reservation]
    <3>1. ASSUME NEW c \in Call
          PROVE  [res[c] EXCEPT !.status = "expired"] \in Reservation
      BY <1>2 DEF Reservation
    <3> QED
      BY <1>2, <2>1, <3>1
  <2>5. \A m \in Month : Like(month'[m], m)
    BY <2>2
  <2>6. \A n \in Month : (month[n].present => month'[n].present) /\ Within(month[n].peak, month'[n].peak)
    BY <1>3, <2>5 DEF Like
  <2> QED
    BY <1>2, <2>1, <2>2, <2>3, <2>4, <2>6 DEF Rows
<1> QED
  BY <1>2, <1>4, <1>5, <1>7, <1>8, StepKinds

-----------------------------------------------------------------------------
(* Types and lines *)

(* A transaction in progress is of a call. *)
LEMMA InProgress ==
  ASSUME TypeOK, Lines, NEW m \in Month, reserving[m].call # None
  PROVE  reserving[m].call \in Call /\ call[reserving[m].call] = "reserving"
BY DEF TypeOK, Reserving, Lines

LEMMA TypeStep ==
  ASSUME Sound, [Next]_vars
  PROVE  TypeOK' /\ Known'
<1> USE DEF Sound
<1>0. /\ month' \in [Month -> MonthRow]
      /\ res' \in [Call -> Reservation]
      /\ ledger' \in [Call -> [rows : Nat, cost : Nat]]
  BY RowsStep
<1> USE DEF TypeOK, Known
<1>1. ASSUME NEW c \in Call, NEW p \in Process, ReserveStart(c, p)
      PROVE  TypeOK' /\ Known'
  <2> DEFINE entry == IF now \in ensured[p] \/ month[now].present
                      THEN [Free EXCEPT !.call = c, !.proc = p]
                      ELSE [call |-> c, proc |-> p, plan |-> plan, budget |-> BudgetOf(now)]
  <2>1. entry \in Reserving
    <3>1. BudgetOf(now) \in Nat \cup {Unlimited}
      BY RateType DEF Money
    <3> QED
      BY <3>1 DEF Reserving, Free
  <2>2. reserving' = [reserving EXCEPT ![now] = entry]
    BY <1>1 DEF ReserveStart
  <2> HIDE DEF entry
  <2>3. reserving' \in [Month -> Reserving]
    BY <2>1, <2>2
  <2>4. ensured' \in [Process -> SUBSET Month] /\ call' \in [Call -> CallPhase]
    BY <1>1 DEF ReserveStart, CallPhase
  <2> QED
    BY <1>0, <1>1, <2>3, <2>4 DEF ReserveStart
<1>2. ASSUME NEW c \in Call, CallEnds(c)
      PROVE  TypeOK' /\ Known'
  <2>1. call' \in [Call -> CallPhase] /\ spent' \subseteq Call
    BY <1>2 DEF CallEnds, CallPhase
  <2> QED
    BY <1>0, <1>2, <2>1 DEF CallEnds
<1>3. ASSUME NEW c \in Call, FinalizeAnswer(c) \/ FinalizeBilled(c) \/ ReleaseFailed(c) \/ CallLost(c) \/ Reconcile(c)
      PROVE  TypeOK' /\ Known'
  <2>1. call' \in [Call -> CallPhase] /\ UNCHANGED <<now, plan, rate, ensured, reserving, spent, admin, changes>>
    BY <1>3 DEF FinalizeAnswer, FinalizeBilled, ReleaseFailed, CallLost, Reconcile, CallPhase
  <2> QED
    BY <1>0, <2>1
<1>4. ASSUME NEW m \in Month, ReserveCommit(m) \/ ReserveRefused(m) \/ ReserveAborts(m)
      PROVE  TypeOK' /\ Known'
  <2>1. /\ UNCHANGED <<now, plan, rate, ensured, spent, admin, changes>>
        /\ reserving' = [reserving EXCEPT ![m] = Free]
        /\ \E ph \in CallPhase : call' = [call EXCEPT ![reserving[m].call] = ph]
    BY <1>4 DEF ReserveCommit, ReserveRefused, ReserveAborts, CallPhase
  <2>2. reserving' \in [Month -> Reserving] /\ call' \in [Call -> CallPhase]
    BY <2>1, AbsentType
  <2> QED
    BY <1>0, <2>1, <2>2
<1>5. ASSUME NEW m \in Month, SetRate(m)
      PROVE  TypeOK' /\ Known'
  <2>1. PICK r \in Rate : rate' = [rate EXCEPT ![m] = r]
    BY <1>5 DEF SetRate
  <2>2. rate' \in [Month -> Rate \cup {None}] /\ rate'[1] # None
    <3>1. 1 \in Month
      BY BudgetAssumption DEF Month
    <3> QED
      BY <2>1, <3>1, BudgetAssumption
  <2>3. admin' \in [kind : {"none", "plan", "rate"}, from : Month] /\ changes' \in 0..MaxChanges
    BY <1>5, BudgetAssumption DEF SetRate
  <2> QED
    BY <1>0, <1>5, <2>2, <2>3 DEF SetRate
<1>6. ASSUME NEW batch \in SUBSET Call, Expire(batch)
      PROVE  TypeOK' /\ Known'
  BY <1>0, <1>6 DEF Expire
<1>7. ASSUME NEW p \in Process, EnsureMonth(p) \/ Restart(p) \/ RecomputePlan(p)
      PROVE  TypeOK' /\ Known'
  <2>1. ensured' \in [Process -> SUBSET Month]
    BY <1>7 DEF EnsureMonth, Restart, RecomputePlan
  <2>2. admin' \in [kind : {"none", "plan", "rate"}, from : Month]
    BY <1>7 DEF EnsureMonth, Restart, RecomputePlan
  <2> QED
    BY <1>0, <1>7, <2>1, <2>2 DEF EnsureMonth, Restart, RecomputePlan
<1>8. ASSUME MonthTurns \/ SetPlan \/ RecomputeRate
      PROVE  TypeOK' /\ Known'
  <2>1. now' \in Month
    BY <1>8, BudgetAssumption DEF MonthTurns, SetPlan, RecomputeRate, Month
  <2>2. plan' \in Plan /\ changes' \in 0..MaxChanges
    BY <1>8, BudgetAssumption DEF MonthTurns, SetPlan, RecomputeRate
  <2>3. admin' \in [kind : {"none", "plan", "rate"}, from : Month]
    BY <1>8 DEF MonthTurns, SetPlan, RecomputeRate
  <2> QED
    BY <1>0, <1>8, <2>1, <2>2, <2>3 DEF MonthTurns, SetPlan, RecomputeRate
<1>9. ASSUME UNCHANGED vars
      PROVE  TypeOK' /\ Known'
  BY <1>9 DEF vars
<1> QED
  BY <1>1, <1>2, <1>3, <1>4, <1>5, <1>6, <1>7, <1>8, <1>9 DEF Next

(* A call becomes "reserving" only from "idle", and stays there until its  *)
(* transaction ends.                                                       *)
LEMMA ReservingStep ==
  ASSUME Sound, [Next]_vars
  PROVE  /\ \A m \in Month : reserving'[m].call # None => call'[reserving'[m].call] = "reserving"
         /\ \A m, n \in Month : reserving'[m].call # None /\ reserving'[m].call = reserving'[n].call => m = n
         /\ \A c \in Call : call'[c] \in {"idle", "reserving"} => call[c] \in {"idle", "reserving"}
<1> USE DEF Sound
<1> DEFINE Goal == /\ \A m \in Month : reserving'[m].call # None => call'[reserving'[m].call] = "reserving"
                   /\ \A m, n \in Month : reserving'[m].call # None /\ reserving'[m].call = reserving'[n].call => m = n
                   /\ \A c \in Call : call'[c] \in {"idle", "reserving"} => call[c] \in {"idle", "reserving"}
<1>1. /\ call \in [Call -> CallPhase] /\ reserving \in [Month -> Reserving] /\ now \in Month
      /\ None \notin Call
  BY BudgetAssumption DEF TypeOK
<1>2. \A m \in Month : reserving[m].call # None =>
        reserving[m].call \in Call /\ call[reserving[m].call] = "reserving"
  BY InProgress
<1>3. \A m, n \in Month : reserving[m].call # None /\ reserving[m].call = reserving[n].call => m = n
  BY DEF Lines
<1>4. ASSUME NEW c \in Call, NEW p \in Process, ReserveStart(c, p)
      PROVE  Goal
  <2>1. call[c] = "idle" /\ call' = [call EXCEPT ![c] = "reserving"]
    BY <1>4 DEF ReserveStart
  <2>2. \A m \in Month : IF m = now THEN reserving'[m].call = c ELSE reserving'[m] = reserving[m]
    BY <1>1, <1>4 DEF ReserveStart, Free
  <2>3. \A m \in Month : reserving[m].call # None => reserving[m].call # c
    BY <1>2, <2>1
  <2> QED
    BY <1>1, <1>2, <1>3, <2>1, <2>2, <2>3
<1>5. ASSUME NEW c \in Call, NEW ph \in CallPhase \ {"idle", "reserving"}, call[c] # "reserving",
             call' = [call EXCEPT ![c] = ph], reserving' = reserving
      PROVE  Goal
  BY <1>1, <1>2, <1>3, <1>5
<1>6. ASSUME NEW m \in Month, ReserveCommit(m) \/ ReserveRefused(m) \/ ReserveAborts(m)
      PROVE  Goal
  <2>1. /\ reserving' = [reserving EXCEPT ![m] = Free] /\ reserving[m].call # None
        /\ \E ph \in CallPhase \ {"idle", "reserving"} : call' = [call EXCEPT ![reserving[m].call] = ph]
    BY <1>6 DEF ReserveCommit, ReserveRefused, ReserveAborts, CallPhase
  <2>2. \A n \in Month : IF n = m THEN reserving'[n].call = None ELSE reserving'[n] = reserving[n]
    BY <1>1, <2>1, NoCallFree
  <2> QED
    BY <1>1, <1>2, <1>3, <2>1, <2>2
<1>7. UNCHANGED <<call, reserving>> => Goal
  BY <1>2, <1>3
<1>8. ASSUME NEW c \in Call, CallEnds(c) \/ FinalizeAnswer(c) \/ FinalizeBilled(c) \/ ReleaseFailed(c)
                             \/ CallLost(c) \/ Reconcile(c)
      PROVE  Goal
  <2>1. \/ /\ reserving' = reserving /\ call[c] # "reserving"
           /\ \E ph \in CallPhase \ {"idle", "reserving"} : call' = [call EXCEPT ![c] = ph]
        \/ UNCHANGED <<call, reserving>>
    BY <1>8 DEF CallEnds, FinalizeAnswer, FinalizeBilled, ReleaseFailed, CallLost, Reconcile, CallPhase
  <2> HIDE DEF Goal
  <2> QED
    BY <1>5, <1>7, <2>1
<1>9. ASSUME \/ \E m \in Month : SetRate(m)
             \/ \E batch \in SUBSET Call : Expire(batch)
             \/ \E p \in Process : EnsureMonth(p) \/ Restart(p) \/ RecomputePlan(p)
             \/ MonthTurns \/ SetPlan \/ RecomputeRate \/ UNCHANGED vars
      PROVE  UNCHANGED <<call, reserving>>
  BY <1>9 DEF SetRate, Expire, EnsureMonth, Restart, RecomputePlan, MonthTurns, SetPlan, RecomputeRate, vars
<1> HIDE DEF Goal
<1>10. Goal
  BY <1>4, <1>6, <1>7, <1>8, <1>9 DEF Next
<1> QED
  BY <1>10 DEF Goal

(* A reservation is made once, in a month that exists, and never leaves    *)
(* its month.                                                              *)
LEMMA LinesStep ==
  ASSUME Sound, [Next]_vars
  PROVE  Lines'
<1>1. TypeOK /\ Known /\ Lines /\ Rows /\ IsFiniteSet(Made)
  BY DEF Sound, Lines
<1>2. res \in [Call -> Reservation] /\ call \in [Call -> CallPhase]
  BY <1>1 DEF TypeOK
<1>3. \A m \in Month : month[m].present => month'[m].present
  BY RowsStep
<1>4. \A c \in Call : call'[c] \in {"idle", "reserving"} => call[c] \in {"idle", "reserving"}
  BY ReservingStep
<1>5. \A c \in Call : /\ call[c] \in {"idle", "reserving"} => res[c].status = "none"
                      /\ res[c].month \in Month
                      /\ res[c].status # "none" => month[res[c].month].present
  BY <1>1, <1>2 DEF Lines, Reservation
<1> DEFINE Goal == /\ \A c \in Call : call'[c] \in {"idle", "reserving"} => res'[c].status = "none"
                   /\ \A c \in Call : res'[c].status # "none" => month'[res'[c].month].present
                   /\ IsFiniteSet(Made')
<1>6. ASSUME \A c \in Call : res'[c].month = res[c].month /\ (res'[c].status = "none" <=> res[c].status = "none")
      PROVE  Goal
  <2>1. Made' = Made
    BY <1>6 DEF Made
  <2> QED
    BY <1>1, <1>3, <1>4, <1>5, <1>6, <2>1
<1>7. ASSUME Quiet
      PROVE  Goal
  <2>1. \A c \in Call : res'[c].month = res[c].month /\ (res'[c].status = "none" <=> res[c].status = "none")
    BY <1>7 DEF Quiet
  <2> QED
    BY <1>6, <2>1
<1>8. ASSUME NEW m \in Month, Holding(m)
      PROVE  Goal
  <2> DEFINE c == reserving[m].call
  <2>1. PICK hold \in Nat :
          /\ c \in Call
          /\ call[c] = "reserving"
          /\ month' = [month EXCEPT ![m] = [RowToHold(m) EXCEPT !.reserved = @ + hold]]
          /\ res' = [res EXCEPT ![c] = [status |-> "reserved", month |-> m, hold |-> hold]]
          /\ call' = [call EXCEPT ![c] = "calling"]
    BY <1>8 DEF Holding
  <2>2. month'[m].present
    BY <1>1, <2>1, HoldingRow
  <2> HIDE DEF c
  <2>3. \A d \in Call : IF d = c THEN res'[d].status = "reserved" /\ res'[d].month = m /\ call'[d] = "calling"
                        ELSE res'[d] = res[d]
    BY <1>2, <2>1
  <2>4. Made' = Made \cup {c}
    BY <2>1, <2>3 DEF Made
  <2>5. IsFiniteSet(Made')
    BY <1>1, <2>4, FS_AddElement
  <2> QED
    BY <1>3, <1>4, <1>5, <2>2, <2>3, <2>5
<1>9. ASSUME NEW c \in Call, Settling(c)
      PROVE  Goal
  <2>1. res[c].status = "reserved" /\ \E st \in {"released", "finalized"} : res' = [res EXCEPT ![c].status = st]
    BY <1>9 DEF Settling, Release, Finalize, Settleable
  <2>2. \A d \in Call : res'[d].month = res[d].month /\ (res'[d].status = "none" <=> res[d].status = "none")
    BY <1>2, <2>1 DEF Reservation
  <2> QED
    BY <1>6, <2>2
<1>10. ASSUME Sweeping
       PROVE  Goal
  <2>1. PICK batch \in SUBSET Call :
          /\ \A c \in batch : res[c].status = "reserved"
          /\ res' = [c \in Call |-> IF c \in batch THEN [res[c] EXCEPT !.status = "expired"] ELSE res[c]]
    BY <1>10 DEF Sweeping
  <2>2. \A d \in Call : res'[d].month = res[d].month /\ (res'[d].status = "none" <=> res[d].status = "none")
    BY <1>2, <2>1 DEF Reservation
  <2> QED
    BY <1>6, <2>2
<1> HIDE DEF Goal
<1>11. Goal
  BY <1>7, <1>8, <1>9, <1>10, StepKinds
<1> QED
  BY <1>11, ReservingStep DEF Goal, Lines

-----------------------------------------------------------------------------
(* The books *)

(* The sums of a month after a step, when no call of the month changed. *)
LEMMA SameBooks ==
  ASSUME Sound, NEW n \in Month,
         In(n, "reserved")' = In(n, "reserved"),
         In(n, "finalized")' = In(n, "finalized"),
         \A c \in In(n, "reserved") : Holds'[c] = Holds[c],
         \A c \in In(n, "finalized") : Costs'[c] = Costs[c],
         month'[n].reserved = month[n].reserved, month'[n].used = month[n].used
  PROVE  /\ month'[n].reserved = SumFunctionOnSet(Holds, In(n, "reserved"))'
         /\ month'[n].used = SumFunctionOnSet(Costs, In(n, "finalized"))'
<1>1. TypeOK /\ IsFiniteSet(Made)
  BY DEF Sound, Lines
<1>2. /\ month[n].reserved = SumFunctionOnSet(Holds, In(n, "reserved"))
      /\ month[n].used = SumFunctionOnSet(Costs, In(n, "finalized"))
  BY DEF Sound, BooksBalance
<1> DEFINE H == Holds
           H2 == Holds'
           C == Costs
           C2 == Costs'
           R == In(n, "reserved")
           F == In(n, "finalized")
<1>3. /\ IsFiniteSet(R) /\ (\A x \in R : H[x] \in Nat /\ H2[x] = H[x])
      /\ IsFiniteSet(F) /\ (\A x \in F : C[x] \in Nat /\ C2[x] = C[x])
  <2>1. R \subseteq Call /\ F \subseteq Call
    BY DEF In
  <2> QED
    BY <1>1, <2>1, Countable
<1>4. /\ SumFunctionOnSet(Holds, In(n, "reserved"))' = SumFunctionOnSet(H2, R)
      /\ SumFunctionOnSet(Costs, In(n, "finalized"))' = SumFunctionOnSet(C2, F)
  OBVIOUS
<1> HIDE DEF H, H2, C, C2, R, F
<1>5. SumFunctionOnSet(H2, R) = SumFunctionOnSet(H, R) /\ SumFunctionOnSet(C2, F) = SumFunctionOnSet(C, F)
  BY <1>3, SumSame
<1> QED
  BY <1>2, <1>4, <1>5 DEF H, C, R, F

LEMMA BooksQuiet ==
  ASSUME Sound, Quiet
  PROVE  BooksBalance'
<1>1. res' = res /\ ledger' = ledger
  BY DEF Quiet
<1>2. ASSUME NEW m \in Month
      PROVE  /\ month'[m].reserved = SumFunctionOnSet(Holds, In(m, "reserved"))'
             /\ month'[m].used = SumFunctionOnSet(Costs, In(m, "finalized"))'
  <2>1. /\ In(m, "reserved")' = In(m, "reserved") /\ In(m, "finalized")' = In(m, "finalized")
        /\ Holds' = Holds /\ Costs' = Costs
    BY <1>1 DEF In, Holds, Costs
  <2>2. month'[m].reserved = month[m].reserved /\ month'[m].used = month[m].used
    BY DEF Quiet, Keeps
  <2> QED
    BY <2>1, <2>2, SameBooks
<1> QED
  BY <1>1, <1>2 DEF BooksBalance, Sound

(* A new hold is added to the open reservations of its month. *)
LEMMA BooksHolding ==
  ASSUME Sound, NEW m \in Month, Holding(m)
  PROVE  BooksBalance'
<1> DEFINE c == reserving[m].call
<1>1. TypeOK /\ Known /\ Lines /\ Rows /\ BooksBalance /\ IsFiniteSet(Made)
  BY DEF Sound, Lines
<1>2. PICK hold \in Nat :
        /\ c \in Call
        /\ call[c] = "reserving"
        /\ month' = [month EXCEPT ![m] = [RowToHold(m) EXCEPT !.reserved = @ + hold]]
        /\ res' = [res EXCEPT ![c] = [status |-> "reserved", month |-> m, hold |-> hold]]
        /\ ledger' = ledger
  BY DEF Holding
<1>3. /\ month'[m].used = month[m].used /\ month'[m].reserved = month[m].reserved + hold
      /\ \A n \in Month \ {m} : month'[n] = month[n]
  BY <1>1, <1>2, HoldingRow
<1> HIDE DEF c
<1>4. res[c].status = "none" /\ res \in [Call -> Reservation]
  BY <1>1, <1>2 DEF Lines, TypeOK
<1>5. \A d \in Call : IF d = c THEN res'[d] = [status |-> "reserved", month |-> m, hold |-> hold]
                      ELSE res'[d] = res[d]
  BY <1>2, <1>4
<1>6. /\ \A n \in Month \ {m} : In(n, "reserved")' = In(n, "reserved")
      /\ \A n \in Month : In(n, "finalized")' = In(n, "finalized")
      /\ In(m, "reserved")' = In(m, "reserved") \cup {c}
      /\ \A n \in Month : c \notin In(n, "reserved")
  BY <1>2, <1>4, <1>5 DEF In
<1>7. /\ \A d \in Call \ {c} : Holds'[d] = Holds[d]
      /\ Holds'[c] = hold /\ Costs' = Costs
  BY <1>2, <1>5 DEF Holds, Costs
<1>8. \A n \in Month : In(n, "reserved") \subseteq Call
  BY DEF In
<1>9. ASSUME NEW n \in Month, n # m
      PROVE  /\ month'[n].reserved = SumFunctionOnSet(Holds, In(n, "reserved"))'
             /\ month'[n].used = SumFunctionOnSet(Costs, In(n, "finalized"))'
  BY <1>3, <1>6, <1>7, <1>8, <1>9, SameBooks
<1>10. month'[m].used = SumFunctionOnSet(Costs, In(m, "finalized"))'
  BY <1>1, <1>3, <1>6, <1>7 DEF BooksBalance
<1>11. month'[m].reserved = SumFunctionOnSet(Holds, In(m, "reserved"))'
  <2> DEFINE H == Holds
             H2 == Holds'
             R == In(m, "reserved")
  <2>1. IsFiniteSet(R) /\ (\A x \in R : H[x] \in Nat /\ H2[x] = H[x])
    BY <1>1, <1>6, <1>7, <1>8, Countable
  <2>2. SumFunctionOnSet(Holds, In(m, "reserved"))' = SumFunctionOnSet(H2, R \cup {c})
    BY <1>6
  <2>3. c \notin R /\ H2[c] = hold /\ month[m].reserved = SumFunctionOnSet(H, R)
    BY <1>1, <1>6, <1>7 DEF BooksBalance
  <2> HIDE DEF H, H2, R
  <2>4. SumFunctionOnSet(H2, R) = SumFunctionOnSet(H, R)
    BY <2>1, SumSame
  <2>5. SumFunctionOnSet(H2, R \cup {c}) = SumFunctionOnSet(H2, R) + H2[c]
    BY <2>1, <2>3, SumAdd
  <2> QED
    BY <1>3, <2>2, <2>3, <2>4, <2>5
<1>12. \A d \in Call : ledger'[d].rows = IF res'[d].status = "finalized" THEN 1 ELSE 0
  BY <1>1, <1>2, <1>4, <1>5 DEF BooksBalance
<1> QED
  BY <1>9, <1>10, <1>11, <1>12 DEF BooksBalance

(* A settled hold leaves its month, no more and no less, and its cost is   *)
(* added once.                                                             *)
LEMMA BooksSettling ==
  ASSUME Sound, NEW c \in Call, Settling(c)
  PROVE  BooksBalance'
<1>1. TypeOK /\ BooksBalance /\ IsFiniteSet(Made)
  BY DEF Sound, Lines
<1>0. PICK m \in Month : m = res[c].month
  BY <1>1, SettlingRow
<1>2. /\ m \in Month /\ res[c].status = "reserved"
      /\ month'[m].reserved = Less(month[m].reserved, res[c].hold)
      /\ \A n \in Month \ {m} : month'[n] = month[n]
  BY <1>0, <1>1, SettlingRow
<1>3. \/ /\ res' = [res EXCEPT ![c].status = "released"]
         /\ month'[m].used = month[m].used
         /\ ledger' = ledger
      \/ \E cost \in Nat :
           /\ res' = [res EXCEPT ![c].status = "finalized"]
           /\ month'[m].used = month[m].used + cost
           /\ ledger' = [ledger EXCEPT ![c] = [rows |-> @.rows + 1, cost |-> cost]]
  BY <1>0, <1>1, SettlingRow
<1>4. res \in [Call -> Reservation] /\ ledger \in [Call -> [rows : Nat, cost : Nat]]
  BY <1>1 DEF TypeOK
<1>5. /\ res'[c].status \in {"released", "finalized"}
      /\ res'[c].status = "released" => month'[m].used = month[m].used /\ ledger' = ledger
      /\ res'[c].status = "finalized" =>
           /\ ledger'[c].cost \in Nat /\ month'[m].used = month[m].used + ledger'[c].cost
           /\ ledger'[c].rows = ledger[c].rows + 1
      /\ \A d \in Call : /\ res'[d].month = res[d].month /\ res'[d].hold = res[d].hold
                         /\ d # c => res'[d] = res[d] /\ ledger'[d] = ledger[d]
  BY <1>3, <1>4 DEF Reservation
<1>6. /\ \A n \in Month \ {m} : In(n, "reserved")' = In(n, "reserved") /\ In(n, "finalized")' = In(n, "finalized")
      /\ In(m, "reserved")' = In(m, "reserved") \ {c}
      /\ In(m, "finalized")' = IF res'[c].status = "finalized" THEN In(m, "finalized") \cup {c} ELSE In(m, "finalized")
      /\ c \in In(m, "reserved") /\ \A n \in Month : c \notin In(n, "finalized")
  <2>1. res[c].month = m /\ res'[c].month = m
    BY <1>0, <1>5
  <2>2. c \in In(m, "reserved") /\ \A n \in Month : c \notin In(n, "finalized")
    BY <1>2, <2>1 DEF In
  <2>3. ASSUME NEW n \in Month \ {m}
        PROVE  In(n, "reserved")' = In(n, "reserved") /\ In(n, "finalized")' = In(n, "finalized")
    BY <1>5, <2>1 DEF In
  <2>4. In(m, "reserved")' = In(m, "reserved") \ {c}
    BY <1>5, <2>1 DEF In
  <2>5. In(m, "finalized")' = IF res'[c].status = "finalized" THEN In(m, "finalized") \cup {c} ELSE In(m, "finalized")
    BY <1>2, <1>5, <2>1 DEF In
  <2> QED
    BY <2>2, <2>3, <2>4, <2>5
<1>7. Holds' = Holds /\ (\A d \in Call \ {c} : Costs'[d] = Costs[d]) /\ Costs'[c] = ledger'[c].cost
  BY <1>5 DEF Holds, Costs
<1>8. \A n \in Month : In(n, "reserved") \subseteq Call /\ In(n, "finalized") \subseteq Call
  BY DEF In
<1>9. ASSUME NEW n \in Month, n # m
      PROVE  /\ month'[n].reserved = SumFunctionOnSet(Holds, In(n, "reserved"))'
             /\ month'[n].used = SumFunctionOnSet(Costs, In(n, "finalized"))'
  BY <1>2, <1>6, <1>7, <1>8, <1>9, SameBooks
<1>10. month'[m].reserved = SumFunctionOnSet(Holds, In(m, "reserved"))'
  <2> DEFINE H == Holds
             R == In(m, "reserved")
  <2>1. IsFiniteSet(R) /\ (\A x \in R : H[x] \in Nat) /\ IsFiniteSet(R \ {c})
    BY <1>1, <1>2, <1>8, Countable, FS_RemoveElement
  <2>2. SumFunctionOnSet(Holds, In(m, "reserved"))' = SumFunctionOnSet(H, R \ {c})
    BY <1>6, <1>7
  <2>3. c \in R /\ H[c] = res[c].hold /\ month[m].reserved = SumFunctionOnSet(H, R)
    BY <1>1, <1>2, <1>6 DEF BooksBalance, Holds
  <2> HIDE DEF H, R
  <2>4. SumFunctionOnSet(H, R) = H[c] + SumFunctionOnSet(H, R \ {c})
    BY <2>1, <2>3, SumRemove
  <2>5. SumFunctionOnSet(H, R \ {c}) \in Nat /\ H[c] \in Nat
    BY <2>1, <2>3, SumType
  <2> QED
    BY <1>2, <2>2, <2>3, <2>4, <2>5 DEF Less
<1>11. month'[m].used = SumFunctionOnSet(Costs, In(m, "finalized"))'
  <2> DEFINE C == Costs
             C2 == Costs'
             F == In(m, "finalized")
  <2>1. IsFiniteSet(F) /\ (\A x \in F : C[x] \in Nat /\ C2[x] = C[x])
    BY <1>1, <1>2, <1>6, <1>7, <1>8, Countable
  <2>2. SumFunctionOnSet(Costs, In(m, "finalized"))' =
          IF res'[c].status = "finalized" THEN SumFunctionOnSet(C2, F \cup {c}) ELSE SumFunctionOnSet(C2, F)
    BY <1>6
  <2>3. c \notin F /\ C2[c] = ledger'[c].cost /\ month[m].used = SumFunctionOnSet(C, F)
    BY <1>1, <1>2, <1>6, <1>7 DEF BooksBalance
  <2> HIDE DEF C, C2, F
  <2>4. SumFunctionOnSet(C2, F) = SumFunctionOnSet(C, F)
    BY <2>1, SumSame
  <2>5. CASE res'[c].status = "finalized"
    <3>1. C2[c] \in Nat
      BY <1>5, <2>3, <2>5
    <3>2. SumFunctionOnSet(C2, F \cup {c}) = SumFunctionOnSet(C2, F) + C2[c]
      BY <2>1, <2>3, <3>1, SumAdd
    <3> QED
      BY <1>5, <2>2, <2>3, <2>4, <2>5, <3>2
  <2>6. CASE res'[c].status # "finalized"
    BY <1>5, <2>2, <2>3, <2>4, <2>6
  <2> QED
    BY <2>5, <2>6
<1>12. \A d \in Call : ledger'[d].rows = IF res'[d].status = "finalized" THEN 1 ELSE 0
  <2>1. \A d \in Call : ledger[d].rows = IF res[d].status = "finalized" THEN 1 ELSE 0
    BY <1>1 DEF BooksBalance
  <2>2. ledger[c].rows = 0
    BY <1>2, <2>1
  <2> QED
    BY <1>5, <2>1, <2>2
<1> QED
  BY <1>9, <1>10, <1>11, <1>12 DEF BooksBalance

(* An expired batch takes from each month the holds it had there. *)
LEMMA BooksSweeping ==
  ASSUME Sound, Sweeping
  PROVE  BooksBalance'
<1>1. TypeOK /\ BooksBalance /\ IsFiniteSet(Made)
  BY DEF Sound, Lines
<1>2. PICK batch \in SUBSET Call :
        /\ \A c \in batch : res[c].status = "reserved"
        /\ res' = [c \in Call |-> IF c \in batch THEN [res[c] EXCEPT !.status = "expired"] ELSE res[c]]
        /\ month' = [m \in Month |-> [month[m] EXCEPT !.reserved =
             Less(@, SumFunctionOnSet(Holds, {c \in batch : res[c].month = m}))]]
        /\ ledger' = ledger
  BY DEF Sweeping
<1>3. \A m \in Month :
        LET swept == SumFunctionOnSet(Holds, {c \in batch : res[c].month = m}) IN
        /\ month'[m].used = month[m].used
        /\ month'[m].reserved = Less(month[m].reserved, swept)
  BY <1>1, <1>2, SweepingRow
<1>4. \A d \in Call : /\ res'[d].month = res[d].month /\ res'[d].hold = res[d].hold
                      /\ res'[d].status = IF d \in batch THEN "expired" ELSE res[d].status
  <2>1. res \in [Call -> Reservation]
    BY <1>1 DEF TypeOK
  <2> QED
    BY <1>2, <2>1 DEF Reservation
<1>5. Holds' = Holds /\ Costs' = Costs
  BY <1>2, <1>4 DEF Holds, Costs
<1>6. ASSUME NEW m \in Month
      PROVE  /\ month'[m].reserved = SumFunctionOnSet(Holds, In(m, "reserved"))'
             /\ month'[m].used = SumFunctionOnSet(Costs, In(m, "finalized"))'
  <2> DEFINE H == Holds
             R == In(m, "reserved")
             B == {c \in batch : res[c].month = m}
  <2>1. B \in SUBSET R /\ In(m, "reserved")' = R \ B /\ In(m, "finalized")' = In(m, "finalized")
    BY <1>2, <1>4 DEF In
  <2>2. month'[m].used = SumFunctionOnSet(Costs, In(m, "finalized"))'
    BY <1>1, <1>3, <1>5, <2>1 DEF BooksBalance
  <2>3. IsFiniteSet(R) /\ (\A x \in R : H[x] \in Nat)
    <3>1. R \subseteq Call
      BY DEF In
    <3> QED
      BY <1>1, <3>1, Countable
  <2>4. SumFunctionOnSet(Holds, In(m, "reserved"))' = SumFunctionOnSet(H, R \ B)
    BY <1>5, <2>1
  <2>5. month[m].reserved = SumFunctionOnSet(H, R) /\ month'[m].reserved = Less(month[m].reserved, SumFunctionOnSet(H, B))
    BY <1>1, <1>3 DEF BooksBalance
  <2> HIDE DEF H, R, B
  <2>6. SumFunctionOnSet(H, R) = SumFunctionOnSet(H, B) + SumFunctionOnSet(H, R \ B)
    BY <2>1, <2>3, SumSplit
  <2>7. IsFiniteSet(B) /\ IsFiniteSet(R \ B) /\ (\A x \in B : H[x] \in Nat) /\ (\A x \in R \ B : H[x] \in Nat)
    BY <2>1, <2>3, FS_Subset
  <2>8. SumFunctionOnSet(H, B) \in Nat /\ SumFunctionOnSet(H, R \ B) \in Nat
    BY <2>7, SumType
  <2>9. month'[m].reserved = SumFunctionOnSet(H, R \ B)
    BY <2>5, <2>6, <2>8 DEF Less
  <2> QED
    BY <2>2, <2>4, <2>9
<1>7. \A d \in Call : ledger'[d].rows = IF res'[d].status = "finalized" THEN 1 ELSE 0
  <2>1. \A d \in Call : ledger[d].rows = IF res[d].status = "finalized" THEN 1 ELSE 0
    BY <1>1 DEF BooksBalance
  <2> QED
    BY <1>2, <1>4, <2>1
<1> QED
  BY <1>6, <1>7 DEF BooksBalance

-----------------------------------------------------------------------------
(* The inductive invariant holds *)

LEMMA InitSound ==
  ASSUME Init
  PROVE  Sound
<1>1. 1 \in Month
  BY BudgetAssumption DEF Month
<1>2. TypeOK
  <2>1. month \in [Month -> MonthRow] /\ reserving \in [Month -> Reserving]
    BY AbsentType DEF Init
  <2>2. rate \in [Month -> Rate \cup {None}]
    BY DEF Init
  <2>3. res \in [Call -> Reservation] /\ ledger \in [Call -> [rows : Nat, cost : Nat]]
    BY <1>1 DEF Init, Reservation
  <2>4. call \in [Call -> CallPhase] /\ changes \in 0..MaxChanges
    BY BudgetAssumption DEF Init, CallPhase
  <2> QED
    BY <1>1, <2>1, <2>2, <2>3, <2>4 DEF Init, TypeOK
<1>3. Known
  BY <1>1, BudgetAssumption DEF Init, Known
<1>4. Made = {} /\ \A m \in Month : In(m, "reserved") = {} /\ In(m, "finalized") = {}
  BY DEF Init, Made, In
<1>5. Lines
  <2>1. \A m \in Month : reserving[m].call = None
    BY NoCallFree DEF Init
  <2>2. \A c \in Call : res[c].status = "none"
    BY DEF Init
  <2> QED
    BY <1>4, <2>1, <2>2, FS_EmptySet DEF Lines
<1>6. \A m \in Month : /\ ~month[m].present /\ month[m].used = 0 /\ month[m].reserved = 0
                       /\ month[m].peak = 0 /\ month[m].budget = 0
  BY DEF Init, Absent
<1>7. Rows
  BY <1>6, BudgetAssumption DEF Rows, Fine
<1>8. BooksBalance
  <2>1. \A m \in Month : /\ month[m].reserved = SumFunctionOnSet(Holds, In(m, "reserved"))
                         /\ month[m].used = SumFunctionOnSet(Costs, In(m, "finalized"))
    BY <1>4, <1>6, SumEmpty
  <2>2. \A c \in Call : ledger[c].rows = 0 /\ res[c].status = "none"
    BY DEF Init
  <2> QED
    BY <2>1, <2>2 DEF BooksBalance
<1> QED
  BY <1>2, <1>3, <1>5, <1>7, <1>8 DEF Sound

LEMMA SoundStep ==
  ASSUME Sound, [Next]_vars
  PROVE  Sound'
<1>1. TypeOK' /\ Known'
  BY TypeStep
<1>2. Lines'
  BY LinesStep
<1>3. Rows'
  BY RowsStep
<1>4. BooksBalance'
  BY StepKinds, BooksQuiet, BooksHolding, BooksSettling, BooksSweeping
<1> QED
  BY <1>1, <1>2, <1>3, <1>4 DEF Sound

LEMMA AlwaysSound == Spec => []Sound
BY InitSound, SoundStep, PTL DEF Spec

-----------------------------------------------------------------------------
(* Types and books *)

(* The variables keep their types: a granted hold, a settled cost and a    *)
(* recomputed budget of reserveTenantAiTokens, finalizeTenantAiTokens and  *)
(* recomputeCreditMonth stay amounts, and no reservation meets a missing   *)
(* month.                                                                  *)
THEOREM TypeCorrect == Spec => []TypeOK
<1>1. Sound => TypeOK
  BY DEF Sound
<1> QED
  BY <1>1, AlwaysSound, PTL

(* The books of every month balance: whatever the order in which calls are *)
(* finalized, released and expired by the sweeper, the hold of a month is  *)
(* the sum of its open reservations, its use the sum of its ledger rows,   *)
(* and a finalized call has one row.                                       *)
THEOREM Balanced == Spec => []BooksBalance
<1>1. Sound => BooksBalance
  BY DEF Sound
<1> QED
  BY <1>1, AlwaysSound, PTL

-----------------------------------------------------------------------------
(* The budget *)

Ordinary(m) == {c \in In(m, "reserved") \cup In(m, "finalized") : Kind[c] # "run"}

Shared ==
  \A m \in Month :
    LET total == SumFunctionOnSet(Shares, Ordinary(m))
    IN  total \in Nat /\ total <= month[m].reserved + month[m].used

(* The shares of the ordinary calls of a month are within its books. *)
LEMMA SharesInBooks == Sound => Shared
<1> SUFFICES ASSUME Sound, NEW m \in Month
             PROVE  /\ SumFunctionOnSet(Shares, Ordinary(m)) \in Nat
                    /\ SumFunctionOnSet(Shares, Ordinary(m)) <= month[m].reserved + month[m].used
  BY DEF Shared
<1> DEFINE H == Holds
           C == Costs
           S == Shares
           R == In(m, "reserved")
           F == In(m, "finalized")
           O == Ordinary(m)
<1>1. TypeOK /\ IsFiniteSet(Made) /\ BooksBalance
  BY DEF Sound, Lines
<1>2. /\ IsFiniteSet(R) /\ IsFiniteSet(F) /\ R \subseteq Call /\ F \subseteq Call
      /\ \A x \in Call : H[x] \in Nat /\ C[x] \in Nat /\ S[x] \in Nat
  <2>1. R \subseteq Call /\ F \subseteq Call
    BY DEF In
  <2> QED
    BY <1>1, <2>1, Countable
<1>3. (\A x \in R : S[x] <= H[x]) /\ (\A x \in F : S[x] <= C[x])
  <2>1. \A x \in Call : res[x].hold \in Nat /\ ledger[x].cost \in Nat
    BY <1>1 DEF TypeOK, Reservation
  <2>2. (\A x \in R : res[x].status = "reserved") /\ (\A x \in F : res[x].status = "finalized")
    BY DEF In
  <2> QED
    BY <1>2, <2>1, <2>2 DEF Shares, Holds, Costs
<1>4. month[m].reserved = SumFunctionOnSet(H, R) /\ month[m].used = SumFunctionOnSet(C, F)
  BY <1>1 DEF BooksBalance
<1>5. O \subseteq R \cup F /\ R \cap F = {}
  BY DEF Ordinary, In
<1> HIDE DEF H, C, S, R, F, O
<1>6. O \cap R \in SUBSET R /\ O \ R \in SUBSET F /\ O \cap R \in SUBSET O /\ O \ (O \cap R) = O \ R
      /\ O \subseteq Call
  BY <1>2, <1>5
<1>7. IsFiniteSet(O)
  <2>1. IsFiniteSet(R \cup F)
    BY <1>2, FS_Union
  <2> QED
    BY <1>5, <2>1, FS_Subset
<1>8. SumFunctionOnSet(S, O \cap R) <= SumFunctionOnSet(H, R)
  BY <1>2, <1>3, <1>6, SumShrinks
<1>9. SumFunctionOnSet(S, O \ R) <= SumFunctionOnSet(C, F)
  BY <1>2, <1>3, <1>6, SumShrinks
<1>10. SumFunctionOnSet(S, O) = SumFunctionOnSet(S, O \cap R) + SumFunctionOnSet(S, O \ R)
  BY <1>2, <1>6, <1>7, SumSplit
<1>11. /\ SumFunctionOnSet(S, O \cap R) \in Nat /\ SumFunctionOnSet(S, O \ R) \in Nat
       /\ SumFunctionOnSet(H, R) \in Nat /\ SumFunctionOnSet(C, F) \in Nat
  <2>1. IsFiniteSet(O \cap R) /\ IsFiniteSet(O \ R)
    BY <1>7, FS_Subset
  <2> QED
    BY <1>2, <1>6, <2>1, SumType
<1>12. SumFunctionOnSet(S, O) \in Nat /\ SumFunctionOnSet(S, O) <= SumFunctionOnSet(H, R) + SumFunctionOnSet(C, F)
  BY <1>8, <1>9, <1>10, <1>11
<1> QED
  BY <1>4, <1>12 DEF S, O

LEMMA SharesInBooksNext == Sound' => Shared'
BY SharesInBooks, PTL

(* A month stays within its peak when its ordinary calls are no more and   *)
(* share no more.                                                          *)
LEMMA SharesShrink ==
  ASSUME Sound, WithinBudget, NEW n \in Month, month'[n] \in MonthRow,
         Within(month[n].peak, month'[n].peak),
         Ordinary(n)' \subseteq Ordinary(n),
         \A x \in Ordinary(n)' : Shares'[x] \in Nat /\ Shares'[x] <= Shares[x]
  PROVE  month'[n].peak = Unlimited \/ SumFunctionOnSet(Shares, Ordinary(n))' <= month'[n].peak
<1> DEFINE S == Shares
           S2 == Shares'
           O == Ordinary(n)
           O2 == Ordinary(n)'
<1>1. TypeOK /\ IsFiniteSet(Made)
  BY DEF Sound, Lines
<1>2. IsFiniteSet(O) /\ \A x \in O : S[x] \in Nat
  <2>1. O \in SUBSET Made /\ O \subseteq Call
    BY DEF Ordinary, In, Made
  <2> QED
    BY <1>1, <2>1, Countable
<1>3. month[n].peak = Unlimited \/ SumFunctionOnSet(S, O) <= month[n].peak
  BY DEF WithinBudget, Ordinary
<1>4. SumFunctionOnSet(Shares, Ordinary(n))' = SumFunctionOnSet(S2, O2)
  OBVIOUS
<1>5. O2 \in SUBSET O /\ \A x \in O2 : S2[x] \in Nat /\ S2[x] <= S[x]
  OBVIOUS
<1> HIDE DEF S, S2, O, O2
<1>6. SumFunctionOnSet(S2, O2) <= SumFunctionOnSet(S, O)
  BY <1>2, <1>5, SumShrinks
<1>7. SumFunctionOnSet(S, O) \in Nat /\ SumFunctionOnSet(S2, O2) \in Nat
  <2>1. IsFiniteSet(O2)
    BY <1>2, <1>5, FS_Subset
  <2> QED
    BY <1>2, <1>5, <2>1, SumType
<1>8. month[n].peak \in Nat \cup {Unlimited} /\ month'[n].peak \in Nat \cup {Unlimited}
  BY <1>1 DEF TypeOK, MonthRow
<1> QED
  BY <1>3, <1>4, <1>6, <1>7, <1>8 DEF Within

(* A reservation is granted out of what the budget of its month has left,  *)
(* and a settlement only gives back.                                       *)
LEMMA BudgetStep ==
  ASSUME Sound, WithinBudget, [Next]_vars
  PROVE  WithinBudget'
<1>1. TypeOK /\ Known /\ Lines /\ Rows /\ IsFiniteSet(Made)
  BY DEF Sound, Lines
<1>2. /\ month' \in [Month -> MonthRow]
      /\ \A n \in Month : Within(month[n].peak, month'[n].peak)
      /\ res' \in [Call -> Reservation]
      /\ ledger' \in [Call -> [rows : Nat, cost : Nat]]
  BY RowsStep
<1>3. Sound'
  BY SoundStep
<1>4. /\ res \in [Call -> Reservation]
      /\ \A d \in Call : /\ res[d].hold \in Nat /\ ledger[d].cost \in Nat
                         /\ res'[d].hold \in Nat /\ ledger'[d].cost \in Nat
  BY <1>1, <1>2 DEF TypeOK, Reservation
<1> DEFINE Ok(n) == month'[n].peak = Unlimited \/ SumFunctionOnSet(Shares, Ordinary(n))' <= month'[n].peak
<1>5. \A n \in Month : Ordinary(n)' \subseteq Call
  BY DEF Ordinary, In
<1>6. ASSUME NEW n \in Month,
             \A d \in Call : d \in Ordinary(n)' => d \in Ordinary(n) /\ Shares'[d] <= Shares[d]
      PROVE  Ok(n)
  <2>1. Ordinary(n)' \subseteq Ordinary(n)
    BY <1>5, <1>6
  <2>2. \A x \in Ordinary(n)' : Shares'[x] \in Nat /\ Shares'[x] <= Shares[x]
    <3>1. \A x \in Call : Shares'[x] \in Nat
      BY <1>4 DEF Shares
    <3> QED
      BY <1>5, <1>6, <3>1
  <2>3. month'[n] \in MonthRow /\ Within(month[n].peak, month'[n].peak)
    BY <1>2
  <2> QED
    BY <2>1, <2>2, <2>3, SharesShrink
<1>7. ASSUME NEW n \in Month, Quiet
      PROVE  Ok(n)
  <2>1. Ordinary(n)' = Ordinary(n) /\ Shares' = Shares
    BY <1>7 DEF Quiet, Ordinary, In, Shares
  <2>2. \A d \in Call : Shares[d] <= Shares[d]
    BY <1>4 DEF Shares
  <2> QED
    BY <1>6, <2>1, <2>2
<1>8. ASSUME NEW n \in Month, NEW m \in Month, Holding(m)
      PROVE  Ok(n)
  <2> DEFINE c == reserving[m].call
             row == RowToHold(m)
  <2>1. PICK hold \in Nat :
          /\ c \in Call
          /\ call[c] = "reserving"
          /\ Fits(c, row, hold)
          /\ month' = [month EXCEPT ![m] = [row EXCEPT !.reserved = @ + hold]]
          /\ res' = [res EXCEPT ![c] = [status |-> "reserved", month |-> m, hold |-> hold]]
          /\ ledger' = ledger
    BY <1>8 DEF Holding
  <2>2. /\ month'[m].used = month[m].used /\ month'[m].reserved = month[m].reserved + hold
        /\ month'[m].peak = row.peak
    BY <1>1, <2>1, HoldingRow
  <2>3. Keeps(row, m)
    BY <1>1, RowToHoldKeeps
  <2> HIDE DEF c, row
  <2>4. \A d \in Call : IF d = c THEN res'[d].status = "reserved" /\ res'[d].month = m ELSE res'[d] = res[d]
    BY <1>4, <2>1
  <2>5. CASE n = m /\ Kind[c] # "run"
    <3> DEFINE total == SumFunctionOnSet(Shares, Ordinary(m))'
    <3>1. total \in Nat /\ total <= month'[m].reserved + month'[m].used
      BY <1>3, SharesInBooksNext DEF Shared
    <3>2. total <= month[m].reserved + hold + month[m].used
      BY <2>2, <3>1
    <3>3. month[m].reserved \in Nat /\ month[m].used \in Nat
      BY <1>1 DEF TypeOK, MonthRow
    <3>4. /\ row.budget \in Nat \cup {Unlimited} /\ row.peak \in Nat \cup {Unlimited}
          /\ row.used = month[m].used /\ row.reserved = month[m].reserved
          /\ row.peak # Unlimited => row.budget # Unlimited /\ row.budget <= row.peak
      BY <2>3 DEF Keeps, MonthRow, Fine
    <3>5. row.budget = Unlimited \/ row.budget - row.used - row.reserved >= hold
      BY <2>1, <2>5 DEF Fits
    <3> HIDE DEF total
    <3>7. row.peak = Unlimited \/ total <= row.peak
      BY <3>1, <3>2, <3>3, <3>4, <3>5
    <3> QED
      BY <2>2, <2>5, <3>7 DEF total
  <2>6. CASE ~(n = m /\ Kind[c] # "run")
    <3>1. \A d \in Call : d \in Ordinary(n)' => d # c
      BY <2>1, <2>4, <2>6 DEF Ordinary, In
    <3>2. \A d \in Call : d # c => Shares'[d] = Shares[d] /\ Shares[d] <= Shares[d] /\ (d \in Ordinary(n)' => d \in Ordinary(n))
      BY <1>4, <2>1, <2>4 DEF Ordinary, In, Shares
    <3> QED
      BY <1>6, <3>1, <3>2
  <2> QED
    BY <2>5, <2>6
<1>9. ASSUME NEW n \in Month, NEW c \in Call, Settling(c)
      PROVE  Ok(n)
  <2>1. /\ res[c].status = "reserved"
        /\ \E st \in {"released", "finalized"} : res' = [res EXCEPT ![c].status = st]
        /\ \A d \in Call : d # c => ledger'[d] = ledger[d]
    <3>1. ledger \in [Call -> [rows : Nat, cost : Nat]]
      BY <1>1 DEF TypeOK
    <3> QED
      BY <1>9, <3>1 DEF Settling, Release, Finalize, Settleable
  <2>2. \A d \in Call : /\ res'[d].month = res[d].month /\ res'[d].hold = res[d].hold
                        /\ d # c => res'[d] = res[d]
    BY <1>4, <2>1 DEF Reservation
  <2>3. \A d \in Call : d \in Ordinary(n)' => d \in Ordinary(n)
    BY <2>1, <2>2 DEF Ordinary, In
  <2>4. \A d \in Call : Shares'[d] <= Shares[d]
    <3>1. \A d \in Call : d # c => Shares'[d] <= Shares[d]
      BY <1>4, <2>1, <2>2 DEF Shares
    <3>2. Shares'[c] <= Shares[c]
      BY <1>4, <2>1, <2>2 DEF Shares
    <3> QED
      BY <3>1, <3>2
  <2> QED
    BY <1>6, <2>3, <2>4
<1>10. ASSUME NEW n \in Month, Sweeping
       PROVE  Ok(n)
  <2>1. PICK batch \in SUBSET Call :
          /\ res' = [c \in Call |-> IF c \in batch THEN [res[c] EXCEPT !.status = "expired"] ELSE res[c]]
          /\ ledger' = ledger
    BY <1>10 DEF Sweeping
  <2>2. \A d \in Call : /\ d \in batch => res'[d].status = "expired"
                        /\ d \notin batch => res'[d] = res[d]
    BY <1>4, <2>1 DEF Reservation
  <2>3. \A d \in Call : d \in Ordinary(n)' => d \in Ordinary(n) /\ d \notin batch
    BY <2>2 DEF Ordinary, In
  <2>4. \A d \in Call : d \notin batch => Shares'[d] <= Shares[d]
    BY <1>4, <2>1, <2>2 DEF Shares
  <2> QED
    BY <1>6, <2>3, <2>4
<1> HIDE DEF Ok
<1>11. \A n \in Month : Ok(n)
  BY <1>7, <1>8, <1>9, <1>10, StepKinds
<1> QED
  BY <1>11 DEF Ok, WithinBudget, Ordinary

(* Concurrent reservations never hold more than the budget: the open holds *)
(* of a month's ordinary calls, and what they cost up to their hold, stay  *)
(* within its highest budget, whatever plans, rates and processes do       *)
(* between the check of reserveCreditUsd and the settlement.               *)
THEOREM BudgetHolds == Spec => []WithinBudget
<1>1. Init => WithinBudget
  <2> SUFFICES ASSUME Init
               PROVE  WithinBudget
    OBVIOUS
  <2>1. \A m \in Month : Ordinary(m) = {} /\ month[m].peak = 0
    BY DEF Init, Ordinary, In, Absent
  <2>2. \A m \in Month : SumFunctionOnSet(Shares, Ordinary(m)) <= month[m].peak
    BY <2>1, SumEmpty
  <2> QED
    BY <2>2 DEF WithinBudget, Ordinary
<1>2. Sound /\ WithinBudget /\ [Next]_vars => WithinBudget'
  BY BudgetStep
<1> QED
  BY <1>1, <1>2, AlwaysSound, PTL DEF Spec

-----------------------------------------------------------------------------
(* Refusals *)

(* Only reserveTenantAiTokens refuses a call, in the month that the call   *)
(* has locked.                                                             *)
LEMMA RefusedByItsMonth ==
  ASSUME TypeOK, Lines, Next, NEW m \in Month, NEW c \in Call,
         reserving[m].call = c, call'[c] = "refused"
  PROVE  ReserveRefused(m)
<1>1. c # None /\ call[c] = "reserving" /\ call \in [Call -> CallPhase]
  BY BudgetAssumption, InProgress DEF TypeOK
<1>2. ASSUME NEW n \in Month, ReserveRefused(n)
      PROVE  n = m
  <2>1. reserving[n].call # None /\ call' = [call EXCEPT ![reserving[n].call] = "refused"]
    BY <1>2 DEF ReserveRefused
  <2>2. c = reserving[n].call
    BY <1>1, <2>1
  <2> QED
    BY <1>1, <2>2 DEF Lines
<1>3. ASSUME NEW n \in Month, ReserveCommit(n) \/ ReserveAborts(n) \/ SetRate(n)
      PROVE  FALSE
  <2>1. call' = call \/ \E d, ph : ph # "refused" /\ call' = [call EXCEPT ![d] = ph]
    BY <1>3 DEF ReserveCommit, ReserveAborts, SetRate
  <2> QED
    BY <1>1, <2>1
<1>4. ASSUME NEW d \in Call,
             \/ \E p \in Process : ReserveStart(d, p)
             \/ CallEnds(d) \/ FinalizeAnswer(d) \/ FinalizeBilled(d) \/ ReleaseFailed(d)
             \/ CallLost(d) \/ Reconcile(d)
      PROVE  FALSE
  <2>1. call' = call \/ \E ph : ph # "refused" /\ call' = [call EXCEPT ![d] = ph]
    BY <1>4 DEF ReserveStart, CallEnds, FinalizeAnswer, FinalizeBilled, ReleaseFailed, CallLost, Reconcile
  <2> QED
    BY <1>1, <2>1
<1>5. ASSUME \/ \E batch \in SUBSET Call : Expire(batch)
             \/ \E p \in Process : EnsureMonth(p) \/ Restart(p) \/ RecomputePlan(p)
             \/ MonthTurns \/ SetPlan \/ RecomputeRate
      PROVE  FALSE
  <2>1. call' = call
    BY <1>5 DEF Expire, EnsureMonth, Restart, RecomputePlan, MonthTurns, SetPlan, RecomputeRate
  <2> QED
    BY <1>1, <2>1
<1> QED
  BY <1>2, <1>3, <1>4, <1>5 DEF Next

(* The budget that reserveTenantAiTokens compares with: that of the month, *)
(* of the row it made, or of the row it makes again.                       *)
BudgetToHold(m) ==
  IF month[m].present THEN month[m].budget
  ELSE IF reserving[m].plan = None THEN BudgetOf(m)
  ELSE reserving[m].budget

LEMMA RowToHoldBudget ==
  ASSUME TypeOK, Known, NEW m \in Month
  PROVE  RowToHold(m).budget = BudgetToHold(m)
<1>1. reserving[m] \in Reserving /\ plan \in Plan
  BY DEF TypeOK
<1>2. BudgetOf(m) \in Money /\ reserving[m].budget \in Money /\ reserving[m].plan \in Plan \cup {None}
  BY <1>1, RateType DEF Reserving, Money
<1> QED
  BY <1>1, <1>2, NewMonthType DEF RowToHold, BudgetToHold

(* A call is refused (AI_CREDIT_LIMIT_REACHED) only when its least cost    *)
(* exceeds what the ledger and the open reservations of the month leave of *)
(* the budget: whatever was settled, released or expired before counts.    *)
THEOREM RefusedByTheBooks == Spec => RefusedWhenSpent
<1> DEFINE Left(m) == BudgetToHold(m) - SumFunctionOnSet(Costs, In(m, "finalized"))
                                      - SumFunctionOnSet(Holds, In(m, "reserved"))
           Fair == \A m \in Month : \A c \in Call :
             (reserving[m].call = c /\ call'[c] = "refused") =>
               LET budget == IF month[m].present THEN month[m].budget
                             ELSE IF reserving[m].plan = None THEN BudgetOf(m)
                             ELSE reserving[m].budget
               IN  /\ budget # Unlimited
                   /\ Least[c] > budget - SumFunctionOnSet(Costs, In(m, "finalized"))
                                        - SumFunctionOnSet(Holds, In(m, "reserved"))
<1>1. ASSUME Sound, Next
      PROVE  Fair
  <2> SUFFICES ASSUME NEW m \in Month, NEW c \in Call, reserving[m].call = c, call'[c] = "refused"
               PROVE  BudgetToHold(m) # Unlimited /\ Least[c] > Left(m)
    BY Zenon DEF BudgetToHold
  <2>1. ReserveRefused(m)
    BY <1>1, RefusedByItsMonth DEF Sound
  <2>2. ~Fits(c, RowToHold(m), Least[c])
    BY <2>1 DEF ReserveRefused, Grants
  <2> DEFINE row == RowToHold(m)
  <2>3. /\ row.budget = BudgetToHold(m)
        /\ row.used = SumFunctionOnSet(Costs, In(m, "finalized"))
        /\ row.reserved = SumFunctionOnSet(Holds, In(m, "reserved"))
    BY <1>1, RowToHoldBudget, RowToHoldKeeps DEF Sound, Keeps, BooksBalance
  <2>4. row.budget \in Money /\ row.used \in Nat /\ row.reserved \in Nat /\ Least[c] \in Nat
    <3>1. row \in MonthRow
      BY <1>1, RowToHoldKeeps DEF Sound, Keeps
    <3> QED
      BY <3>1, CallAssumption DEF MonthRow, Money
  <2>5. row.budget # Unlimited /\ ~(row.budget - row.used - row.reserved >= Least[c])
    BY <2>2 DEF Fits
  <2> HIDE DEF row
  <2>6. row.budget \in Nat /\ Least[c] > row.budget - row.used - row.reserved
    BY <2>4, <2>5 DEF Money
  <2> QED
    BY <2>3, <2>5, <2>6
<1>2. ASSUME Sound, [Next]_vars
      PROVE  [Fair]_vars
  BY <1>1, <1>2
<1>3. Sound /\ [Next]_vars => [Fair]_vars
  BY <1>2
<1>4. Spec => [][Fair]_vars
  <2> HIDE DEF Fair
  <2> QED
    BY <1>3, AlwaysSound, PTL DEF Spec
<1> QED
  BY <1>4 DEF RefusedWhenSpent

=============================================================================
