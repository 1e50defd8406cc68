------------------------------ MODULE AiCredit ------------------------------
(***************************************************************************)
(* The AI points of one tenant: calls reserve the most they can cost       *)
(* against the month's budget, then settle, release or expire, while       *)
(* superadmins change plans and exchange rates.                            *)
(*                                                                         *)
(* An action is one transaction or one autocommitted statement, except     *)
(* reserveTenantAiTokens, which has two steps: its uncommitted month row   *)
(* is invisible to superadmins.  It holds the lock on the monthly usage row*)
(* meanwhile, as finalize, release and expire must.  The token counters of *)
(* that row move with the USD of the credit row and are left out.          *)
(***************************************************************************)
EXTENDS Integers, FiniteSetsExt, Functions

CONSTANTS
  Call,       \* AI calls
  Kind,       \* Kind[c]: "chat", "long" (longRunning) or "run" (V2 task)
  Least,      \* Least[c], Most[c]: cost of minimumTokens and maximumTokens
  Most,
  Charge,     \* costs a settlement may find, 0 (unpriced) included
  Process,    \* server processes, each with its own `ensured` set
  Plan,       \* credit plans
  Rate,       \* exchange rates
  Worth,      \* Worth[<<plan, rate>>]: budget in USD, or Unlimited
  Unlimited,
  LastMonth,  \* bound: months 1..LastMonth
  MaxChanges, \* bound: month ends and changes the superadmin makes
  None

ASSUME CallAssumption ==
  /\ Kind \in [Call -> {"chat", "long", "run"}]
  /\ Least \in [Call -> Nat]
  /\ Most \in [Call -> Nat]
  /\ \A c \in Call : Least[c] <= Most[c]
  /\ Charge \subseteq Nat

ASSUME BudgetAssumption ==
  /\ Unlimited \notin Nat
  /\ Worth \in [Plan \X Rate -> Nat \cup {Unlimited}]
  /\ LastMonth \in Nat \ {0}
  /\ MaxChanges \in Nat
  /\ None \notin Call \cup Process \cup Plan \cup Rate

Month == 1..LastMonth

VARIABLES
  now,       \* the current month
  plan,      \* plan of the tenant's account
  rate,      \* rate[m]: ai_fx_rates row of m, or None
  month,     \* month[m]: ai_credit_monthly
  ensured,   \* ensured[p]: months process p believes to exist
  reserving, \* reserving[m]: the reserve transaction that holds m's lock
  res,       \* res[c]: ai_token_reservations
  ledger,    \* ledger[c]: charges in ai_token_usage_ledger, with their count
  call,      \* call[c]: where the caller stands
  spent,     \* calls the provider billed
  admin,     \* the change that still has to recompute months
  changes    \* number of month ends and changes so far

vars == <<now, plan, rate, month, ensured, reserving, res, ledger, call, spent, admin, changes>>

-----------------------------------------------------------------------------
(* State *)

(* peak: history, the highest budget so far. *)
MonthRow ==
  [present : BOOLEAN, plan : Plan \cup {None}, budget : Nat \cup {Unlimited},
   used : Nat, reserved : Nat, warned : SUBSET {80, 100}, peak : Nat \cup {Unlimited}]

Reservation ==
  [status : {"none", "reserved", "finalized", "released", "expired"},
   month : Month, hold : Nat]

(* draft: the plan and budget of the uncommitted month row, if it made one. *)
Reserving ==
  [call : Call \cup {None}, proc : Process \cup {None}, plan : Plan \cup {None},
   budget : Nat \cup {Unlimited}]

CallPhase ==
  {"idle", "reserving", "calling", "answered", "billed", "failed", "refused", "over"}

Free == [call |-> None, proc |-> None, plan |-> None, budget |-> 0]

Absent ==
  [present |-> FALSE, plan |-> None, budget |-> 0, used |-> 0, reserved |-> 0,
   warned |-> {}, peak |-> 0]

TypeOK ==
  /\ now \in Month
  /\ plan \in Plan
  /\ rate \in [Month -> Rate \cup {None}]
  /\ month \in [Month -> MonthRow]
  /\ ensured \in [Process -> SUBSET Month]
  /\ reserving \in [Month -> Reserving]
  /\ res \in [Call -> Reservation]
  /\ ledger \in [Call -> [rows : Nat, cost : Nat]]
  /\ call \in [Call -> CallPhase]
  /\ spent \subseteq Call
  /\ admin \in [kind : {"none", "plan", "rate"}, from : Month]
  /\ changes \in 0..MaxChanges

Init ==
  /\ now = 1
  /\ plan \in Plan
  /\ \E r \in Rate : rate = [m \in Month |-> IF m = 1 THEN r ELSE None]
  /\ month = [m \in Month |-> Absent]
  /\ ensured = [p \in Process |-> {}]
  /\ reserving = [m \in Month |-> Free]
  /\ res = [c \in Call |-> [status |-> "none", month |-> 1, hold |-> 0]]
  /\ ledger = [c \in Call |-> [rows |-> 0, cost |-> 0]]
  /\ call = [c \in Call |-> "idle"]
  /\ spent = {}
  /\ admin = [kind |-> "none", from |-> 1]
  /\ changes = 0

(* The rate of the latest month up to m that has one. *)
RateOf(m) == rate[CHOOSE n \in 1..m : rate[n] # None /\ \A k \in (n + 1)..m : rate[k] = None]

BudgetOf(m) == Worth[<<plan, RateOf(m)>>]

Higher(a, b) == IF a = Unlimited \/ b = Unlimited THEN Unlimited ELSE IF a > b THEN a ELSE b

NewMonth(p, budget) ==
  [Absent EXCEPT !.present = TRUE, !.plan = p, !.budget = budget, !.peak = budget]

(* ensureCreditMonth outside a transaction: process p creates the row of m *)
(* unless it remembers it; an uncommitted row of a reservation blocks the  *)
(* insert.                                                                 *)
CanEnsure(p, m) == m \in ensured[p] \/ month[m].present \/ reserving[m].plan = None

AfterEnsure(p, m) ==
  IF m \in ensured[p] \/ month[m].present THEN month[m] ELSE NewMonth(plan, BudgetOf(m))

-----------------------------------------------------------------------------
(* Reserving *)

(* reserveTenantAiTokens up to ensureCreditMonth: the lock on the monthly  *)
(* usage row, and the month row in the open transaction.  `ensured` is     *)
(* process memory and survives a rollback.                                 *)
ReserveStart(c, p) ==
  /\ call[c] = "idle"
  /\ reserving[now] = Free
  /\ reserving' = [reserving EXCEPT ![now] =
       IF now \in ensured[p] \/ month[now].present
       THEN [Free EXCEPT !.call = c, !.proc = p]
       ELSE [call |-> c, proc |-> p, plan |-> plan, budget |-> BudgetOf(now)]]
  /\ ensured' = [ensured EXCEPT ![p] = @ \cup {now}]
  /\ call' = [call EXCEPT ![c] = "reserving"]
  /\ UNCHANGED <<now, plan, rate, month, res, ledger, spent, admin, changes>>

(* Mutant: the open reservations are not counted. *)
FitsUsed(c, row, cost) ==
  \/ Kind[c] = "run"
  \/ row.budget = Unlimited
  \/ row.budget - row.used >= cost

Fits(c, row, cost) ==
  \/ Kind[c] = "run"
  \/ row.budget = Unlimited
  \/ row.budget - row.used - row.reserved >= cost

(* Mutant: a month remembered in error is not created again. *)
RowWithoutRetry(m) ==
  IF month[m].present THEN month[m]
  ELSE IF reserving[m].plan # None THEN NewMonth(reserving[m].plan, reserving[m].budget)
  ELSE [Absent EXCEPT !.budget = -1]

(* The row the hold is tried on: 'missing' forgets the month and ensures it*)
(* again.                                                                  *)
RowToHold(m) ==
  IF month[m].present THEN month[m]
  ELSE IF reserving[m].plan # None THEN NewMonth(reserving[m].plan, reserving[m].budget)
  ELSE NewMonth(plan, BudgetOf(m))

(* The full grant, else the minimum. *)
Grants(c, row) == {a \in {Least[c], Most[c]} : Fits(c, row, a)}

ReserveCommit(m) ==
  LET c == reserving[m].call
      row == RowToHold(m)
  IN
  /\ c # None
  /\ Grants(c, row) # {}
  /\ LET hold == Max(Grants(c, row)) IN
     /\ month' = [month EXCEPT ![m] = [row EXCEPT !.reserved = @ + hold]]
     /\ res' = [res EXCEPT ![c] = [status |-> "reserved", month |-> m, hold |-> hold]]
  /\ call' = [call EXCEPT ![c] = "calling"]
  /\ reserving' = [reserving EXCEPT ![m] = Free]
  /\ UNCHANGED <<now, plan, rate, ensured, ledger, spent, admin, changes>>

(* AI_CREDIT_LIMIT_REACHED: the transaction is rolled back. *)
ReserveRefused(m) ==
  LET c == reserving[m].call IN
  /\ c # None
  /\ Grants(c, RowToHold(m)) = {}
  /\ call' = [call EXCEPT ![c] = "refused"]
  /\ reserving' = [reserving EXCEPT ![m] = Free]
  /\ UNCHANGED <<now, plan, rate, month, ensured, res, ledger, spent, admin, changes>>

(* The transaction fails, as does the surrounding one of a V2 claim. *)
ReserveAborts(m) ==
  LET c == reserving[m].call IN
  /\ c # None
  /\ call' = [call EXCEPT ![c] = "over"]
  /\ reserving' = [reserving EXCEPT ![m] = Free]
  /\ UNCHANGED <<now, plan, rate, month, ensured, res, ledger, spent, admin, changes>>

-----------------------------------------------------------------------------
(* Settling: every update is conditional on status 'reserved' *)

(* Mutant: the status of the reservation is not checked. *)
AnyReservation(c) == res[c].status # "none" /\ reserving[res[c].month] = Free

Settleable(c) == res[c].status = "reserved" /\ reserving[res[c].month] = Free

Less(a, b) == IF a > b THEN a - b ELSE 0

(* markCreditThreshold: 100 before 80, one mark for each settlement. *)
Marked(row) ==
  [row EXCEPT !.warned = @ \cup
    IF row.budget = Unlimited \/ row.budget = 0 THEN {}
    ELSE IF row.used >= row.budget /\ 100 \notin row.warned THEN {100}
    ELSE IF 10 * row.used >= 8 * row.budget THEN {80}
    ELSE {}]

(* settleCreditUsd, then the threshold. *)
Charged(row, cost, hold) == Marked([row EXCEPT !.used = @ + cost, !.reserved = Less(@, hold)])

(* finalizeTenantAiTokens *)
Finalize(c, cost) ==
  /\ Settleable(c)
  /\ res' = [res EXCEPT ![c].status = "finalized"]
  /\ month' = [month EXCEPT ![res[c].month] = Charged(@, cost, res[c].hold)]
  /\ ledger' = [ledger EXCEPT ![c] = [rows |-> @.rows + 1, cost |-> cost]]

(* Mutant: the month keeps the hold of a released reservation. *)
ReleaseKeepsHold(c) ==
  /\ Settleable(c)
  /\ res' = [res EXCEPT ![c].status = "released"]
  /\ UNCHANGED <<month, ledger>>

(* releaseTenantAiTokenReservation *)
Release(c) ==
  /\ Settleable(c)
  /\ res' = [res EXCEPT ![c].status = "released"]
  /\ month' = [month EXCEPT ![res[c].month].reserved = Less(@, res[c].hold)]
  /\ UNCHANGED ledger

(* Mutant: the sweeper skips the reservations of an earlier month. *)
ExpirableNow(c) == Settleable(c) /\ Kind[c] = "chat" /\ res[c].month = now

(* reserved_cost of each reservation *)
Holds == [c \in Call |-> res[c].hold]

(* Durable reservations never expire. *)
Expirable(c) == Settleable(c) /\ Kind[c] = "chat"

(* expireTenantAiTokenReservations, a batch of reservations whose lifetime *)
(* has passed; the holds are summed for each month.                        *)
Expire(batch) ==
  /\ batch # {}
  /\ \A c \in batch : Expirable(c)
  /\ res' = [c \in Call |-> IF c \in batch THEN [res[c] EXCEPT !.status = "expired"] ELSE res[c]]
  /\ month' = [m \in Month |-> [month[m] EXCEPT !.reserved =
       Less(@, SumFunctionOnSet(Holds, {c \in batch : res[c].month = m}))]]
  /\ UNCHANGED <<now, plan, rate, ensured, reserving, ledger, call, spent, admin, changes>>

-----------------------------------------------------------------------------
(* The caller: withMeteredAiCall, or the V2 worker for kind "run" *)

CallEnds(c) ==
  /\ call[c] = "calling"
  /\ \E phase \in {"answered", "billed", "failed"} :
       /\ call' = [call EXCEPT ![c] = phase]
       /\ spent' \in {spent, spent \cup {c}}
       /\ phase # "failed" => c \in spent'
  /\ UNCHANGED <<now, plan, rate, month, ensured, reserving, res, ledger, admin, changes>>

(* Nothing to settle: the reservation is not 'reserved' any more. *)
Gone(c) == res[c].status # "reserved" /\ UNCHANGED <<res, month, ledger>>

(* finalize; when it throws the answer is kept and the reservation too. *)
FinalizeAnswer(c) ==
  /\ call[c] = "answered"
  /\ \/ \E cost \in Charge : Finalize(c, cost)
     \/ Gone(c)
     \/ UNCHANGED <<res, month, ledger>>
  /\ call' = [call EXCEPT ![c] = "over"]
  /\ UNCHANGED <<now, plan, rate, ensured, reserving, spent, admin, changes>>

(* BilledAiCallError: finalize, and release when that throws. *)
FinalizeBilled(c) ==
  /\ call[c] = "billed"
  /\ \/ /\ (\E cost \in Charge : Finalize(c, cost)) \/ Gone(c)
        /\ call' = [call EXCEPT ![c] = "over"]
     \/ /\ call' = [call EXCEPT ![c] = "failed"]
        /\ UNCHANGED <<res, month, ledger>>
  /\ UNCHANGED <<now, plan, rate, ensured, reserving, spent, admin, changes>>

(* release; an error is only logged. *)
ReleaseFailed(c) ==
  /\ call[c] = "failed"
  /\ Release(c) \/ Gone(c) \/ UNCHANGED <<res, month, ledger>>
  /\ call' = [call EXCEPT ![c] = "over"]
  /\ UNCHANGED <<now, plan, rate, ensured, reserving, spent, admin, changes>>

(* The process dies with the call in flight. *)
CallLost(c) ==
  /\ call[c] \in {"calling", "answered", "billed", "failed"}
  /\ call' = [call EXCEPT ![c] = "over"]
  /\ UNCHANGED <<now, plan, rate, month, ensured, reserving, res, ledger, spent, admin, changes>>

(* The V2 recovery settles what a lost call left: in full, or released when*)
(* it was never dispatched.                                                *)
Reconcile(c) ==
  /\ Kind[c] = "run"
  /\ call[c] = "over"
  /\ IF c \in spent THEN Finalize(c, res[c].hold) ELSE Finalize(c, res[c].hold) \/ Release(c)
  /\ UNCHANGED <<now, plan, rate, ensured, reserving, call, spent, admin, changes>>

-----------------------------------------------------------------------------
(* Months, plans and rates *)

(* A read path that ensures the current month. *)
EnsureMonth(p) ==
  /\ now \notin ensured[p]
  /\ CanEnsure(p, now)
  /\ month' = [month EXCEPT ![now] = AfterEnsure(p, now)]
  /\ ensured' = [ensured EXCEPT ![p] = @ \cup {now}]
  /\ UNCHANGED <<now, plan, rate, reserving, res, ledger, call, spent, admin, changes>>

MonthTurns ==
  /\ now < LastMonth
  /\ changes < MaxChanges
  /\ now' = now + 1
  /\ changes' = changes + 1
  /\ UNCHANGED <<plan, rate, month, ensured, reserving, res, ledger, call, spent, admin>>

(* A process restarts and forgets its months. *)
Restart(p) ==
  /\ ensured[p] # {}
  /\ \A m \in Month : reserving[m].proc # p
  /\ ensured' = [ensured EXCEPT ![p] = {}]
  /\ UNCHANGED <<now, plan, rate, month, reserving, res, ledger, call, spent, admin, changes>>

(* setTenantAiCreditPlan, updateAiCreditPlan: the write. *)
SetPlan ==
  /\ admin.kind = "none" /\ changes < MaxChanges
  /\ plan' \in Plan \ {plan}
  /\ admin' = [admin EXCEPT !.kind = "plan"]
  /\ changes' = changes + 1
  /\ UNCHANGED <<now, rate, month, ensured, reserving, res, ledger, call, spent>>

(* setAiFxRate: the write of the rate of m. *)
SetRate(m) ==
  /\ admin.kind = "none" /\ changes < MaxChanges
  /\ m <= now
  /\ \E r \in Rate \ {rate[m]} : rate' = [rate EXCEPT ![m] = r]
  /\ admin' = [kind |-> "rate", from |-> m]
  /\ changes' = changes + 1
  /\ UNCHANGED <<now, plan, month, ensured, reserving, res, ledger, call, spent>>

(* recomputeCreditMonth: usage and reservations are kept. *)
Recomputed(row, m) ==
  IF row.present
  THEN [row EXCEPT !.plan = plan, !.budget = BudgetOf(m), !.peak = Higher(@, BudgetOf(m))]
  ELSE row

(* Plan: the current month is ensured and recomputed. *)
RecomputePlan(p) ==
  /\ admin.kind = "plan"
  /\ CanEnsure(p, now)
  /\ month' = [month EXCEPT ![now] = Recomputed(AfterEnsure(p, now), now)]
  /\ ensured' = [ensured EXCEPT ![p] = @ \cup {now}]
  /\ admin' = [admin EXCEPT !.kind = "none"]
  /\ UNCHANGED <<now, plan, rate, reserving, res, ledger, call, spent, changes>>

(* Rate of month m: the existing months from m on without a later rate. *)
RecomputeRate ==
  /\ admin.kind = "rate"
  /\ month' = [n \in Month |->
       IF n >= admin.from /\ \A k \in (admin.from + 1)..n : rate[k] = None
       THEN Recomputed(month[n], n) ELSE month[n]]
  /\ admin' = [admin EXCEPT !.kind = "none"]
  /\ UNCHANGED <<now, plan, rate, ensured, reserving, res, ledger, call, spent, changes>>

-----------------------------------------------------------------------------
Next ==
  \/ \E c \in Call : \/ \E p \in Process : ReserveStart(c, p)
                     \/ CallEnds(c)
                     \/ FinalizeAnswer(c)
                     \/ FinalizeBilled(c)
                     \/ ReleaseFailed(c)
                     \/ CallLost(c)
                     \/ Reconcile(c)
  \/ \E m \in Month : ReserveCommit(m) \/ ReserveRefused(m) \/ ReserveAborts(m) \/ SetRate(m)
  \/ \E batch \in SUBSET Call : Expire(batch)
  \/ \E p \in Process : EnsureMonth(p) \/ Restart(p) \/ RecomputePlan(p)
  \/ MonthTurns
  \/ SetPlan
  \/ RecomputeRate

Spec == Init /\ [][Next]_vars

(* The sweeper runs every 30 seconds and takes every reservation whose     *)
(* lifetime passed; a reserve transaction ends.                            *)
Fairness ==
  /\ \A c \in {d \in Call : Kind[d] = "chat"} :
       SF_vars(\E batch \in {b \in SUBSET Call : c \in b} : Expire(batch))
  /\ \A m \in Month : WF_vars(ReserveCommit(m) \/ ReserveRefused(m) \/ ReserveAborts(m))

LiveSpec == Spec /\ Fairness

-----------------------------------------------------------------------------
(* Properties *)

In(m, status) == {c \in Call : res[c].month = m /\ res[c].status = status}

Costs == [c \in Call |-> ledger[c].cost]

(* What a call takes of the budget: its cost, up to its hold. *)
Shares == [c \in Call |->
  IF res[c].status = "reserved" \/ ledger[c].cost > res[c].hold THEN res[c].hold ELSE ledger[c].cost]

(* The hold of a month is the sum of its open reservations, and its use the*)
(* sum of its ledger rows, one for each finalized call: no settlement runs *)
(* twice, charges another month or is cut off at zero, whatever the order  *)
(* of answers, failures, expiry and month ends.                            *)
BooksBalance ==
  /\ \A m \in Month :
       /\ month[m].reserved = SumFunctionOnSet(Holds, In(m, "reserved"))
       /\ month[m].used = SumFunctionOnSet(Costs, In(m, "finalized"))
  /\ \A c \in Call : ledger[c].rows = IF res[c].status = "finalized" THEN 1 ELSE 0

(* Concurrent calls never hold more than the budget: the open holds of     *)
(* ordinary calls, and what they cost up to their hold, stay within the    *)
(* highest budget of the month.                                            *)
WithinBudget ==
  \A m \in Month :
    LET ordinary == {c \in In(m, "reserved") \cup In(m, "finalized") : Kind[c] # "run"}
    IN  month[m].peak = Unlimited \/ SumFunctionOnSet(Shares, ordinary) <= month[m].peak

(* A call is refused only when the budget really is used up: what it      *)
(* needs at least exceeds what the ledger rows and the open reservations   *)
(* of the month leave.  Points given back by an answer, a failure or the   *)
(* sweeper are available again, and a month whose creation was rolled back *)
(* counts with its plan's budget although a process remembers it.          *)
RefusedWhenSpent ==
  [][\A m \in Month : \A c \in Call :
       (reserving[m].call = c /\ call'[c] = "refused") =>
         LET budget == IF month[m].present THEN month[m].budget
                       ELSE IF reserving[m].plan = None THEN BudgetOf(m)
                       ELSE reserving[m].budget
         IN  /\ budget # Unlimited
             /\ Least[c] > budget - SumFunctionOnSet(Costs, In(m, "finalized"))
                                  - SumFunctionOnSet(Holds, In(m, "reserved"))]_vars

(* An ordinary reservation ends even when its caller died. *)
ChatHoldsEnd ==
  \A c \in {d \in Call : Kind[d] = "chat"} :
    res[c].status = "reserved" ~> res[c].status # "reserved"

=============================================================================
