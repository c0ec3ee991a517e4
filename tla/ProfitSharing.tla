--------------------------- MODULE ProfitSharing ---------------------------
(***************************************************************************)
(* The share of the employees in the benefits of one year                  *)
(* (profit-sharing-period.service.ts) and the bonus that is advanced on it *)
(* (profit-sharing.service.ts).                                            *)
(*                                                                         *)
(* To calculate, the period is read, then the employees, then the salary   *)
(* of each; then one detail at a time is written, and at the end the       *)
(* period is marked, all with no transaction.  Meanwhile the benefits are  *)
(* changed, the period is closed, a salary changes or somebody leaves.     *)
(***************************************************************************)
EXTENDS Database, FiniteSetsExt

CONSTANTS
  Period,       \* the row of the year
  Employee,
  Months,       \* [Employee -> 1 .. 12]: worked in the year
  Salaries,     \* [Employee -> SUBSET Nat], bound: what each may earn a month
  Liquid,       \* bound: what may be distributed of the year's benefits
  MaxAdvance,   \* bound: advances to one employee, of one unit each
  Absent

vars == <<db, mine, at, job, calm>>

Detail(e) == <<Period, e>>
Row == {Period} \cup Employee \cup {Detail(e) : e \in Employee}

\* distributable_amount, Absent until the benefits are known
PeriodRow == [status : {"abierto", "calculado", "cerrado"}, amount : Nat \cup {Absent}]
DetailRow == [final : Nat \cup {Absent}, advance : Nat]
EmployeeRow(e) == [salary : Salaries[e], active : BOOLEAN]

ProfitConstants ==
  /\ IsFiniteSet(Employee) /\ Months \in [Employee -> 1 .. 12]
  /\ Salaries \in [Employee -> SUBSET (Nat \ {0})] /\ Liquid \subseteq Nat /\ MaxAdvance \in Nat
  /\ Period \notin Employee /\ ({Period} \cup Employee) \cap {Detail(e) : e \in Employee} = {}
  /\ Absent \notin Nat /\ Absent \notin PeriodRow /\ Absent \notin DetailRow
  /\ \A e \in Employee : Absent \notin EmployeeRow(e)

Init ==
  /\ db \in [Row -> {Absent} \cup UNION {EmployeeRow(e) : e \in Employee}]
  /\ \A e \in Employee : db[e] \in EmployeeRow(e) /\ db[e].active
  /\ \A r \in Row \ Employee : db[r] = Absent
  /\ RequestsInit

Exists(r) == db[r] # Absent
Active == {e \in Employee : db[e].active}

\* A request of one statement, or that reads only what never changes.
Single(s, r, v) ==
  /\ at[s] = "idle" /\ Free(s, {r})
  /\ db' = [db EXCEPT ![r] = v]
  /\ calm' = (calm /\ Quiet)
  /\ UNCHANGED <<mine, at, job>>

-----------------------------------------------------------------------------
(* The period.                                                              *)

NewPeriod == [status |-> "abierto", amount |-> Absent]

\* create; the year is unique.
CreatePeriod(s) == ~Exists(Period) /\ Single(s, Period, NewPeriod)

\* setLiquidBenefits, updatePercentage: whatever the status.
SetLiquidBenefits(s) ==
  Exists(Period) /\ \E a \in Liquid : Single(s, Period, [db[Period] EXCEPT !.amount = a])

\* close, whatever the status.
Close(s) == Exists(Period) /\ Single(s, Period, [db[Period] EXCEPT !.status = "cerrado"])

\* Another salary in the history of an employee; the end of a contract.
ChangeSalary(s) ==
  \E e \in Active : \E v \in Salaries[e] : Single(s, e, [db[e] EXCEPT !.salary = v])
Dismiss(s) == \E e \in Active : Single(s, e, [db[e] EXCEPT !.active = FALSE])

-----------------------------------------------------------------------------
(* calculate                                                                *)

\* Mutant of Refused: only what was calculated is refused.
RefusedCalculated(period) == period.status = "calculado" \/ period.amount = Absent

Refused(period) == period.status = "cerrado" \/ period.amount = Absent

StartCalculate(s) ==
  /\ Exists(Period) /\ ~Refused(db[Period])
  /\ Begin(s, "employees", [amount |-> db[Period].amount, earned |-> Unwritten, left |-> {}])

ReadEmployees(s) ==
  /\ at[s] = "employees"
  /\ Look(s, "salaries", [job[s] EXCEPT !.left = Active])

\* One after the other, always in the same order.
First(E) == CHOOSE e \in E : TRUE

Earned(e) == db[e].salary * Months[e]

ReadSalary(s) ==
  /\ at[s] = "salaries"
  /\ IF job[s].left = {} THEN Look(s, "details", [job[s] EXCEPT !.left = DOMAIN job[s].earned])
     ELSE LET e == First(job[s].left) IN
          Look(s, "salaries", [job[s] EXCEPT !.left = @ \ {e},
                                             !.earned = Over([x \in {e} |-> Earned(x)], @)])

TotalEarned(j) == MapThenSumSet(LAMBDA e : j.earned[e], DOMAIN j.earned)

\* Between the pay of thirty days and of a hundred and twenty, for the months
\* that were worked.
MinCap(earned) == earned \div 12
MaxCap(earned) == earned \div 3

Greater(a, b) == IF a < b THEN b ELSE a
Lesser(a, b) == IF a < b THEN a ELSE b

Final(j, e) ==
  LET raw == (j.amount * j.earned[e]) \div TotalEarned(j)
  IN Greater(MinCap(j.earned[e]), Lesser(raw, MaxCap(j.earned[e])))

\* upsert: the advance stays.
UpsertDetail(s) ==
  /\ at[s] = "details" /\ job[s].left # {}
  /\ LET e == First(job[s].left) IN
     Apply(s, [r \in {Detail(e)} |->
                 [final |-> Final(job[s], e),
                  advance |-> IF Exists(r) THEN db[r].advance ELSE 0]],
           "details", [job[s] EXCEPT !.left = @ \ {e}])

SetTotals(s) ==
  /\ at[s] = "details" /\ job[s].left = {}
  /\ Apply(s, [r \in {Period} |-> [db[r] EXCEPT !.status = "calculado"]], "idle", NoJob)

-----------------------------------------------------------------------------
(* payYearEndBonus: a period is created when there is none.                 *)

StartBonus(s) ==
  \E e \in Employee :
    /\ Exists(Detail(e)) => db[Detail(e)].advance < MaxAdvance
    /\ Begin(s, IF Exists(Period) THEN "advance" ELSE "bonus period", e)

CreateBonusPeriod(s) ==
  /\ at[s] = "bonus period"
  /\ IF Exists(Period) THEN Rollback(s)
     ELSE Apply(s, [r \in {Period} |-> NewPeriod], "advance", job[s])

UpsertAdvance(s) ==
  /\ at[s] = "advance"
  /\ Apply(s, [r \in {Detail(job[s])} |->
                 IF Exists(r) THEN [db[r] EXCEPT !.advance = @ + 1]
                 ELSE [final |-> Absent, advance |-> 1]], "idle", NoJob)

Keeping(s) == \/ CreatePeriod(s) \/ SetLiquidBenefits(s) \/ Close(s)
              \/ ChangeSalary(s) \/ Dismiss(s)
Calculating(s) == \/ StartCalculate(s) \/ ReadEmployees(s) \/ ReadSalary(s)
                  \/ UpsertDetail(s) \/ SetTotals(s)
Advancing(s) == StartBonus(s) \/ CreateBonusPeriod(s) \/ UpsertAdvance(s)

Next == \E s \in Session : Keeping(s) \/ Calculating(s) \/ Advancing(s) \/ Fail(s)

Spec == Init /\ [][Next]_vars

-----------------------------------------------------------------------------
(* Properties.                                                              *)

TypeOK ==
  /\ db[Period] \in PeriodRow \cup {Absent}
  /\ \A e \in Employee :
       db[e] \in EmployeeRow(e) /\ db[Detail(e)] \in DetailRow \cup {Absent}

Finals == [e \in Employee |-> IF Exists(Detail(e)) THEN db[Detail(e)].final ELSE Absent]

\* The details of everybody who is active come to what is distributed, but for a
\* unit each, unless the caps cut it.
Distributed ==
  LET sum(f(_)) == MapThenSumSet(f, Active)
      given == sum(LAMBDA e : Finals[e])
      amount == db[Period].amount
  IN /\ \A e \in Active : Finals[e] # Absent
     /\ \/ amount - Cardinality(Active) <= given /\ given <= amount
        \/ amount > given /\ \A e \in Active : Finals[e] = MaxCap(Earned(e))
        \/ amount < given /\ \A e \in Active : Finals[e] = MinCap(Earned(e))

Advance(e) == IF Exists(Detail(e)) THEN db[Detail(e)].advance ELSE 0

\* While requests come one at a time, a period that is closed is never opened
\* again, nor is anybody's share of it changed; and one that is marked as
\* calculated has been distributed among those who are active, whatever the
\* calculations before it left when they failed.  What was advanced is never lost.
Stands ==
  Exists(Period) =>
    /\ calm' /\ db[Period].status = "cerrado" =>
         db'[Period].status = "cerrado" /\ Finals' = Finals
    /\ calm /\ (\E s \in Session : at[s] = "details" /\ job[s].left = {}) => Distributed
    /\ \A e \in Employee : Advance(e)' >= Advance(e)

ProfitStands == [][Stands]_vars

=============================================================================
