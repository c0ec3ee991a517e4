------------------------------- MODULE Payroll -------------------------------
(***************************************************************************)
(* Payroll (hr/modules/payroll) and what employees owe (hr/modules/        *)
(* deductions).                                                            *)
(*                                                                         *)
(* To process a paysheet, payroll.service.ts reads the employees and the   *)
(* debts that are being paid off, then writes one detail per employee,     *)
(* each in a transaction of its own that also takes the instalments from   *)
(* the debts, and at the end counts the details and closes the sheet with  *)
(* their sum.  Meanwhile a debt is paid by hand, amended or created.       *)
(*                                                                         *)
(* The details a session has written of a sheet for an employee are one    *)
(* row of counts and sums: paysheet_detail has no unique key.              *)
(***************************************************************************)
EXTENDS Database, Functions, FiniteSetsExt

CONSTANTS
  Sheet, Employee, Debt,
  Debtor,        \* [Debt -> Employee]
  Salary,        \* an employee's pay before instalments
  Loan,          \* total_amount of every debt
  Installment,   \* its installment_amount
  Margin,        \* a third of the salary, which instalments keep within
  MaxDetails,    \* bound: details written of one sheet
  Absent

SheetRow == [closed : BOOLEAN, net : Int]
DebtRow == [balance : Int, active : BOOLEAN, handed : Int]
DetailRow == [count : Nat, net : Int, taken : [Debt -> Nat]]

PayrollConstants ==
  /\ IsFiniteSet(Sheet) /\ IsFiniteSet(Employee) /\ IsFiniteSet(Debt) /\ IsFiniteSet(Session)
  /\ Employee # {}                   \* a branch without any is refused (:96)
  /\ Absent \notin SheetRow \cup DebtRow
  /\ Sheet \cap Debt = {} /\ (Sheet \cup Debt) \cap (Sheet \X Employee \X Session) = {}
  /\ Debtor \in [Debt -> Employee]
  /\ Salary \in Nat /\ Loan \in Nat \ {0} /\ Installment \in Nat \ {0}
  /\ Margin \in Nat /\ MaxDetails \in Nat

vars == <<db, mine, at, job, calm>>

Details(w, e, s) == <<w, e, s>>
Row == Sheet \cup Debt \cup (Sheet \X Employee \X Session)

Init ==
  /\ db = [r \in Row |->
             IF r \in Sheet \cup Debt THEN Absent
             ELSE [count |-> 0, net |-> 0, taken |-> [d \in Debt |-> 0]]]
  /\ RequestsInit

Exists(r) == db[r] # Absent

\* What the details of a sheet that are committed come to.
Of(w) == {w} \X Employee \X Session
Written(w) == SumFunction([r \in Of(w) |-> db[r].count])
NetOf(w) == SumFunction([r \in Of(w) |-> db[r].net])
TakenFrom(d) ==
  SumFunction([r \in Sheet \X Employee \X Session |-> db[r].taken[d]])

-----------------------------------------------------------------------------
(* What an employee owes.                                                   *)

Running(e) == {d \in Debt : Debtor[d] = e /\ Exists(d) /\ db[d].active /\ db[d].balance > 0}

\* create: availableMargin adds up the instalments under way.
StartDebt(s) ==
  \E d \in Debt :
    /\ ~Exists(d)
    /\ (Cardinality(Running(Debtor[d])) + 1) * Installment <= Margin
    /\ Begin(s, "lend", [debt |-> d])

InsertDebt(s) ==
  /\ at[s] = "lend" /\ db[job[s].debt] = Absent
  /\ Apply(s, [r \in {job[s].debt} |-> [balance |-> Loan, active |-> TRUE, handed |-> 0]],
           "commit", job[s])

\* applyPayment: no more than the balance that was read.
StartHandPay(s) ==
  \E d \in Debt, n \in 1 .. Loan :
    /\ Exists(d) /\ n <= db[d].balance
    /\ Begin(s, "hand", [debt |-> d, amount |-> n])

\* The UPDATE takes from the balance of now, and its CHECK refuses less than 0.
HandPay(s) ==
  LET d == job[s].debt  n == job[s].amount IN
  /\ at[s] = "hand" /\ Free(s, {d})
  /\ IF db[d].balance < n THEN Rollback(s)
     ELSE Apply(s, [r \in {d} |-> [balance |-> db[d].balance - n,
                                   active |-> db[d].balance > n,
                                   handed |-> db[d].handed + n]],
                "commit", job[s])

\* update: sets the balance, within the CHECK, or the flag.  handed, which no
\* column holds, is what has left the balance outside payroll.
Amend(s) ==
  /\ at[s] = "idle" /\ UNCHANGED <<mine, at, job>> /\ calm' = (calm /\ Quiet)
  /\ \E d \in Debt, flag \in BOOLEAN :
       /\ Exists(d) /\ Free(s, {d})
       /\ \E b \in {0, db[d].balance} :
            db' = [db EXCEPT ![d] = [balance |-> b, active |-> flag,
                                     handed |-> @.handed + @.balance - b]]

-----------------------------------------------------------------------------
(* Payroll.                                                                 *)

OpenSheet(s) ==
  /\ at[s] = "idle" /\ UNCHANGED <<mine, at, job>> /\ calm' = (calm /\ Quiet)
  /\ \E w \in Sheet : ~Exists(w) /\ db' = [db EXCEPT ![w] = [closed |-> FALSE, net |-> 0]]

\* getActiveDeductionsForBranch: the instalment of each, topped by the balance.
Installments ==
  [d \in Debt |-> IF d \in Running(Debtor[d])
                  THEN IF db[d].balance < Installment THEN db[d].balance ELSE Installment
                  ELSE 0]

\* processPayrollForEmployee: the status of the sheet is not looked at.
StartPayroll(s) ==
  \E w \in Sheet :
    /\ Exists(w) /\ Written(w) + Cardinality(Employee) <= MaxDetails
    /\ Begin(s, "detail", [sheet |-> w, left |-> Employee, cuts |-> Installments, due |-> {}])

\* A detail, and in net what the instalments leave.
Detail(s, e) ==
  LET j == job[s]
      r == Details(j.sheet, e, s)
      cuts == [d \in Debt |-> IF Debtor[d] = e THEN j.cuts[d] ELSE 0]
  IN Write(s, [x \in {r} |-> [count |-> db[r].count + 1,
                              net |-> db[r].net + Salary - SumFunction(cuts),
                              taken |-> [d \in Debt |-> db[r].taken[d] + cuts[d]]]],
           "cut", [j EXCEPT !.left = @ \ {e}, !.due = {d \in Debt : cuts[d] > 0}])

\* Its trigger protect_net_salary refuses a sheet that is closed; the error
\* ends the request, and the details that are committed stay.
InsertDetail(s) ==
  /\ at[s] = "detail" /\ job[s].left # {}
  /\ IF db[job[s].sheet].closed THEN Rollback(s)
     ELSE \E e \in job[s].left : Detail(s, e)

\* Mutant of TakeInstallment: outside the transaction of the detail.
TakeInstallmentApart(s) ==
  LET j == job[s] IN
  /\ at[s] = "cut"
  /\ \E d \in j.due :
       LET left == Sees(s, d).balance - j.cuts[d] IN
       /\ Free(s, {d})
       /\ IF left < 0 THEN Rollback(s)
          ELSE Apply(s, [r \in {d} |-> [Sees(s, d) EXCEPT !.balance = left, !.active = left > 0]],
                     "cut", [j EXCEPT !.due = @ \ {d}])

\* employeeDeduction.applyPayment again; a CHECK that fails ends the request.
TakeInstallment(s) ==
  LET j == job[s] IN
  /\ at[s] = "cut"
  /\ \E d \in j.due :
       LET left == Sees(s, d).balance - j.cuts[d] IN
       /\ Free(s, {d})
       /\ IF left < 0 THEN Rollback(s)
          ELSE Write(s, [r \in {d} |-> [Sees(s, d) EXCEPT !.balance = left, !.active = left > 0]],
                     "cut", [j EXCEPT !.due = @ \ {d}])

CommitDetail(s) == at[s] = "cut" /\ job[s].due = {} /\ Publish(s, "detail", job[s])

\* Mutant of Verify: enough details are as good as all of them.
VerifyEnough(s) ==
  /\ at[s] = "detail" /\ job[s].left = {}
  /\ IF Written(job[s].sheet) < Cardinality(Employee) THEN Rollback(s)
     ELSE Look(s, "close", job[s])

\* verifyPaysheet: as many details as employees, or an error.
Verify(s) ==
  /\ at[s] = "detail" /\ job[s].left = {}
  /\ IF Written(job[s].sheet) # Cardinality(Employee) THEN Rollback(s)
     ELSE Look(s, "close", job[s])

\* closePaysheet: the sum of the details of now, whatever the status was.
CloseSheet(s) ==
  LET w == job[s].sheet IN
  /\ at[s] = "close"
  /\ Apply(s, [r \in {w} |-> [closed |-> TRUE, net |-> NetOf(w)]], "commit", job[s])

EndRequest(s) == at[s] = "commit" /\ Commit(s)

Debts(s) == StartDebt(s) \/ InsertDebt(s) \/ StartHandPay(s) \/ HandPay(s) \/ Amend(s)
Processing(s) == OpenSheet(s) \/ StartPayroll(s) \/ InsertDetail(s) \/ TakeInstallment(s)
                   \/ CommitDetail(s) \/ Verify(s) \/ CloseSheet(s)

Next == \E s \in Session : Debts(s) \/ Processing(s) \/ EndRequest(s) \/ Fail(s)

Spec == Init /\ [][Next]_vars

-----------------------------------------------------------------------------
(* Properties.                                                              *)

TypeOK ==
  /\ \A w \in Sheet : db[w] \in SheetRow \cup {Absent}
  /\ \A d \in Debt : db[d] \in DebtRow \cup {Absent}
  /\ \A r \in Sheet \X Employee \X Session : db[r] \in DetailRow

\* A debt is never overpaid, and what left it is what the details committed
\* say was taken and what was handed in: payrolls that run at once, die half
\* way or are run again, payments by hand and amendments all write it.
DebtAddsUp ==
  \A d \in Debt : Exists(d) =>
    /\ db[d].balance >= 0
    /\ db[d].balance + db[d].handed + TakenFrom(d) = Loan

\* A paysheet closes once and is not touched again; when it does, every
\* employee has a detail in it, and, unless two requests ran at once, exactly
\* one, and its net is their sum.
ClosesOnce ==
  \A w \in Sheet : Exists(w) =>
    IF db[w].closed THEN db'[w] = db[w]
    ELSE db'[w].closed =>
           /\ \A e \in Employee : \E s \in Session : db[Details(w, e, s)].count > 0
           /\ calm => Written(w) = Cardinality(Employee) /\ db'[w].net = NetOf(w)

SheetClosesOnce == [][ClosesOnce]_vars

=============================================================================
