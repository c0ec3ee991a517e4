------------------------------- MODULE Reports -------------------------------
(***************************************************************************)
(* What finances reports of the documents others keep: the cash flow and   *)
(* its projections, profitability, sales against expenses, the balances of *)
(* accounts and the VAT.  Every screen reads the same tables with queries  *)
(* of its own, each with its filters, days and rates; what the screens say *)
(* must agree with each other and with what happened.                      *)
(*                                                                         *)
(* A handler is one action here: what requests do to one another is the    *)
(* subject of the modules of sales, returns, accounts and orders.  Time is *)
(* counted in sixths of a day, in UTC; the business is four hours west of  *)
(* it, that is one sixth.  A document is one row with all that hangs on it.*)
(***************************************************************************)
EXTENDS Database, FiniteSetsExt

CONSTANTS
  Clock, Sale, Expense, Sheet, Bill,   \* rows: the time, one document of each sort
  Instant,         \* bound: the times at which something happens
  RateAt,          \* [times -> bolivares for a dollar]: get_exchange_rate_at
  Price, Tax,      \* of a piece, and the tax on it
  Percent,         \* the rate of that tax
  Wage,            \* bound: the net pay of the sheet
  MaxPapers,       \* bound: payments, returns, notes, expenses and sheets beside sale and bill
  Absent

ReportsConstants ==
  /\ IsFiniteSet(Instant) /\ Instant \subseteq Nat \ {0}
  /\ {Price, Tax, Percent, Wage, MaxPapers} \subseteq Nat \ {0}
  /\ 100 * Tax = Price * Percent
  /\ \A t \in DOMAIN RateAt : RateAt[t] \in Nat \ {0}
  /\ Cardinality({Clock, Sale, Expense, Sheet, Bill}) = 5

vars == <<db, mine, at, job, calm>>

Row == {Clock, Sale, Expense, Sheet, Bill}
Now == db[Clock]
Exists(r) == db[r] # Absent

\* finances.time.ts: the business day of an instant, and the instant a day begins.
LocalDay(t) == (t - 1) \div 6
StartOf(d) == 6 * d + 1
NoonOf(d) == 6 * d + 4
InLocalDays(t, from, to) == StartOf(from) <= t /\ t < StartOf(to + 1)
Days == {LocalDay(t) : t \in Instant}

\* finances.fx.ts: an amount in dollars or bolivares, at the rate of its instant.
Worth(unit, amount, currency, t) ==
  CASE unit = currency -> amount
    [] unit = "USD" -> amount \div RateAt[t]
    [] OTHER -> amount * RateAt[t]

TaxWithin(total) == (total * Percent) \div (100 + Percent)
TaxUpon(total) == (total * Percent) \div 100

-----------------------------------------------------------------------------
(* The documents.                                                           *)

Init ==
  /\ db = [r \in Row |-> IF r = Clock THEN Min(Instant)
                         ELSE IF r = Sheet THEN [net |-> Wage, paid |-> FALSE, at |-> 0]
                         ELSE Absent]
  /\ RequestsInit

Put(r, row) == db' = [db EXCEPT ![r] = row] /\ UNCHANGED <<mine, at, job, calm>>

Tick == Put(Clock, Min({t \in Instant : t > Now} \cup {Max(Instant)}))

\* bound
Room ==
  MaxPapers >
    Cardinality({r \in {Expense} : Exists(r)}) + (IF db[Sheet].paid THEN 1 ELSE 0)
      + (IF Exists(Bill) THEN Cardinality(db[Bill].payments) ELSE 0)
      + (IF Exists(Sale) THEN Cardinality(db[Sale].collections) + Cardinality(db[Sale].refunds)
                                + Cardinality(db[Sale].notes)
         ELSE 0)

\* Amounts with the time they were entered at, told apart by their place.
Entry(S, amount) == [n |-> Cardinality(S), at |-> Now, amount |-> amount]
With(S, amount) == S \cup {Entry(S, amount)}
SumOf(S) == MapThenSumSet(LAMBDA e : e.amount, S)

\* createItemsFromSale: a price that includes the tax is taken apart.
InvoiceLine(total, included) ==
  IF included
  THEN [subtotal |-> total - TaxWithin(total), tax |-> TaxWithin(total), total |-> total]
  ELSE [subtotal |-> total, tax |-> TaxUpon(total), total |-> total + TaxUpon(total)]

\* The header is the sale's, whose tax leaves out what prices include.
InvoiceHeader(total, included) ==
  IF included THEN [subtotal |-> total, tax |-> 0] ELSE [subtotal |-> total, tax |-> TaxUpon(total)]

\* createFullSale of two pieces: for cash, of which part may be points and part be
\* given back; or on credit or laid away, with something paid at once.
CreateSale ==
  \E kind \in {"cash", "credit", "apartado"}, currency \in {"USD", "VES"}, included \in BOOLEAN,
     upfront \in {0, Price + Tax, 2 * (Price + Tax)}, points, change \in {0, Price + Tax} :
    LET unit == IF included THEN Price + Tax ELSE Price
        total == 2 * (Price + Tax)
        onAccount == kind = "apartado" \/ (kind = "credit" /\ upfront < total)
        paid == IF kind = "cash" THEN total - points ELSE upfront
    IN /\ ~Exists(Sale)
       /\ kind = "cash" => upfront = total
       /\ kind # "cash" => points = 0 /\ change = 0
       /\ Put(Sale,
            [kind |-> kind, currency |-> currency, included |-> included, at |-> Now,
             completed |-> kind = "cash" \/ upfront = total, refunded |-> FALSE,
             tendered |-> paid + change, points |-> points, change |-> change,
             account |-> onAccount,
             collections |-> IF onAccount /\ upfront > 0 THEN {Entry({}, upfront)} ELSE {},
             quantity |-> 2, unit |-> unit, line |-> InvoiceLine(2 * unit, included),
             invoice |-> InvoiceHeader(2 * unit, included),
             returned |-> {}, refunds |-> {}, notes |-> {},
             handed |-> IF paid > 0 THEN {Entry({}, paid)} ELSE {}])

AccountTotal == 2 * (Price + Tax)
Balance == AccountTotal - SumOf(db[Sale].collections)
IsPaid == Balance <= 0

\* registerCollection: part of the balance or all of it; a credit that is paid is
\* completed, what was laid away when it is fetched (completeApartado).
Collect ==
  /\ Room /\ Exists(Sale) /\ db[Sale].account /\ ~IsPaid
  /\ \E amount \in {Price + Tax, Balance} :
       LET x == db[Sale] IN
       Put(Sale, [x EXCEPT !.collections = With(@, amount), !.handed = With(@, amount),
                           !.completed = @ \/ (x.kind = "credit" /\ amount = Balance)])

CompleteApartado ==
  /\ Exists(Sale) /\ db[Sale].kind = "apartado" /\ IsPaid /\ ~db[Sale].completed
  /\ Put(Sale, [db[Sale] EXCEPT !.completed = TRUE])

InvoiceTotal == db[Sale].invoice.subtotal + db[Sale].invoice.tax
NotesOf(type) == {e \in db[Sale].notes : e.type = type /\ ~e.voided}

\* createPartialRefund of one piece, with update_on_return: the line keeps what is left,
\* its tax is put upon it, and the header follows; a line with nothing left is deleted,
\* and what was returned of it goes with it.
ReturnPiece ==
  LET x == db[Sale]
      left == x.quantity - 1
      line == [subtotal |-> left * x.unit, tax |-> TaxUpon(left * x.unit),
               total |-> left * x.unit + TaxUpon(left * x.unit)]
  IN /\ Room /\ Exists(Sale) /\ x.quantity > 0
     /\ Put(Sale, [x EXCEPT !.quantity = left, !.line = line,
                            !.invoice = [subtotal |-> line.subtotal, tax |-> line.tax],
                            !.returned = IF left = 0 THEN {}
                                         ELSE @ \cup {Entry(@, x.unit)},
                            !.refunds = With(@, x.unit)])

\* processFullRefund writes the header of a return, and no line.
RefundAll ==
  /\ Room /\ Exists(Sale)
  /\ Put(Sale, [db[Sale] EXCEPT !.refunds = With(@, InvoiceTotal), !.refunded = TRUE])

\* A note on the invoice; credits fit what was invoiced.
CreateNote ==
  \E type \in {"credit", "debit"} :
    LET x == db[Sale]  amount == Price + Tax IN
    /\ Room /\ Exists(Sale)
    /\ type = "credit" =>
         amount + SumOf(NotesOf("credit")) <= InvoiceTotal + SumOf(NotesOf("debit"))
    /\ Put(Sale, [x EXCEPT !.notes = @ \cup {[n |-> Cardinality(@), at |-> Now, amount |-> amount,
                                              type |-> type, voided |-> FALSE]}])

VoidNote ==
  /\ Exists(Sale)
  /\ \E e \in NotesOf("credit") \cup NotesOf("debit") :
       Put(Sale, [db[Sale] EXCEPT !.notes = (@ \ {e}) \cup {[e EXCEPT !.voided = TRUE]}])

\* createExpense, dated any day up to today.
CreateExpense ==
  \E d \in Days, currency \in {"USD", "VES"}, fixed \in BOOLEAN :
    /\ Room /\ ~Exists(Expense) /\ d <= LocalDay(Now)
    /\ Put(Expense, [date |-> d, currency |-> currency, fixed |-> fixed,
                     total |-> Price + Tax, tax |-> Tax])

\* closePayroll
CloseSheet == Room /\ ~db[Sheet].paid /\ Put(Sheet, [db[Sheet] EXCEPT !.paid = TRUE, !.at = Now])

\* An order is billed, then paid in parts; the bill is paid with the last.
BillOrder == Room /\ ~Exists(Bill) /\ Put(Bill, [at |-> Now, payments |-> {}])
Owed == 2 * (Price + Tax) - SumOf(db[Bill].payments)
PayOrder ==
  /\ Room /\ Exists(Bill) /\ Owed > 0
  /\ \E amount \in {Price + Tax, Owed} :
       Put(Bill, [db[Bill] EXCEPT !.payments = With(@, amount)])

Next == \/ Tick \/ CreateSale \/ Collect \/ CompleteApartado \/ ReturnPiece \/ RefundAll
        \/ CreateNote \/ VoidNote \/ CreateExpense \/ CloseSheet \/ BillOrder \/ PayOrder

Spec == Init /\ [][Next]_vars

-----------------------------------------------------------------------------
(* Cash flow (cash-flow.queries.ts).                                        *)

Sales == {r \in {Sale} : Exists(r)}
Bills == {r \in {Bill} : Exists(r)}
Expenses == {r \in {Expense} : Exists(r)}
Paid == {r \in {Sheet} : db[r].paid}

\* A movement: its business day is told apart from its instant, which gives its rate.
Moved(what, n, t, amount, currency) ==
  [what |-> what, n |-> n, at |-> t, day |-> LocalDay(t), dated |-> FALSE,
   amount |-> amount, currency |-> currency]
Each(what, S, currency) == {Moved(what, e.n, e.at, e.amount, currency) : e \in S}

\* Mutant of Tendered: the money that opened an account is counted with the sales too.
TenderedAlways == {r \in Sales : db[r].completed}

\* Sales whose payments are counted: not those that have an account.
Tendered == {r \in Sales : db[r].completed /\ ~db[r].account}

\* Points are no cash, and change goes out again.
SalesIn == UNION {{Moved("payment", 0, db[r].at, db[r].tendered, db[r].currency),
                   Moved("change", 0, db[r].at, -db[r].change, db[r].currency)} : r \in Tendered}
CollectionsIn == UNION {Each("collection", db[r].collections, db[r].currency) : r \in Sales}
In == SalesIn \cup CollectionsIn

SuppliersOut == UNION {Each("supplier", db[r].payments, "USD") : r \in Bills}
PayrollOut == {Moved("payroll", 0, db[r].at, db[r].net, "VES") : r \in Paid}
ExpensesOut ==
  {[what |-> "expense", n |-> 0, at |-> NoonOf(db[r].date), day |-> db[r].date, dated |-> TRUE,
    amount |-> db[r].total, currency |-> db[r].currency] : r \in Expenses}
RefundsOut == UNION {Each("refund", db[r].refunds, db[r].currency) : r \in Sales}
Out == SuppliersOut \cup PayrollOut \cup ExpensesOut \cup RefundsOut

\* Mutant of InRange: the days of Greenwich.
InRangeUtc(m, from, to) == m.at \div 6 \in from..to

\* A timestamp is compared with the instants the days begin at, a date with the days.
InRange(m, from, to) ==
  IF m.dated THEN m.day \in from..to ELSE InLocalDays(m.at, from, to)

Total(S, unit) == MapThenSumSet(LAMBDA m : Worth(unit, m.amount, m.currency, m.at), S)

\* cashFlowSummaryQuery and cashFlowBucketsQuery
Summary(S, unit, from, to) == Total({m \in S : InRange(m, from, to)}, unit)
Bucket(S, unit, from, to, d) == Total({m \in S : InRange(m, from, to) /\ m.day = d}, unit)

\* cashFlowProjectionsQuery, and the balances of accounts.queries.ts.
AccountsProjected == IF Exists(Sale) /\ db[Sale].account /\ ~IsPaid THEN Max({Balance, 0}) ELSE 0
BillsProjected == IF Exists(Bill) /\ Owed > 0 THEN Owed ELSE 0
SheetsProjected == IF db[Sheet].paid THEN 0 ELSE db[Sheet].net

-----------------------------------------------------------------------------
(* Net sales (finances.sales.ts), by profitability.queries.ts and by the    *)
(* sales against expenses of expense.queries.ts.                            *)

\* A sale counts on its day, paid for or not.
Accrued == {r \in Sales : db[r].completed \/ db[r].account}

\* Mutant of NetOfLine: what the price includes is left in.
NetOfLineGross(x) == x.quantity * x.unit

NetOfLine(x) ==
  (x.quantity * x.unit) - (IF x.included /\ x.quantity > 0 THEN x.line.tax ELSE 0)
NetOfReturn(x, amount) == amount - (IF x.included THEN TaxWithin(amount) ELSE 0)
NetOfNote(x, e) ==
  LET total == x.invoice.subtotal + x.invoice.tax
      sign == IF e.type = "credit" THEN -1 ELSE 1
  IN IF total = 0 THEN 0 ELSE sign * ((e.amount * x.invoice.subtotal) \div total)

LinesSold == {Moved("sold", 0, db[r].at, NetOfLine(db[r]), db[r].currency) : r \in Accrued}
LinesReturned ==
  UNION {{Moved("returned", e.n, e.at, NetOfReturn(db[r], e.amount), db[r].currency) :
            e \in db[r].returned} : r \in Sales}
ActiveNotes(r) == {e \in db[r].notes : ~e.voided}
NotesMade ==
  UNION {{Moved("note", e.n, e.at, NetOfNote(db[r], e), db[r].currency) :
            e \in ActiveNotes(r)} : r \in Sales}

\* getProfitability: all there is since an instant.
Since(S, t) == {m \in S : m.at >= t}
ProfitSales(unit, t) ==
  Total(Since(LinesSold, t), unit) - Total(Since(LinesReturned, t), unit)
    + Total(Since(NotesMade, t), unit)
ProfitExpenses(unit, d) == Total({m \in ExpensesOut : m.day >= d}, unit)

\* analyticsSalesVsExpenses, day by day; analyticsFixedVsVariable; analyticsPayroll.
PeriodSales(unit, d) ==
  LET Of(S) == Total({m \in S : InLocalDays(m.at, d, d)}, unit)
  IN Of(LinesSold) - Of(LinesReturned) + Of(NotesMade)
PeriodExpenses(unit, d) == Total({m \in ExpensesOut : m.day = d}, unit)
ExpensesOfKind(unit, fixed, from, to) ==
  Total({m \in ExpensesOut : m.day \in from..to /\ db[Expense].fixed = fixed}, unit)
PayrollPaid(unit, from, to) == Total({m \in PayrollOut : InLocalDays(m.at, from, to)}, unit)

-----------------------------------------------------------------------------
(* VAT (iva.queries.ts).                                                    *)

InvoiceTax(x) == Max({x.invoice.tax, IF x.quantity > 0 THEN x.line.tax ELSE 0})

TaxOfNote(x, e) ==
  LET total == x.invoice.subtotal + x.invoice.tax
  IN IF total = 0 THEN 0 ELSE (e.amount * InvoiceTax(x)) \div total

TaxOfReturn(x, amount) == IF x.included THEN TaxWithin(amount) ELSE TaxUpon(amount)

Debited == {Moved("tax", 0, db[r].at, InvoiceTax(db[r]), db[r].currency) : r \in Sales}
NotesTax(type) ==
  UNION {{Moved("note", e.n, e.at, TaxOfNote(db[r], e), db[r].currency) :
            e \in {x \in ActiveNotes(r) : x.type = type}} : r \in Sales}
ReturnsTax ==
  UNION {{Moved("returned", e.n, e.at, TaxOfReturn(db[r], e.amount), db[r].currency) :
            e \in db[r].returned} : r \in Sales}

\* Between two instants, both counted: what sales owe, what bills that are paid give
\* back, and what those that are not will.
Between(S, from, to) == {m \in S : from <= m.at /\ m.at <= to}
SalesTax(unit, from, to) ==
  LET Of(S) == Total(Between(S, from, to), unit)
  IN Of(Debited) + Of(NotesTax("debit")) - Of(ReturnsTax) - Of(NotesTax("credit"))
BillTax == {Moved("bill", 0, db[r].at, 2 * Tax, "USD") : r \in Bills}
CreditTax == IF Exists(Bill) /\ Owed <= 0 THEN BillTax ELSE {}
PayableTax == IF Exists(Bill) /\ Owed > 0 THEN BillTax ELSE {}

-----------------------------------------------------------------------------
(* Properties.                                                              *)

Units == {"USD", "VES"}
Amounts == [n : Nat, at : Instant, amount : Nat]

TypeOK ==
  /\ Now \in Instant
  /\ Exists(Sale) =>
       /\ db[Sale].quantity \in 0..2
       /\ db[Sale].collections \cup db[Sale].returned \cup db[Sale].refunds
            \cup db[Sale].handed \subseteq Amounts
       /\ db[Sale].collections \subseteq db[Sale].handed
  /\ Exists(Bill) => db[Bill].payments \subseteq Amounts
  /\ Exists(Expense) => db[Expense].date \in Days
  /\ db[Sheet].paid => db[Sheet].at \in Instant

\* Whatever becomes of a sale, the cash flow of any days tells the cash the customer
\* handed over in them, once: points are none, change is not counted, and what opened an
\* account is neither counted twice nor moved to the day the account is paid.
CashOnce ==
  LET in == In
      handed == UNION {Each("handed", db[r].handed, db[r].currency) : r \in Sales}
  IN \A unit \in Units, from, to \in Days :
       Summary(in, unit, from, to) = Total({m \in handed : m.day \in from..to}, unit)

\* A range of days is its days: no movement is left between the last hours of one and the
\* first of the next, whichever the column.
DaysAddUp ==
  \A unit \in Units, S \in {In, Out}, from, to \in Days : from <= to =>
    /\ Summary(S, unit, from, to) = MapThenSumSet(LAMBDA d : Bucket(S, unit, d, d, d), from..to)
    /\ Summary(S, unit, from, to) = MapThenSumSet(LAMBDA d : Bucket(S, unit, from, to, d), Days)

\* What is owed is either moved or projected, and its tax claimed or waiting.
MovedOrProjected ==
  LET first == Min(Days)  last == Max(Days) IN
  /\ Exists(Sale) /\ db[Sale].account =>
       AccountsProjected + Summary(CollectionsIn, db[Sale].currency, first, last) = AccountTotal
  /\ Exists(Bill) =>
       /\ BillsProjected + Summary(SuppliersOut, "USD", first, last) = AccountTotal
       /\ CreditTax \cup PayableTax = BillTax /\ CreditTax \cap PayableTax = {}
  /\ SheetsProjected + Summary(PayrollOut, "VES", first, last) = Wage

\* The screens show the same figures for the same days.
ScreensAgree ==
  \A unit \in Units, d \in Days :
    LET last == Max(Days) IN
    /\ ProfitSales(unit, StartOf(d)) = MapThenSumSet(LAMBDA e : PeriodSales(unit, e), d..last)
    /\ ProfitExpenses(unit, d) = MapThenSumSet(LAMBDA e : PeriodExpenses(unit, e), d..last)
    /\ ProfitExpenses(unit, d) = ExpensesOfKind(unit, TRUE, d, last)
                                   + ExpensesOfKind(unit, FALSE, d, last)
    /\ Summary(ExpensesOut, unit, d, last) = ProfitExpenses(unit, d)
    /\ Summary(PayrollOut, unit, d, last) = PayrollPaid(unit, d, last)

\* Of a sale nothing was returned of, net sales and VAT together are what was invoiced
\* and noted in those days, whether the price includes the tax or not, paid for or not.
SaleIsNetAndTax ==
  Exists(Sale) /\ db[Sale].returned = {} /\ db[Sale].quantity = 2
    /\ (db[Sale].notes = {} \/ ~db[Sale].included) =>
    \A unit \in Units, d \in Days :
      LET x == db[Sale]
          Noted(type) == Total({m \in Each("note", NotesOf(type), x.currency) : m.day = d}, unit)
      IN PeriodSales(unit, d) + SalesTax(unit, StartOf(d), StartOf(d + 1) - 1)
           = (IF LocalDay(x.at) = d THEN Worth(unit, AccountTotal, x.currency, x.at) ELSE 0)
               + Noted("debit") - Noted("credit")

ReportsTell == CashOnce /\ DaysAddUp /\ MovedOrProjected /\ ScreensAgree /\ SaleIsNetAndTax

\* What expense.queries.ts says of sales against expenses: they are net of returns.  So
\* of a sale with no notes they are the price of the pieces the customer kept.
NetOfReturns ==
  Exists(Sale) /\ db[Sale].notes = {} =>
    MapThenSumSet(LAMBDA d : PeriodSales(db[Sale].currency, d), Days)
      = db[Sale].quantity * Price

=============================================================================
