------------------------------- MODULE Entries -------------------------------
(***************************************************************************)
(* The journal entry that accounting-journal.service.ts makes of each kind *)
(* of document: its lines, the conversion to bolivares with the correction *)
(* of the cents that rounding loses, and the test that refuses an entry    *)
(* whose debits and credits differ.  Amounts are whole cents.              *)
(*                                                                         *)
(* A paper is what a generator is given: [kind, net, tax, payments, change,*)
(* owed, onCash, foreign].  owed is what the customer still owes, onCash   *)
(* that the sale or the refund is settled at once or in cash, foreign that *)
(* the amounts are in dollars.                                             *)
(***************************************************************************)
EXTENDS Integers, Sequences, SequencesExt

CONSTANTS
  Rate, Unit,    \* a dollar is Rate / Unit bolivares; 0 when none is known
  Few            \* the 0.05 a cash sale forgives

ASSUME EntryConstants == Rate \in Nat /\ Unit \in Nat \ {0} /\ Few \in Nat

Least(a, b) == IF a < b THEN a ELSE b
AtLeast0(a) == IF a > 0 THEN a ELSE 0
Distance(a, b) == IF a < b THEN b - a ELSE a - b

\* Math.round of n / d
Rounded(n, d) == (2 * n + d) \div (2 * d)

Debit(account, amount) == [account |-> account, debit |-> amount, credit |-> 0]
Credit(account, amount) == [account |-> account, debit |-> 0, credit |-> amount]

Debits(lines) == SumFunction([i \in DOMAIN lines |-> lines[i].debit])
Credits(lines) == SumFunction([i \in DOMAIN lines |-> lines[i].credit])

Total(p) == p.net + p.tax

-----------------------------------------------------------------------------
(* What was paid, by where it goes: a payment is [method, amount, other],   *)
(* other when it is in the currency the document is not in.                 *)

InDocument(p, pay) ==
  CASE ~pay.other -> pay.amount
    [] pay.other /\ p.foreign -> Rounded(pay.amount * Unit, Rate)
    [] OTHER -> Rounded(pay.amount * Rate, Unit)

PaidBy(p, methods) ==
  SumFunction([i \in DOMAIN p.payments |->
    IF p.payments[i].method \in methods THEN InDocument(p, p.payments[i]) ELSE 0])

\* Change is given out of the cash first; a credit is not a payment.
Settlement(p) ==
  LET cash == PaidBy(p, {"cash"})
      fromCash == Least(AtLeast0(p.change), cash)
  IN [cash |-> cash - fromCash,
      bank |-> AtLeast0(PaidBy(p, {"card", "transfer"}) - (AtLeast0(p.change) - fromCash)),
      points |-> PaidBy(p, {"points"})]

SumOfParts(t) == t.cash + t.bank + t.points

\* More than the total is change nobody entered: out of the cash, then the bank.
Clipped(t, total) ==
  LET excess == AtLeast0(SumOfParts(t) - total)
      fromCash == Least(excess, t.cash)
  IN [t EXCEPT !.cash = @ - fromCash, !.bank = AtLeast0(@ - (excess - fromCash))]

\* A few cents that a cash sale is short of go to the cash.
Forgiven(p, t) ==
  LET short == Total(p) - SumOfParts(t)
  IN IF p.onCash /\ Distance(short, 0) < Few THEN [t EXCEPT !.cash = @ + short] ELSE t

SettlementLines(t) ==
  <<Debit("cash", t.cash), Debit("banks", t.bank), Debit("discounts", t.points)>>

-----------------------------------------------------------------------------

SaleLines(p) ==
  LET t == Forgiven(p, Clipped(Settlement(p), Total(p)))
  IN SettlementLines(t) \o
     <<Debit("receivable", AtLeast0(Total(p) - SumOfParts(t))),
       Credit("income", p.net), Credit("vat owed", p.tax)>>

ReceiptLines(p) ==
  SettlementLines(Settlement(p)) \o <<Credit("receivable", Total(p))>>

CogsLines(p) == <<Debit("cost", p.net), Credit("inventory", p.net)>>

PurchaseLines(p) ==
  <<Debit("inventory", p.net), Debit("vat due", p.tax), Credit("payable", Total(p))>>

\* A refund and a credit note reduce what is owed first; the rest is money
\* that goes back, or that the customer keeps as an advance.
ReliefLines(p, rest) ==
  LET relief == Least(p.owed, Total(p))
  IN <<Debit("returns", p.net), Debit("vat owed", p.tax),
       Credit("receivable", relief), Credit(rest, Total(p) - relief)>>

Funds(p) == IF p.onCash THEN "cash" ELSE "banks"
ReturnLines(p) == ReliefLines(p, Funds(p))

NoteLines(p) ==
  IF p.kind = "credit note" THEN ReliefLines(p, "advances")
  ELSE <<Debit("receivable", Total(p)), Credit("income", p.net), Credit("vat owed", p.tax)>>

WithholdingLines(p) == <<Debit("payable", p.net), Credit("withheld", p.net)>>

PaymentLines(p) == <<Debit("payable", p.net), Credit(Funds(p), p.net)>>

\* owed, here: the expense was paid by credit card, and is owed.
ExpenseLines(p) ==
  <<Debit("expense", p.net), Debit("vat due", p.tax),
    Credit(IF p.owed > 0 THEN "payable" ELSE Funds(p), Total(p))>>

PayrollLines(p) ==
  <<Debit("salaries", Total(p)), Credit("salaries owed", p.net), Credit("withheld", p.tax)>>

LinesOf(p) ==
  CASE p.kind = "sale" -> SaleLines(p)
    [] p.kind = "cogs" -> CogsLines(p)
    [] p.kind = "purchase" -> PurchaseLines(p)
    [] p.kind = "receipt" -> ReceiptLines(p)
    [] p.kind = "return" -> ReturnLines(p)
    [] p.kind \in {"credit note", "debit note"} -> NoteLines(p)
    [] p.kind = "withholding" -> WithholdingLines(p)
    [] p.kind = "payment" -> PaymentLines(p)
    [] p.kind = "expense" -> ExpenseLines(p)
    [] p.kind = "payroll" -> PayrollLines(p)
    [] p.kind = "manual" -> p.lines

-----------------------------------------------------------------------------
(* createEntry.                                                             *)

\* Each line is converted and rounded by itself.
Converted(lines, foreign) ==
  LET Of(n) == IF foreign THEN Rounded(n * Rate, Unit) ELSE n
  IN [i \in DOMAIN lines |-> [lines[i] EXCEPT !.debit = Of(@), !.credit = Of(@)]]

\* The lines that are not empty; the others are dropped, and count for nothing.
Filled(lines) == {i \in DOMAIN lines : lines[i].debit > 0 \/ lines[i].credit > 0}

\* The first of the largest lines of a side, which takes the difference.
LargestDebit(lines) ==
  CHOOSE i \in DOMAIN lines : \A k \in DOMAIN lines :
    \/ lines[k].debit < lines[i].debit
    \/ lines[k].debit = lines[i].debit /\ i <= k
LargestCredit(lines) ==
  CHOOSE i \in DOMAIN lines : \A k \in DOMAIN lines :
    \/ lines[k].credit < lines[i].credit
    \/ lines[k].credit = lines[i].credit /\ i <= k

\* Mutant of Corrected: cents are left lost.
CorrectedNot(lines) == lines

\* A difference of a cent for each line that is kept, at most, is rounding.
Corrected(lines) ==
  LET d == Debits(lines)  c == Credits(lines) IN
  IF d = c \/ d = 0 \/ c = 0 \/ Distance(d, c) > Cardinality(Filled(lines)) THEN lines
  ELSE IF d > c
       THEN [lines EXCEPT ![LargestCredit(lines)].credit = @ + (d - c)]
       ELSE [lines EXCEPT ![LargestDebit(lines)].debit = @ + (c - d)]

EntryLines(p) == Corrected(Converted(LinesOf(p), p.foreign))

Balanced(lines) == Debits(lines) = Credits(lines)

\* What is converted needs a rate.  The database confirms an entry made by hand:
\* two lines at least.
Accepted(p) ==
  /\ p.foreign \/ (\E i \in DOMAIN p.payments : p.payments[i].other) => Rate > 0
  /\ Balanced(EntryLines(p))
  /\ p.kind = "manual" => Len(p.lines) >= 2

=============================================================================
