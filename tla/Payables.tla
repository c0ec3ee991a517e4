------------------------------ MODULE Payables ------------------------------
(***************************************************************************)
(* The account payable of one purchase order, the payments made against it *)
(* and the supplier credits spent on it: registerPayment, updatePayment    *)
(* and applySupplierCredit of purchase.service.ts, with the triggers on    *)
(* purchase_order_payment and purchase_account_payable.  Nothing but those *)
(* triggers keeps the totals, and each of their statements has a snapshot  *)
(* of its own: the SUM is read before the row it is written to is locked.  *)
(***************************************************************************)
EXTENDS Integers, FiniteSets, Functions

CONSTANTS
  Session,      \* the requests of the application that run concurrently
  Id,           \* bound: the rows purchase_order_payment may hold
  Due,          \* subtotal + tax of the order
  Slack,        \* the 0.01 of the comparison
  Payment,      \* what a payment may be of
  Correction,   \* what a payment may be corrected to
  Credit,       \* supplier credits
  Original,     \* [Credit -> Nat]: original_amount
  MayFail,      \* requests may fail, or the process may die
  NoCredit,
  Nobody

PayableConstants ==
  /\ IsFiniteSet(Id) /\ Due \in Nat /\ Slack \in Nat
  /\ Payment \subseteq Nat \ {0} /\ Correction \subseteq Nat \ {0}
  /\ Original \in [Credit -> Nat]
  /\ MayFail \in BOOLEAN
  /\ NoCredit \notin Credit /\ Nobody \notin Session

VARIABLES
  rows,        \* [Id -> Nat]: committed amount_paid of the payments, 0: no row
  payable,     \* the committed totals, and supplier_invoice.paid
  lock,        \* the session that wrote the account_payable row
  remaining,   \* [Credit -> Int]: committed remaining_amount
  applied,     \* [Credit -> Nat]: SUM(amount_applied) of its applications
  spender,     \* [Credit -> Session]: who wrote the supplier_credit row
  pc,          \* what a session does next
  which,       \* the credit a session spends, or NoCredit
  left,        \* what it read of the credit, then what it wrote to it
  amount,      \* what it pays
  own,         \* [Session -> [Id -> Nat]]: payments written, not committed
  sum,         \* the SUM its trigger has read
  mine,        \* the totals it wrote
  calm,        \* history: no two requests were under way at once
  corrected    \* history: a payment was corrected

work == <<which, left, amount, own, sum, mine>>
tables == <<rows, payable, remaining, applied>>
past == <<calm, corrected>>
vars == <<tables, lock, spender, pc, work, past>>

Totals == [paid : Nat, isPaid : BOOLEAN, status : 1 .. 3, invoice : BOOLEAN]
Unpaid == [paid |-> 0, isPaid |-> FALSE, status |-> 1, invoice |-> FALSE]
Zeros == [i \in Id |-> 0]

Paid(p) == SumFunction([i \in Id |-> IF own[p][i] # 0 THEN own[p][i] ELSE rows[i]])

Covers(total) == total + Slack >= Due

\* Mutant of Triggered: the first payment marks the invoice paid.
TriggeredEarly(row, total) ==
  [paid    |-> total,
   isPaid  |-> row.isPaid \/ Covers(total),
   status  |-> IF Covers(total) THEN 3 ELSE IF total > 0 THEN 2 ELSE row.status,
   invoice |-> row.invoice \/ total > 0]

\* check_account_payable_completion, and update_invoice_paid_status when the
\* status becomes 3.
Triggered(row, total) ==
  [paid    |-> total,
   isPaid  |-> row.isPaid \/ Covers(total),
   status  |-> IF Covers(total) THEN 3 ELSE IF total > 0 THEN 2 ELSE row.status,
   invoice |-> row.invoice \/ (Covers(total) /\ row.status # 3)]

Free(i) == rows[i] = 0 /\ \A p \in Session : own[p][i] = 0

\* bound: there is a row left besides those the requests under way insert
HasRoom == Cardinality({i \in Id : Free(i)}) >
             Cardinality({p \in Session : pc[p] \in {"balance", "pay"}})

Quiet == \A p \in Session : pc[p] = "idle"

Goto(p, label) == pc' = [pc EXCEPT ![p] = label]

\* The request is over: its locks, and what it held, are gone.
Release(p) ==
  /\ lock' = IF lock = p THEN Nobody ELSE lock
  /\ spender' = [c \in Credit |-> IF spender[c] = p THEN Nobody ELSE spender[c]]
  /\ which' = [which EXCEPT ![p] = NoCredit]
  /\ left' = [left EXCEPT ![p] = 0]
  /\ amount' = [amount EXCEPT ![p] = 0]
  /\ own' = [own EXCEPT ![p] = Zeros]
  /\ sum' = [sum EXCEPT ![p] = 0]
  /\ mine' = [mine EXCEPT ![p] = Unpaid]
  /\ Goto(p, "idle")
  /\ UNCHANGED past

-----------------------------------------------------------------------------
(* What a request reads before its transaction. *)

Register(p, a) ==
  /\ pc[p] = "idle" /\ HasRoom
  /\ calm' = (calm /\ Quiet)
  /\ which' = [which EXCEPT ![p] = NoCredit]
  /\ amount' = [amount EXCEPT ![p] = a]
  /\ Goto(p, "pay")
  /\ UNCHANGED <<tables, corrected, lock, spender, left, own, sum, mine>>

\* applySupplierCredit: status AVAILABLE, something remaining
ReadCredit(p, c) ==
  /\ pc[p] = "idle" /\ HasRoom
  /\ calm' = (calm /\ Quiet)
  /\ remaining[c] > 0
  /\ which' = [which EXCEPT ![p] = c]
  /\ left' = [left EXCEPT ![p] = remaining[c]]
  /\ Goto(p, "balance")
  /\ UNCHANGED <<tables, corrected, lock, spender, amount, own, sum, mine>>

\* Mutant of ReadBalance: spends the whole credit, whatever is due.
ReadBalanceIgnored(p) ==
  /\ pc[p] = "balance"
  /\ IF payable.paid < Due
       THEN amount' = [amount EXCEPT ![p] = left[p]] /\ Goto(p, "pay")
       ELSE amount' = amount /\ Goto(p, "idle")
  /\ UNCHANGED <<tables, past, lock, spender, which, left, own, sum, mine>>

\* getPurchaseOrderById: pays what is due, or the credit if that is less
ReadBalance(p) ==
  /\ pc[p] = "balance"
  /\ LET balance == Due - payable.paid IN
       IF balance > 0
         THEN /\ \E a \in 1 .. left[p] :
                   /\ a = IF balance < left[p] THEN balance ELSE left[p]
                   /\ amount' = [amount EXCEPT ![p] = a]
              /\ Goto(p, "pay")
              /\ UNCHANGED <<tables, past, lock, spender, which, left, own, sum, mine>>
         ELSE Release(p) /\ UNCHANGED tables

-----------------------------------------------------------------------------
(* The transaction. *)

\* insertPayment
Pay(p) ==
  /\ pc[p] = "pay"
  /\ \E i \in Id : Free(i) /\ own' = [own EXCEPT ![p] = [@ EXCEPT ![i] = amount[p]]]
  /\ Goto(p, "sum")
  /\ UNCHANGED <<tables, past, lock, spender, which, left, amount, sum, mine>>

\* updatePayment: waits for the row, and the trigger runs as for an insert
Correct(p, i, a) ==
  /\ pc[p] = "idle" /\ rows[i] # 0
  /\ \A q \in Session : own[q][i] = 0
  /\ own' = [own EXCEPT ![p] = [@ EXCEPT ![i] = a]]
  /\ which' = [which EXCEPT ![p] = NoCredit]
  /\ calm' = (calm /\ Quiet) /\ corrected' = TRUE
  /\ Goto(p, "sum")
  /\ UNCHANGED <<tables, lock, spender, left, amount, sum, mine>>

ReadSum(p) ==
  /\ pc[p] = "sum"
  /\ sum' = [sum EXCEPT ![p] = Paid(p)]
  /\ Goto(p, "write")
  /\ UNCHANGED <<tables, past, lock, spender, which, left, amount, own, mine>>

TriggerWrite(p) ==
  /\ pc[p] = "write" /\ lock \in {Nobody, p}
  /\ lock' = p
  /\ mine' = [mine EXCEPT ![p] = Triggered(payable, sum[p])]
  /\ Goto(p, IF which[p] = NoCredit THEN "commit" ELSE "spend")
  /\ UNCHANGED <<tables, past, spender, which, left, amount, own, sum>>

\* Mutant of Spend: writes what was read before the transaction, less the
\* amount.
SpendFromRead(p) ==
  /\ pc[p] = "spend" /\ spender[which[p]] = Nobody
  /\ spender' = [spender EXCEPT ![which[p]] = p]
  /\ left' = [left EXCEPT ![p] = @ - amount[p]]
  /\ Goto(p, "commit")
  /\ UNCHANGED <<tables, past, lock, which, amount, own, sum, mine>>

\* recordApplication and decrementRemaining: a relative update, which reads
\* the row again after waiting for it
Spend(p) ==
  /\ pc[p] = "spend" /\ spender[which[p]] = Nobody
  /\ spender' = [spender EXCEPT ![which[p]] = p]
  /\ left' = [left EXCEPT ![p] = remaining[which[p]] - amount[p]]
  /\ Goto(p, "commit")
  /\ UNCHANGED <<tables, past, lock, which, amount, own, sum, mine>>

Commit(p) ==
  /\ pc[p] = "commit"
  /\ rows' = [i \in Id |-> IF own[p][i] # 0 THEN own[p][i] ELSE rows[i]]
  /\ payable' = mine[p]
  /\ remaining' = [c \in Credit |-> IF spender[c] = p THEN left[p]
                                                      ELSE remaining[c]]
  /\ applied' = [c \in Credit |-> IF which[p] = c THEN applied[c] + amount[p]
                                                  ELSE applied[c]]
  /\ Release(p)

\* An error or a dead process: the transaction, if any, is rolled back.
Fail(p) == MayFail /\ pc[p] # "idle" /\ Release(p) /\ UNCHANGED tables

-----------------------------------------------------------------------------
Init ==
  /\ rows = Zeros /\ payable = Unpaid /\ lock = Nobody
  /\ remaining = Original
  /\ applied = [c \in Credit |-> 0]
  /\ spender = [c \in Credit |-> Nobody]
  /\ pc = [p \in Session |-> "idle"]
  /\ which = [p \in Session |-> NoCredit]
  /\ left = [p \in Session |-> 0]
  /\ amount = [p \in Session |-> 0]
  /\ own = [p \in Session |-> Zeros]
  /\ sum = [p \in Session |-> 0]
  /\ mine = [p \in Session |-> Unpaid]
  /\ calm = TRUE /\ corrected = FALSE

\* The payments the bound allows have been made.
Rest == ~ HasRoom /\ Quiet /\ UNCHANGED vars

Next ==
  \/ \E p \in Session :
       \/ \E a \in Payment : Register(p, a)
       \/ \E c \in Credit : ReadCredit(p, c)
       \/ ReadBalance(p) \/ Pay(p) \/ ReadSum(p) \/ TriggerWrite(p) \/ Spend(p)
       \/ \E i \in Id, a \in Correction : Correct(p, i, a)
       \/ Commit(p) \/ Fail(p)
  \/ Rest

Spec == Init /\ [][Next]_vars

-----------------------------------------------------------------------------
(* The state is well formed, and a session at rest holds nothing. *)
TypeOK ==
  /\ rows \in [Id -> Nat] /\ own \in [Session -> [Id -> Nat]]
  /\ payable \in Totals /\ mine \in [Session -> Totals]
  /\ remaining \in [Credit -> Int] /\ applied \in [Credit -> Nat]
  /\ left \in [Session -> Int] /\ amount \in [Session -> Nat]
  /\ sum \in [Session -> Nat]
  /\ which \in [Session -> Credit \cup {NoCredit}]
  /\ lock \in Session \cup {Nobody}
  /\ spender \in [Credit -> Session \cup {Nobody}]
  /\ \A p \in Session : pc[p] = "idle" =>
       own[p] = Zeros /\ lock # p /\ \A c \in Credit : spender[c] # p

(* A supplier credit is conserved: what remains of it and what was applied *)
(* of it are what it was for, however many requests read and spend it at   *)
(* once.                                                                   *)
CreditConserved == \A c \in Credit : remaining[c] + applied[c] = Original[c]

(* The supplier's invoice is marked paid only when the payments cover the  *)
(* order, though the mark is set by a trigger of a trigger that may have   *)
(* read a sum which is gone; it is never taken back, so not once a payment *)
(* was corrected.                                                          *)
InvoiceCovered == ~corrected /\ payable.invoice => Covers(SumFunction(rows))

(* If no two requests ran at once, amount_paid is the sum of the payments  *)
(* and the status follows it, corrections and failures included.           *)
TotalsAgree ==
  calm /\ (\E i \in Id : rows[i] # 0) =>
    /\ payable.paid = SumFunction(rows)
    /\ payable.status = IF Covers(payable.paid) THEN 3 ELSE 2

(* What the supplier is shown as owed is what was paid, on the order and   *)
(* on the invoice.                                                         *)
PayableAgrees == InvoiceCovered /\ TotalsAgree

(* A credit never pays more than is due: applySupplierCredit refuses a     *)
(* payable without balance and takes the lesser of the credit and the      *)
(* balance (purchase.service.ts:434-445).  It reads both before its        *)
(* transaction, so while no two requests have run at once.                 *)
CreditFits ==
  [][\A c \in Credit : calm' /\ applied'[c] > applied[c] =>
       SumFunction(rows') <= Due /\ remaining'[c] >= 0]_vars

=============================================================================
