---------------------------- MODULE Receivables ----------------------------
(***************************************************************************)
(* One sale on credit or in layaway ("apartado") and its account           *)
(* receivable: accounts-receivable.service.ts, the queries it sends, and   *)
(* the trigger on sale_collection.  Sessions register collections and      *)
(* correct them concurrently, each inside a READ COMMITTED transaction: a  *)
(* statement reads the committed rows and its own writes, as they are when *)
(* the statement (or, inside the trigger, its query) starts, and an UPDATE *)
(* then waits for the row lock without reading its subqueries again.       *)
(***************************************************************************)
EXTENDS Naturals, FiniteSets, Functions

CONSTANTS
  Session,      \* the requests of the application that run concurrently
  Id,           \* bound: 1 .. n, the rows sale_collection may hold
  Due,          \* subtotal + tax of the sale
  Slack,        \* the 0.01 of the comparisons
  Upfront,      \* what a customer may pay when the sale is created
  Payment,      \* what a collection may be of
  Correction,   \* what a collection may be corrected to
  HasTrigger,   \* recalc_account_receivable_on_collection is installed
  Legacy,       \* whether the sale was made before its upfront payment had a
                \* row: the possibilities
  MayFail,      \* requests may fail, or the process may die
  Nobody

ASSUME ReceivableConstants ==
  /\ Id \subseteq Nat /\ IsFiniteSet(Id) /\ Due \in Nat /\ Slack \in Nat
  /\ Upfront \subseteq Nat
  /\ Payment \subseteq Nat \ {0} /\ Correction \subseteq Nat \ {0}
  /\ HasTrigger \in BOOLEAN /\ Legacy \subseteq BOOLEAN /\ MayFail \in BOOLEAN
  /\ Nobody \notin Session

VARIABLES
  kind,      \* account_receivable_type, "none" before the sale exists
  rows,      \* committed sale_collection.amount_paid, 0: no such row
  notes,     \* where a row came from: "upfront", "migrated", "collection"
  ar,        \* the committed account_receivable, with the status of its sale
  sale,      \* is_completed, and how often the goods left the warehouse
  settled,   \* history: a committed account_receivable was paid
  lock,      \* the session that wrote the account_receivable row
  pc,        \* the statement a session sends next
  own,       \* the collections a session wrote and has not committed
  mine,      \* the account_receivable row the session at "lock" wrote
  sum,       \* the SUM the statement in progress has read
  payment,   \* the amount a session registers
  smooth,    \* history: no request failed and no collection was corrected
  calm       \* history: no two requests were under way at once

vars == <<kind, rows, notes, ar, sale, settled, lock, pc, own, mine, sum, payment,
          smooth, calm>>

Account == [paid : Nat, isPaid : BOOLEAN, status : {1, 2, 3}]
NoAccount == [paid |-> 0, isPaid |-> FALSE, status |-> 1]
Zeros == [i \in Id |-> 0]

-----------------------------------------------------------------------------
(* What the statements compute *)

Collections(p) == [i \in Id |-> IF own[p][i] # 0 THEN own[p][i] ELSE rows[i]]

Paid(p) == SumFunction(Collections(p))

Covers(total) == total + Slack >= Due

\* check_account_receivable_completion
Triggered(row, total) ==
  [paid   |-> total,
   isPaid |-> row.isPaid \/ Covers(total),
   status |-> IF Covers(total) THEN 3 ELSE IF total > 0 THEN 2 ELSE row.status]

\* Mutant of Recalculated: the status follows the flag before the update.
RecalculatedOldFlag(row, total) ==
  [paid   |-> total,
   isPaid |-> Covers(total),
   status |-> IF row.isPaid THEN 3 ELSE IF total > 0 THEN 2 ELSE 1]

\* recalcReceivableTotals
Recalculated(row, total) ==
  [paid   |-> total,
   isPaid |-> Covers(total),
   status |-> IF Covers(total) THEN 3 ELSE IF total > 0 THEN 2 ELSE 1]

Free(i) == rows[i] = 0 /\ \A p \in Session : own[p][i] = 0
Fresh(i) == Free(i) /\ \A j \in Id : j < i => ~ Free(j)

\* bound: there are n rows left besides those the requests under way insert
HasRoom(n) ==
  Cardinality({i \in Id : Free(i)}) >=
    n + Cardinality({p \in Session :
                       pc[p] \in {"sumMigrated", "setMigrated", "insert"}})

\* the account_receivable row as session p sees it
Row(p) == IF lock = p THEN mine[p] ELSE ar

Quiet == \A p \in Session : pc[p] = "idle"

Goto(p, label) == pc' = [pc EXCEPT ![p] = label]

Write(p, i, amount, note) ==
  /\ own' = [own EXCEPT ![p] = [@ EXCEPT ![i] = amount]]
  /\ notes' = [notes EXCEPT ![i] = note]

-----------------------------------------------------------------------------
(* createFullSale: the receivable, its upfront payment and the sale, in    *)
(* one transaction.  A legacy sale has no row for its upfront payment.     *)

CreateSale(k, upfront, completed, legacy) ==
  /\ kind = "none"
  /\ k = "apartado" \/ upfront < Due
  /\ kind' = k
  /\ sale' = [completed |-> completed /\ ~ Due > upfront + Slack,
              left |-> IF k = "apartado" THEN 0 ELSE 1]
  /\ LET row == [paid |-> upfront, isPaid |-> FALSE,
                 status |-> IF upfront > 0 THEN 2 ELSE 1]
     IN  IF legacy \/ upfront = 0
         THEN ar' = row /\ UNCHANGED <<rows, notes>>
         ELSE \E i \in Id :
                /\ Fresh(i)
                /\ rows' = [rows EXCEPT ![i] = upfront]
                /\ notes' = [notes EXCEPT ![i] = "upfront"]
                /\ ar' = IF HasTrigger
                         THEN Triggered(row, SumFunction(rows')) ELSE row
  /\ settled' = ar'.isPaid
  /\ UNCHANGED <<lock, pc, own, mine, sum, payment, smooth, calm>>

-----------------------------------------------------------------------------
(* registerCollection *)

\* Mutant of Backfill: does not subtract the rows that are there.
BackfillWhole(p, amount) ==
  /\ pc[p] = "idle" /\ kind # "none"
  /\ HasRoom(IF ar.paid > Slack THEN 2 ELSE 1)
  /\ calm' = (calm /\ Quiet)
  /\ payment' = [payment EXCEPT ![p] = amount]
  /\ IF ar.paid > Slack
     THEN /\ \E i \in Id : Fresh(i) /\ Write(p, i, ar.paid, "migrated")
          /\ Goto(p, IF HasTrigger THEN "sumMigrated" ELSE "insert")
     ELSE /\ Goto(p, "insert")
          /\ UNCHANGED <<own, notes>>
  /\ UNCHANGED <<kind, rows, ar, sale, settled, lock, mine, sum, smooth>>

\* backfillMissingInitialCollection, the first statement of the request
Backfill(p, amount) ==
  /\ pc[p] = "idle" /\ kind # "none"
  /\ HasRoom(IF ar.paid > Paid(p) + Slack THEN 2 ELSE 1)
  /\ calm' = (calm /\ Quiet)
  /\ payment' = [payment EXCEPT ![p] = amount]
  /\ IF ar.paid > Paid(p) + Slack
     THEN /\ \E i \in Id : Fresh(i) /\ Write(p, i, ar.paid - Paid(p), "migrated")
          /\ Goto(p, IF HasTrigger THEN "sumMigrated" ELSE "insert")
     ELSE /\ Goto(p, "insert")
          /\ UNCHANGED <<own, notes>>
  /\ UNCHANGED <<kind, rows, ar, sale, settled, lock, mine, sum, smooth>>

Insert(p) ==
  /\ pc[p] = "insert"
  /\ \E i \in Id : Fresh(i) /\ Write(p, i, payment[p], "collection")
  /\ Goto(p, IF HasTrigger THEN "sumInserted" ELSE "sumRecalc")
  /\ UNCHANGED <<kind, rows, ar, sale, settled, lock, mine, sum, payment, smooth, calm>>

\* the trigger's SELECT SUM, and the CTE "paid" of recalcReceivableTotals
ReadSum(p) ==
  /\ pc[p] \in {"sumMigrated", "sumInserted", "sumCorrected", "sumRecalc"}
  /\ sum' = [sum EXCEPT ![p] = Paid(p)]
  /\ Goto(p, CASE pc[p] = "sumMigrated"  -> "setMigrated"
               [] pc[p] = "sumInserted"  -> "setInserted"
               [] pc[p] = "sumCorrected" -> "setCorrected"
               [] pc[p] = "sumRecalc"    -> "setRecalc")
  /\ UNCHANGED <<kind, rows, notes, ar, sale, settled, lock, own, mine, payment, smooth, calm>>

\* the trigger's UPDATEs: they wait for the row lock, then write the old SUM
TriggerWrite(p) ==
  /\ pc[p] \in {"setMigrated", "setInserted", "setCorrected"}
  /\ lock \in {Nobody, p}
  /\ lock' = p
  /\ mine' = [mine EXCEPT ![p] = Triggered(Row(p), sum[p])]
  /\ Goto(p, IF pc[p] = "setMigrated" THEN "insert" ELSE "sumRecalc")
  /\ UNCHANGED <<kind, rows, notes, ar, sale, settled, own, sum, payment, smooth, calm>>

\* Mutant of RecalcWrite: leaves the totals to the trigger.
RecalcSkipped(p) ==
  /\ pc[p] = "setRecalc"
  /\ Goto(p, IF payment[p] = 0 THEN "commitCorrection" ELSE "commit")
  /\ UNCHANGED <<kind, rows, notes, ar, sale, settled, lock, own, mine, sum, payment, smooth, calm>>

\* the UPDATEs of recalcReceivableTotals
RecalcWrite(p) ==
  /\ pc[p] = "setRecalc"
  /\ lock \in {Nobody, p}
  /\ lock' = p
  /\ mine' = [mine EXCEPT ![p] = Recalculated(Row(p), sum[p])]
  /\ Goto(p, IF payment[p] = 0 THEN "commitCorrection" ELSE "commit")
  /\ UNCHANGED <<kind, rows, notes, ar, sale, settled, own, sum, payment, smooth, calm>>

\* the locks are released, what the session held is dead
EndTransaction(p) ==
  /\ lock' = IF lock = p THEN Nobody ELSE lock
  /\ own' = [own EXCEPT ![p] = Zeros]
  /\ mine' = [mine EXCEPT ![p] = NoAccount]
  /\ sum' = [sum EXCEPT ![p] = 0]
  /\ payment' = [payment EXCEPT ![p] = 0]

Commit(p) ==
  /\ pc[p] \in {"commit", "commitCorrection"}
  /\ rows' = Collections(p) /\ ar' = mine[p]
  /\ settled' = (settled \/ mine[p].isPaid)
  /\ EndTransaction(p)
  /\ Goto(p, IF pc[p] = "commit" THEN "reread" ELSE "idle")
  /\ UNCHANGED <<kind, notes, sale, smooth, calm>>

\* Mutant of Reread: completes the sale without looking at is_paid.
RereadNothing(p) ==
  /\ pc[p] = "reread"
  /\ Goto(p, "complete")
  /\ UNCHANGED <<kind, rows, notes, ar, sale, settled, lock, own, mine, sum, payment, smooth, calm>>

\* after the commit: getARTypeAndSaleInfo
Reread(p) ==
  /\ pc[p] = "reread"
  /\ Goto(p, IF ar.isPaid THEN "complete" ELSE "idle")
  /\ UNCHANGED <<kind, rows, notes, ar, sale, settled, lock, own, mine, sum, payment, smooth, calm>>

\* completeCreditSale
CompleteCredit(p) ==
  /\ pc[p] = "complete" /\ kind = "credit"
  /\ sale' = [sale EXCEPT !.completed = TRUE]
  /\ Goto(p, "idle")
  /\ UNCHANGED <<kind, rows, notes, ar, settled, lock, own, mine, sum, payment, smooth, calm>>

\* completeApartado, when its own transaction commits
CompleteApartado(p) ==
  /\ pc[p] = "complete" /\ kind = "apartado"
  /\ sale' = [completed |-> TRUE, left |-> sale.left + 1]
  /\ Goto(p, "idle")
  /\ UNCHANGED <<kind, rows, notes, ar, settled, lock, own, mine, sum, payment, smooth, calm>>

-----------------------------------------------------------------------------
(* updateCollection: its UPDATE waits for the lock of the collection row *)

Correct(p, i, amount) ==
  /\ pc[p] = "idle" /\ rows[i] # 0
  /\ \A q \in Session : own[q][i] = 0
  /\ own' = [own EXCEPT ![p] = [@ EXCEPT ![i] = amount]]
  /\ payment' = [payment EXCEPT ![p] = 0]
  /\ smooth' = FALSE /\ calm' = (calm /\ Quiet)
  /\ Goto(p, IF HasTrigger THEN "sumCorrected" ELSE "sumRecalc")
  /\ UNCHANGED <<kind, rows, notes, ar, sale, settled, lock, mine, sum>>

(* A request fails where it stands: the transaction is rolled back, or,    *)
(* after the commit, the sale is not completed (completeApartado and       *)
(* completeCreditSale only log their errors, and a dead process is silent) *)
Fail(p) ==
  /\ MayFail /\ pc[p] # "idle"
  /\ EndTransaction(p)
  /\ smooth' = FALSE
  /\ Goto(p, "idle")
  /\ UNCHANGED <<kind, rows, notes, ar, sale, settled, calm>>

Rest ==
  /\ Quiet
  /\ ~ HasRoom(2)
  /\ UNCHANGED vars

-----------------------------------------------------------------------------

Collect(p) ==
  \/ Insert(p) \/ ReadSum(p) \/ TriggerWrite(p) \/ RecalcWrite(p)
  \/ Commit(p) \/ Reread(p) \/ CompleteCredit(p) \/ CompleteApartado(p)

Init ==
  /\ kind = "none" /\ lock = Nobody /\ settled = FALSE
  /\ rows = Zeros /\ notes = [i \in Id |-> "collection"]
  /\ ar = NoAccount
  /\ sale = [completed |-> FALSE, left |-> 0]
  /\ pc = [p \in Session |-> "idle"]
  /\ own = [p \in Session |-> Zeros]
  /\ mine = [p \in Session |-> NoAccount]
  /\ sum = [p \in Session |-> 0]
  /\ payment = [p \in Session |-> 0]
  /\ smooth = TRUE /\ calm = TRUE

Next ==
  \/ \E k \in {"credit", "apartado"}, u \in Upfront, c \in BOOLEAN :
     \E l \in Legacy : CreateSale(k, u, c, l)
  \/ \E p \in Session :
       \/ \E a \in Payment : Backfill(p, a)
       \/ Collect(p)
       \/ \E i \in Id, a \in Correction : Correct(p, i, a)
       \/ Fail(p)
  \/ Rest

Spec == Init /\ [][Next]_vars

-----------------------------------------------------------------------------

(* The state is well formed, and sessions at work hold what they wrote. *)
TypeOK ==
  /\ kind \in {"none", "credit", "apartado"}
  /\ rows \in [Id -> Nat] /\ own \in [Session -> [Id -> Nat]]
  /\ notes \in [Id -> {"upfront", "migrated", "collection"}]
  /\ ar \in Account /\ mine \in [Session -> Account]
  /\ sale \in [completed : BOOLEAN, left : Nat]
  /\ settled \in BOOLEAN /\ lock \in Session \cup {Nobody}
  /\ \A p \in Session : pc[p] = "idle" => own[p] = Zeros /\ lock # p

(* amount_paid is the sum of the collections and is_paid says whether they *)
(* cover the sale, however collections and corrections are interleaved: no *)
(* payment is lost between one session's SUM and its UPDATE.               *)
BooksAgree ==
  (\E i \in Id : rows[i] # 0) =>
     ar.paid = SumFunction(rows) /\ (ar.isPaid <=> Covers(ar.paid))

(* The status shown to the user is the one the amounts give. *)
StatusAgrees ==
  (\E i \in Id : rows[i] # 0) =>
     ar.status = IF Covers(ar.paid) THEN 3 ELSE 2

(* The upfront payment is counted once: a sale never has two rows that     *)
(* record what was paid when it was created, and the first collection on a *)
(* legacy account adds it, unless two of them run at once.                 *)
UpfrontOnce ==
  calm \/ (\E i \in Id : notes[i] = "upfront") =>
    \A i, j \in Id :
      (rows[i] # 0 /\ rows[j] # 0 /\ notes[i] # "collection" /\ notes[j] # "collection")
         => i = j

(* What the user is shown: the status, and the collections it comes from.  *)
AccountShown == StatusAgrees /\ UpfrontOnce

(* A layaway's goods are not released, and no sale with a balance is       *)
(* completed, before the receivable has been paid.                         *)
ReleasedAfterPaid ==
  /\ kind = "apartado" /\ sale.left > 0 => settled
  /\ kind # "none" /\ sale.completed => settled \/ Covers(ar.paid)

(* A credit sale whose collections cover it is completed once the requests *)
(* are over, however many paid it at once, if none of them failed and no   *)
(* collection was corrected.                                               *)
PaidCreditCompletes ==
  Quiet /\ smooth /\ kind = "credit" /\ settled
     => sale.completed

(* Goods go out, and a sale is closed, when it is paid: never sooner, and  *)
(* in the end always.                                                      *)
GoodsFollowPayment == ReleasedAfterPaid /\ PaidCreditCompletes

=============================================================================
