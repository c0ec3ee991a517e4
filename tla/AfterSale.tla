------------------------------ MODULE AfterSale ------------------------------
(***************************************************************************)
(* What may happen to one invoiced sale afterwards: lines are returned     *)
(* (returns.service.ts, and the trigger update_on_return, which keeps the  *)
(* lines and the totals of the sale and of its invoice), lines are deleted *)
(* (sale-item.service.ts, which keeps nothing else), the sale is refunded  *)
(* as a whole, and credit and debit notes adjust the invoice               *)
(* (credit-debit-note.service.ts), one of which may leave a credit with a  *)
(* supplier.                                                               *)
(*                                                                         *)
(* A line of the sale and the line of its invoice change together, by the  *)
(* same statements of the trigger, and are one row here; 0 is a line that  *)
(* was deleted.  The rows of return_product go with their line (ON DELETE  *)
(* CASCADE), so what has been returned is kept in rows of its own, one for *)
(* each line and session: inserts of two requests do not wait for another. *)
(* Erased(l) is history, which no statement reads: the pieces that were    *)
(* deleted with the line.                                                  *)
(***************************************************************************)
EXTENDS Database, Functions, Sequences

CONSTANTS
  Line,          \* the lines of the sale
  Sold,          \* [Line -> Nat]: their quantity when sold
  Price,         \* [Line -> Nat]: unit_price
  Invoice, Sale, \* the rows that hold the totals
  Note,          \* slots for credit and debit notes
  Amount,        \* what a note may be of
  Slack,         \* the 0.01 of the comparison
  Rate,          \* bolivares for a dollar
  Absent,        \* the value of a slot that holds no row
  MaxReturned    \* bound: returns of one line, those lost included

vars == <<db, mine, at, job, calm>>

Returned(l, s) == <<"returned", l, s>>
CreditOf(n) == <<"credit", n>>
Erased(l) == <<"erased", l>>

Row == Line \cup {Invoice, Sale} \cup Note
         \cup {Returned(l, s) : l \in Line, s \in Session}
         \cup {CreditOf(n) : n \in Note} \cup {Erased(l) : l \in Line}

NoteRow == [type : {"credit", "debit"}, amount : Amount,
            damaged : BOOLEAN, voided : BOOLEAN]

\* Rows of different tables differ.
SaleConstants ==
  /\ IsFiniteSet(Line) /\ IsFiniteSet(Note) /\ IsFiniteSet(Session)
  /\ Sold \in [Line -> Nat \ {0}] /\ Price \in [Line -> Nat]
  /\ Amount \subseteq Nat \ {0} /\ Slack \in Nat /\ Rate \in Nat \ {0}
  /\ MaxReturned \in Nat
  /\ Line \cap Note = {} /\ {Invoice, Sale} \cap (Line \cup Note) = {} /\ Invoice # Sale
  /\ LET rows == Line \cup {Invoice, Sale} \cup Note
     IN /\ \A l \in Line, s \in Session : Returned(l, s) \notin rows
        /\ \A n \in Note : CreditOf(n) \notin rows
        /\ \A l \in Line : Erased(l) \notin rows
  /\ Absent \notin Nat /\ Absent \notin NoteRow

\* What lines of these quantities are worth.
Worth(quantity) == SumFunction([l \in Line |-> quantity[l] * Price[l]])

Init ==
  /\ db = [r \in Row |->
             CASE r \in Line -> Sold[r]
               [] r = Invoice -> Worth(Sold)
               [] r = Sale -> [total |-> Worth(Sold), refunded |-> FALSE]
               [] r \in Note \cup {CreditOf(n) : n \in Note} -> Absent
               [] OTHER -> 0]
  /\ RequestsInit

-----------------------------------------------------------------------------
(* createPartialRefund: the lines asked for are inserted by one statement, *)
(* and the trigger runs for each of them in turn.  job.items are those     *)
(* still to come, job.held the lines whose foreign key the transaction has *)
(* locked: they cannot be deleted under it.                                *)

HasReturned(l) == SumFunction([s \in Session |-> db[Returned(l, s)]])

\* Nobody else has deleted the line, nor holds the key a deletion needs.
Deleted(s, l) == \E t \in Session \ {s} : l \in DOMAIN mine[t] /\ mine[t][l] = 0
KeyFree(s, l) ==
  {t \in Session \ {s} : at[t] # "idle" /\ l \in job[t].held} = {}

Item == UNION {{<<l, n>> : n \in 1 .. Sold[l]} : l \in Line}

StartReturn(s) ==
  \E items \in {<<i>> : i \in Item} \cup (Item \X Item) :
    /\ Len(items) = 2 => items[1][1] # items[2][1]
    /\ \A i \in 1 .. Len(items) :
         HasReturned(items[i][1]) + items[i][2] <= MaxReturned
    /\ Begin(s, "take", [items |-> items, held |-> {}, left |-> 0, sum |-> 0])

\* The foreign key of the return_product row, then the SELECT of the trigger
\* and its test.
TakeLine(s) ==
  LET i == Head(job[s].items) IN
  /\ at[s] = "take" /\ ~Deleted(s, i[1])
  /\ IF Sees(s, i[1]) < i[2] THEN Rollback(s)
     ELSE Look(s, "line", [job[s] EXCEPT !.held = @ \cup {i[1]},
                                         !.left = Sees(s, i[1])])

\* Mutant of PutLine: a line is taken back whole.
PutLineWhole(s) ==
  LET i == Head(job[s].items)
      back == [r \in {i[1], Returned(i[1], s)} |->
                 IF r = i[1] THEN 0 ELSE Sees(s, r) + i[2]]
  IN /\ at[s] = "line" /\ KeyFree(s, i[1])
     /\ Write(s, back, "sum", job[s])

\* UPDATE sale_item to what was read less what is returned, or DELETE it.
PutLine(s) ==
  LET i == Head(job[s].items)
      left == job[s].left - i[2]
      back == [r \in {i[1], Returned(i[1], s)} |->
                 IF r = i[1] THEN left ELSE Sees(s, r) + i[2]]
  IN /\ at[s] = "line"
     /\ left = 0 => KeyFree(s, i[1])
     /\ Write(s, back, "sum", job[s])

\* What the lines are worth to a statement of s.
Total(s) == Worth([l \in Line |-> Sees(s, l)])

\* SELECT SUM of the invoice items
SumInvoice(s) ==
  /\ at[s] = "sum"
  /\ Look(s, "invoice", [job[s] EXCEPT !.sum = Total(s)])

PutInvoice(s) ==
  /\ at[s] = "invoice"
  /\ Write(s, [r \in {Invoice} |-> job[s].sum], "sumsale", job[s])

\* SELECT SUM of the sale items: it runs when the invoice is locked.
SumSale(s) ==
  /\ at[s] = "sumsale"
  /\ Look(s, "sale", [job[s] EXCEPT !.sum = Total(s)])

PutSale(s) ==
  LET rest == Tail(job[s].items) IN
  /\ at[s] = "sale"
  /\ Write(s, [r \in {Sale} |-> [Sees(s, Sale) EXCEPT !.total = job[s].sum]],
           IF rest = <<>> THEN "commit" ELSE "take", [job[s] EXCEPT !.items = rest])

-----------------------------------------------------------------------------
(* SaleItemService.deleteItem: one DELETE, by itself, of a line nobody has  *)
(* written and whose key nobody holds.  The line of the invoice and the     *)
(* rows of return_product go by their foreign keys; no trigger tells the    *)
(* totals, nor the stock.                                                   *)

DeleteItem(s) ==
  /\ at[s] = "idle" /\ UNCHANGED <<mine, at, job>> /\ calm' = (calm /\ Quiet)
  /\ \E l \in Line :
       /\ db[l] > 0 /\ Free(s, {l}) /\ KeyFree(s, l)
       /\ db' = [db EXCEPT ![l] = 0, ![Erased(l)] = @ + db[l]]

-----------------------------------------------------------------------------
(* processFullRefund: the flag of the sale, and nothing else of it.         *)

StartRefund(s) ==
  Begin(s, "refund", [items |-> <<>>, held |-> {}, left |-> 0, sum |-> 0])

MarkRefunded(s) ==
  /\ at[s] = "refund"
  /\ Write(s, [r \in {Sale} |-> [Sees(s, Sale) EXCEPT !.refunded = TRUE]],
           "commit", job[s])

-----------------------------------------------------------------------------
(* Credit and debit notes.                                                  *)

Active(type) == {n \in Note : /\ db[n] # Absent
                              /\ db[n].type = type /\ ~db[n].voided}
SumOf(N) == SumFunction([n \in N |-> db[n].amount])

\* getInvoiceContext; a debit note is not limited
StartNote(s) ==
  \E note \in NoteRow :
    /\ ~note.voided /\ (note.type = "debit" => ~note.damaged)
    /\ Begin(s, IF note.type = "credit" THEN "credits" ELSE "note",
             [note |-> note, ceiling |-> db[Invoice], held |-> {}])

\* Mutant of CheckCredits: notes of credit given before are not subtracted.
CheckCreditsBlind(s) ==
  /\ at[s] = "credits"
  /\ IF job[s].note.amount > job[s].ceiling + SumOf(Active("debit")) + Slack
     THEN Rollback(s) ELSE Look(s, "note", job[s])

\* sumActiveByInvoice, and the test of the creditable balance
CheckCredits(s) ==
  /\ at[s] = "credits"
  /\ IF job[s].note.amount > job[s].ceiling - SumOf(Active("credit"))
                               + SumOf(Active("debit")) + Slack
     THEN Rollback(s) ELSE Look(s, "note", job[s])

\* bound: Note.  A new row, always.
InsertNote(s) ==
  /\ at[s] = "note"
  /\ \E n \in Note :
       /\ db[n] = Absent /\ Free(s, {n})
       /\ Write(s, [r \in {n} |-> job[s].note],
                IF job[s].note.damaged THEN "supplier" ELSE "commit",
                [note |-> n, dollars |-> job[s].note.amount \div Rate, held |-> {}])

InsertCredit(s) ==
  /\ at[s] = "supplier"
  /\ Write(s, [r \in {CreditOf(job[s].note)} |-> job[s].dollars], "commit", job[s])

\* voidNote reads is_voided, then updates the row if it still is not.
StartVoid(s) ==
  \E n \in Note : /\ db[n] # Absent /\ ~db[n].voided
                  /\ Begin(s, "void", [note |-> n, held |-> {}])

MarkVoided(s) ==
  LET n == job[s].note IN
  /\ at[s] = "void"
  /\ Write(s, [r \in {n} |-> [Sees(s, n) EXCEPT !.voided = TRUE]], "commit", job[s])

EndRequest(s) == at[s] = "commit" /\ Commit(s)

-----------------------------------------------------------------------------

Return(s) == StartReturn(s) \/ TakeLine(s) \/ PutLine(s) \/ SumInvoice(s)
               \/ PutInvoice(s) \/ SumSale(s) \/ PutSale(s)
Refund(s) == StartRefund(s) \/ MarkRefunded(s)
NoteStep(s) == StartNote(s) \/ CheckCredits(s) \/ InsertNote(s) \/ InsertCredit(s)
Void(s) == StartVoid(s) \/ MarkVoided(s)

Next == \E s \in Session : Return(s) \/ DeleteItem(s) \/ Refund(s) \/ NoteStep(s)
                             \/ Void(s) \/ EndRequest(s) \/ Fail(s)

Spec == Init /\ [][Next]_vars

-----------------------------------------------------------------------------
(* Properties.                                                              *)

\* The tables hold what their columns can, and only requests under way hold rows.
TypeOK ==
  /\ \A l \in Line : db[l] \in 0 .. Sold[l] /\ db[Erased(l)] \in 0 .. Sold[l]
  /\ db[Invoice] \in Nat /\ db[Sale] \in [total : Nat, refunded : BOOLEAN]
  /\ \A n \in Note : db[n] \in NoteRow \cup {Absent} /\ db[CreditOf(n)] \in Nat \cup {Absent}
  /\ \A l \in Line, s \in Session : db[Returned(l, s)] \in 0 .. MaxReturned + 2 * Sold[l]
  /\ \A s \in Session : at[s] = "idle" => mine[s] = Unwritten /\ job[s] = NoJob
  /\ calm \in BOOLEAN

\* Goods never vanish: of what was sold, a piece that is not on the sale any
\* more has been returned, or was deleted with its line, whatever returns and
\* deletions run at once.
NothingVanishes == \A l \in Line : HasReturned(l) + db[Erased(l)] + db[l] >= Sold[l]

\* And requests that come one after the other never take back a piece that is
\* not there.  (Two returns at once may take back one piece twice.)
ReturnsAddUp ==
  /\ NothingVanishes
  /\ calm => \A l \in Line : HasReturned(l) + db[Erased(l)] + db[l] = Sold[l]

\* A total never tells less than the lines are worth, and more by no more than
\* what the deleted ones were.
Tells(total) ==
  LET kept == Worth([l \in Line |-> db[l]])
      erased == Worth([l \in Line |-> db[Erased(l)]])
  IN total \in kept .. kept + erased

\* The total of the sale: the trigger sums the lines after it has locked the
\* invoice, which every return must lock, and a deletion corrects nothing.
SaleFollowsLines == Tells(db[Sale].total)

\* The total of the invoice is summed before that lock, and follows the lines
\* only when requests come one after the other.
TotalsFollowLines == SaleFollowsLines /\ (calm => Tells(db[Invoice]))

\* Pieces and money tell the same of what a sale still holds, but for the lines
\* that were deleted.
SaleAddsUp == ReturnsAddUp /\ TotalsFollowLines

\* Notes made one after the other never credit more than was invoiced, the
\* debits of the invoice included.
CreditsFit ==
  calm => SumOf(Active("credit")) <=
            Worth(Sold) + Slack
              + SumOf({n \in Note : db[n] # Absent /\ db[n].type = "debit"})

\* A supplier's credit and the note it comes from are committed together.
CreditBacked ==
  \A n \in Note :
    db[CreditOf(n)] =
      IF db[n] # Absent /\ db[n].damaged THEN db[n].amount \div Rate ELSE Absent

\* No more is credited than was invoiced, and what a note leaves with a supplier
\* is there when the note is.
NotesBacked == CreditsFit /\ CreditBacked

=============================================================================
