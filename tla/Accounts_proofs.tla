-------------------------- MODULE Accounts_proofs --------------------------
(***************************************************************************)
(* What is proved of the account of one sale (Receivables) and of that of  *)
(* one purchase order (Payables), for every number of sessions, amounts    *)
(* and rows.                                                               *)
(*                                                                         *)
(* The sale.  Where the trigger is installed the books agree: a committed  *)
(* account_receivable row holds the sum of the committed collections.  The *)
(* trigger makes a session take the row lock before it reads the sum of    *)
(* recalcReceivableTotals, and a session commits only with the lock; so    *)
(* between that read and its commit no other session commits, and the sum  *)
(* it writes is the sum of the rows it publishes.  From that follow what   *)
(* the user is shown and what becomes of the goods: where a collection is  *)
(* the totals hold it, so none is migrated twice; and as long as nothing   *)
(* fails collections are only added, so their sum grows, and what was paid *)
(* stays paid until someone completes the sale.                            *)
(*                                                                         *)
(* The order.  Whoever has written a supplier_credit row holds its lock    *)
(* until it commits, nobody else changes the row meanwhile, and what it    *)
(* wrote is what the row held less the amount it records as applied.  The  *)
(* sum a session has read of the payments may be old, but as long as no    *)
(* payment is corrected payments only appear, so it never exceeds what the *)
(* session publishes when it commits.                                      *)
(***************************************************************************)
EXTENDS MCAccounts, Sums, TLAPS

(* The row holds the sum of the collections as the session sees them.      *)
Counts(row, total) == row.paid = total /\ (row.isPaid <=> Covers(row.paid))

Shapes ==
  /\ pc = [p \in Session |-> pc[p]]
  /\ own = [p \in Session |-> own[p]]
  /\ mine = [p \in Session |-> mine[p]]
  /\ sum = [p \in Session |-> sum[p]]

Holding(p) ==
  /\ pc[p] \in {"sumRecalc", "setRecalc", "commit", "commitCorrection"} => lock = p
  /\ pc[p] = "setRecalc" => sum[p] = Paid(p)
  /\ pc[p] \in {"commit", "commitCorrection"} => Counts(mine[p], Paid(p))

Unborn == kind = "none" => (\A p \in Session : pc[p] = "idle") /\ rows = Zeros

IInv == Shapes /\ Unborn /\ (\A p \in Session : Holding(p)) /\ BooksAgree

-----------------------------------------------------------------------------

(* What a session sees is what it and the committed table hold. *)
LEMMA SameView ==
  ASSUME NEW p \in Session, own'[p] = own[p], rows' = rows
  PROVE  Paid(p)' = Paid(p)
BY DEF Paid, Collections

(* Holding(p) is not disturbed by a step of another session that takes no  *)
(* lock that p has and commits nothing.                                    *)
LEMMA OthersHold ==
  ASSUME NEW p \in Session, Holding(p),
         pc'[p] = pc[p], own'[p] = own[p], mine'[p] = mine[p], sum'[p] = sum[p],
         rows' = rows, lock = p => lock' = p
  PROVE  Holding(p)'
BY SameView DEF Holding, Counts, Covers

(* At first there is no sale.                                              *)
LEMMA InitIInv == HasTrigger /\ Init => IInv
<1> SUFFICES ASSUME HasTrigger, Init PROVE IInv
  OBVIOUS
<1>1. Shapes
  BY DEF Init, Shapes
<1>2. \A p \in Session : Holding(p)
  BY DEF Init, Holding
<1>3. BooksAgree
  BY DEF Init, BooksAgree, Zeros
<1> QED
  BY <1>1, <1>2, <1>3 DEF IInv, Unborn, Init

-----------------------------------------------------------------------------
(* Steps *)

(* A sale is created with a row for its upfront payment, which the trigger *)
(* counts, or with none.                                                   *)
LEMMA CreateKeeps ==
  ASSUME HasTrigger, IInv,
         NEW k \in {"credit", "apartado"}, NEW u \in Upfront, NEW c \in BOOLEAN, NEW l \in Legacy,
         CreateSale(k, u, c, l)
  PROVE  IInv'
<1>1. Shapes' /\ Unborn'
  <2>1. k # "none"
    OBVIOUS
  <2> QED
    BY <2>1 DEF IInv, Shapes, Unborn, CreateSale
<1>2. ASSUME NEW p \in Session PROVE Holding(p)'
  <2>1. pc[p] = "idle" /\ pc' = pc
    BY DEF IInv, Unborn, CreateSale
  <2> QED
    BY <2>1 DEF Holding
<1>3. BooksAgree'
  <2> DEFINE row == [paid |-> u, isPaid |-> FALSE,
                     status |-> IF u > 0 THEN 2 ELSE 1]
             total == SumFunction(rows')
  <2>1. CASE l \/ u = 0
    BY <2>1 DEF CreateSale, BooksAgree, IInv, Unborn, Zeros
  <2>2. CASE ~ (l \/ u = 0)
    <3>1. ar' = Triggered(row, total)
      BY <2>2 DEF CreateSale
    <3> HIDE DEF total
    <3>2. ar'.paid = total /\ (ar'.isPaid <=> Covers(total))
      BY <3>1 DEF Triggered
    <3> QED
      BY <3>2 DEF BooksAgree, total, Covers
  <2> QED
    BY <2>1, <2>2
<1> QED
  BY <1>1, <1>2, <1>3 DEF IInv

(* A step of one session that commits nothing keeps the books.             *)
LEMMA WorkKeeps ==
  ASSUME IInv, NEW p \in Session, kind' = kind, kind # "none",
         rows' = rows, ar' = ar, Shapes', Holding(p)',
         \A q \in Session \ {p} :
           /\ pc'[q] = pc[q] /\ own'[q] = own[q]
           /\ mine'[q] = mine[q] /\ sum'[q] = sum[q]
           /\ lock = q => lock' = q
  PROVE  IInv'
<1>1. \A q \in Session : Holding(q)'
  <2> SUFFICES ASSUME NEW q \in Session, q # p PROVE Holding(q)'
    OBVIOUS
  <2> QED
    BY OthersHold DEF IInv
<1> QED
  BY <1>1 DEF IInv, Unborn, BooksAgree, Covers

(* The first statement of a collection.                                    *)
LEMMA BackfillKeeps ==
  ASSUME HasTrigger, IInv, NEW p \in Session, NEW a \in Payment, Backfill(p, a)
  PROVE  IInv'
<1>1. Shapes'
  BY DEF IInv, Shapes, Backfill, Write, Goto
<1>2. pc'[p] \in {"sumMigrated", "insert"}
  BY DEF IInv, Shapes, Backfill, Goto
<1>3. Holding(p)'
  BY <1>2 DEF Holding
<1>4. \A q \in Session \ {p} : pc'[q] = pc[q] /\ own'[q] = own[q]
  BY DEF IInv, Shapes, Backfill, Write, Goto
<1> QED
  BY <1>1, <1>3, <1>4, WorkKeeps DEF Backfill

(* Its INSERT.                                                             *)
LEMMA InsertKeeps ==
  ASSUME HasTrigger, IInv, NEW p \in Session, Insert(p)
  PROVE  IInv'
<1>1. Shapes' /\ kind # "none"
  BY DEF IInv, Shapes, Unborn, Insert, Write, Goto
<1>2. pc'[p] = "sumInserted"
  BY DEF IInv, Shapes, Insert, Goto
<1>3. Holding(p)'
  BY <1>2 DEF Holding
<1>4. \A q \in Session \ {p} : pc'[q] = pc[q] /\ own'[q] = own[q]
  BY DEF IInv, Shapes, Insert, Write, Goto
<1> QED
  BY <1>1, <1>3, <1>4, WorkKeeps DEF Insert

(* A correction's UPDATE.                                                  *)
LEMMA CorrectKeeps ==
  ASSUME HasTrigger, IInv, NEW p \in Session, NEW i \in Id,
         NEW a \in Correction, Correct(p, i, a)
  PROVE  IInv'
<1>1. Shapes'
  BY DEF IInv, Shapes, Correct, Goto
<1>2. kind # "none"
  BY DEF IInv, Unborn, Zeros, Correct
<1>3. pc'[p] = "sumCorrected"
  BY DEF IInv, Shapes, Correct, Goto
<1>4. Holding(p)'
  BY <1>3 DEF Holding
<1>5. \A q \in Session \ {p} : pc'[q] = pc[q] /\ own'[q] = own[q]
  BY DEF IInv, Shapes, Correct, Goto
<1> QED
  BY <1>1, <1>2, <1>4, <1>5, WorkKeeps DEF Correct

(* The sum of the recalculation is read under the lock.                    *)
LEMMA ReadSumKeeps ==
  ASSUME IInv, NEW p \in Session, ReadSum(p)
  PROVE  IInv'
<1>1. Shapes' /\ kind # "none"
  BY DEF IInv, Shapes, Unborn, ReadSum, Goto
<1>2. pc'[p] \in {"setMigrated", "setInserted", "setCorrected", "setRecalc"}
  BY DEF IInv, Shapes, ReadSum, Goto
<1>3. pc'[p] = "setRecalc" => pc[p] = "sumRecalc"
  BY DEF IInv, Shapes, ReadSum, Goto
<1>4. sum'[p] = Paid(p)'
  <2>1. sum'[p] = Paid(p)
    BY DEF IInv, Shapes, ReadSum
  <2>2. own'[p] = own[p] /\ rows' = rows
    BY DEF ReadSum
  <2> QED
    BY <2>1, <2>2, SameView
<1>5. Holding(p)'
  BY <1>2, <1>3, <1>4 DEF Holding, IInv, ReadSum
<1>6. \A q \in Session \ {p} : pc'[q] = pc[q] /\ sum'[q] = sum[q]
  BY DEF IInv, Shapes, ReadSum, Goto
<1> QED
  BY <1>1, <1>5, <1>6, WorkKeeps DEF ReadSum

(* The trigger's UPDATE takes the lock.                                    *)
LEMMA TriggerWriteKeeps ==
  ASSUME IInv, NEW p \in Session, Nobody \notin Session, TriggerWrite(p)
  PROVE  IInv'
<1>1. Shapes' /\ kind # "none"
  BY DEF IInv, Shapes, Unborn, TriggerWrite, Goto
<1>2. pc'[p] \in {"insert", "sumRecalc"} /\ lock' = p
  BY DEF IInv, Shapes, TriggerWrite, Goto
<1>3. Holding(p)'
  BY <1>2 DEF Holding
<1>4. \A q \in Session \ {p} :
        pc'[q] = pc[q] /\ mine'[q] = mine[q] /\ lock # q
  BY DEF IInv, Shapes, TriggerWrite, Goto
<1> QED
  BY <1>1, <1>3, <1>4, WorkKeeps DEF TriggerWrite

(* The recalculation writes the sum it read.                               *)
LEMMA RecalcWriteKeeps ==
  ASSUME IInv, NEW p \in Session, Nobody \notin Session, RecalcWrite(p)
  PROVE  IInv'
<1>1. Shapes' /\ kind # "none"
  BY DEF IInv, Shapes, Unborn, RecalcWrite, Goto
<1>2. pc'[p] \in {"commit", "commitCorrection"} /\ lock' = p
  BY DEF IInv, Shapes, RecalcWrite, Goto
<1>3. Counts(mine[p], Paid(p))'
  <2>1. mine'[p] = Recalculated(Row(p), sum[p])
    BY DEF IInv, Shapes, RecalcWrite
  <2>2. sum[p] = Paid(p)
    BY DEF IInv, Holding, RecalcWrite
  <2>3. Paid(p)' = Paid(p)
    BY SameView DEF RecalcWrite
  <2>4. mine'[p].paid = Paid(p) /\ (mine'[p].isPaid <=> Covers(Paid(p)))
    BY <2>1, <2>2 DEF Recalculated
  <2>5. Counts(mine'[p], Paid(p)')
    BY <2>3, <2>4 DEF Counts
  <2> QED
    BY <2>5 DEF Counts, Covers
<1>4. Holding(p)'
  BY <1>2, <1>3 DEF Holding
<1>5. \A q \in Session \ {p} :
        pc'[q] = pc[q] /\ mine'[q] = mine[q] /\ lock # q
  BY DEF IInv, Shapes, RecalcWrite, Goto
<1> QED
  BY <1>1, <1>4, <1>5, WorkKeeps DEF RecalcWrite

(* A failed request leaves no trace.                                       *)
LEMMA FailKeeps ==
  ASSUME IInv, NEW p \in Session, Fail(p)
  PROVE  IInv'
<1>1. Shapes' /\ kind # "none"
  BY DEF IInv, Shapes, Unborn, Fail, EndTransaction, Goto
<1>2. pc'[p] = "idle"
  BY DEF IInv, Shapes, Fail, Goto
<1>3. Holding(p)'
  BY <1>2 DEF Holding
<1>4. \A q \in Session \ {p} :
        /\ pc'[q] = pc[q] /\ own'[q] = own[q]
        /\ mine'[q] = mine[q] /\ sum'[q] = sum[q]
        /\ lock = q => lock' = q
  BY DEF IInv, Shapes, Fail, EndTransaction, Goto
<1> QED
  BY <1>1, <1>3, <1>4, WorkKeeps DEF Fail

(* What follows the commit touches the sale only.                          *)
LEMMA AfterwardsKeeps ==
  ASSUME IInv, NEW p \in Session,
         Reread(p) \/ CompleteCredit(p) \/ CompleteApartado(p)
  PROVE  IInv'
<1>1. /\ Shapes' /\ kind # "none"
      /\ UNCHANGED <<kind, rows, ar, lock, own, mine, sum>>
  BY DEF IInv, Shapes, Unborn, Reread, CompleteCredit, CompleteApartado, Goto
<1>2. pc'[p] \in {"complete", "idle"}
  BY DEF IInv, Shapes, Reread, CompleteCredit, CompleteApartado, Goto
<1>3. Holding(p)'
  BY <1>2 DEF Holding
<1>4. \A q \in Session \ {p} : pc'[q] = pc[q]
  BY DEF IInv, Shapes, Reread, CompleteCredit, CompleteApartado, Goto
<1> QED
  BY <1>1, <1>3, <1>4, WorkKeeps

(* A session commits with the lock, so no other session has read a sum it  *)
(* will still write, and the row published agrees with the rows.           *)
LEMMA CommitKeeps ==
  ASSUME IInv, NEW p \in Session, Commit(p)
  PROVE  IInv'
<1>1. Shapes' /\ Unborn'
  BY DEF IInv, Shapes, Unborn, Commit, EndTransaction, Goto
<1>2. lock = p /\ Counts(mine[p], Paid(p))
  BY DEF IInv, Holding, Commit
<1>3. ASSUME NEW q \in Session PROVE Holding(q)'
  <2>1. CASE q = p
    <3>1. pc'[q] \in {"reread", "idle"}
      BY <2>1 DEF IInv, Shapes, Commit, Goto
    <3> QED
      BY <3>1 DEF Holding
  <2>2. CASE q # p
    <3>1. pc'[q] = pc[q]
      BY <2>2 DEF IInv, Shapes, Commit, Goto
    <3>2. pc[q] \notin {"sumRecalc", "setRecalc", "commit", "commitCorrection"}
      BY <1>2, <2>2 DEF IInv, Holding
    <3> QED
      BY <3>1, <3>2 DEF Holding
  <2> QED
    BY <2>1, <2>2
<1>4. BooksAgree'
  <2>1. rows' = Collections(p) /\ ar' = mine[p]
    BY DEF Commit
  <2> QED
    BY <1>2, <2>1 DEF BooksAgree, Counts, Paid, Covers
<1> QED
  BY <1>1, <1>3, <1>4 DEF IInv

(* Every step keeps the books.                                             *)
LEMMA NextIInv == HasTrigger /\ IInv /\ [Next]_vars => IInv'
<1> SUFFICES ASSUME HasTrigger, IInv, [Next]_vars PROVE IInv'
  OBVIOUS
<1> USE ReceivableConstants
<1>1. CASE \E k \in {"credit", "apartado"}, u \in Upfront, c \in BOOLEAN :
            \E l \in Legacy : CreateSale(k, u, c, l)
  BY <1>1, CreateKeeps
<1>2. ASSUME NEW p \in Session, NEW a \in Payment, Backfill(p, a) PROVE IInv'
  BY <1>2, BackfillKeeps
<1>3. ASSUME NEW p \in Session, Collect(p) PROVE IInv'
  BY <1>3, InsertKeeps, ReadSumKeeps, TriggerWriteKeeps, RecalcWriteKeeps,
     CommitKeeps, AfterwardsKeeps DEF Collect
<1>4. ASSUME NEW p \in Session, NEW i \in Id, NEW a \in Correction,
             Correct(p, i, a)
      PROVE  IInv'
  BY <1>4, CorrectKeeps
<1>5. ASSUME NEW p \in Session, Fail(p) PROVE IInv'
  BY <1>5, FailKeeps
<1>6. CASE UNCHANGED vars
  BY <1>6 DEF vars, IInv, Shapes, Unborn, Holding, Counts, Paid, Collections,
              BooksAgree, Covers
<1> QED
  BY <1>1, <1>2, <1>3, <1>4, <1>5, <1>6 DEF Next, Rest

-----------------------------------------------------------------------------

(* The trigger and recalcReceivableTotals together keep amount_paid the    *)
(* sum of the collections and is_paid in agreement with it, for any number *)
(* of sessions that register and correct collections.                      *)
THEOREM BooksAlwaysAgree == HasTrigger => (Spec => []BooksAgree)
<1> SUFFICES ASSUME HasTrigger PROVE Spec => []BooksAgree
  OBVIOUS
<1>1. Init => IInv
  BY InitIInv
<1>2. IInv /\ [Next]_vars => IInv'
  BY NextIInv
<1>3. IInv => BooksAgree
  BY DEF IInv
<1> QED
  BY <1>1, <1>2, <1>3, PTL DEF Spec
-----------------------------------------------------------------------------
(* What the account and its sale say of each other.                        *)

AtRest == {"idle", "reread", "complete"}
AtWork == {"sumMigrated", "setMigrated", "insert", "sumInserted", "setInserted",
           "sumCorrected", "setCorrected", "sumRecalc", "setRecalc",
           "commit", "commitCorrection"}

Typed ==
  /\ TypeOK /\ sum \in [Session -> Nat] /\ payment \in [Session -> Nat]
  /\ pc \in [Session -> AtRest \cup AtWork]
  /\ \A p \in Session : pc[p] \in AtRest => own[p] = Zeros /\ lock # p

(* No two sessions write one row, and two are at work only if it is not    *)
(* calm.                                                                   *)
Apart ==
  /\ \A p, q \in Session, i \in Id : own[p][i] # 0 /\ own[q][i] # 0 => p = q
  /\ calm => \A p, q \in Session : pc[p] # "idle" /\ pc[q] # "idle" => p = q

(* The status a session will publish is the one of the sum it read.        *)
Told(p) ==
  pc[p] \in {"commit", "commitCorrection"} =>
    mine[p].status = IF Covers(mine[p].paid) THEN 3 ELSE IF mine[p].paid > 0 THEN 2 ELSE 1

(* Where an upfront payment has its row nothing was migrated; and while it *)
(* is calm, one row at most was, written or committed.                     *)
Marked ==
  /\ kind = "none" => \A i \in Id : notes[i] = "collection"
  /\ \A i \in Id : notes[i] = "upfront" => rows[i] # 0
  /\ \A i, j \in Id : notes[i] = "upfront" /\ notes[j] # "collection" => i = j
  /\ calm => \A i, j \in Id :
       (~Free(i) /\ ~Free(j) /\ notes[i] # "collection" /\ notes[j] # "collection") => i = j

(* A sale is completed, and its goods leave, once its account was paid; or *)
(* its upfront payment was enough and has no row yet: whoever collects     *)
(* next migrates it.                                                       *)
Sold ==
  /\ ar.isPaid => settled
  /\ \A p \in Session : pc[p] = "complete" => settled
  /\ kind = "apartado" /\ sale.left > 0 => settled
  /\ kind = "none" => ~settled
  /\ kind # "none" /\ sale.completed /\ ~settled =>
       /\ rows = Zeros /\ Covers(ar.paid) /\ ar.paid > Slack
       /\ \A p \in Session : pc[p] \in AtWork => Covers(Paid(p))

(* As long as all goes well collections are only added, so what is paid    *)
(* stays paid, and whoever paid the rest of a credit will see so.          *)
Finishes ==
  smooth =>
    /\ \A p \in Session, i \in Id : own[p][i] # 0 => rows[i] = 0
    /\ \A p \in Session : pc[p] \in AtWork =>
         payment[p] # 0 /\ pc[p] \notin {"sumCorrected", "setCorrected", "commitCorrection"}
    /\ settled => ar.isPaid /\ Covers(SumFunction(rows))
    /\ settled /\ kind = "credit" /\ ~sale.completed =>
         \E p \in Session : pc[p] \in {"reread", "complete"}

(* A sale is worth more than twice the difference the comparisons forgive, *)
(* and what is paid upfront is not the whole sale but for that difference. *)
Ample == Due > 2 * Slack
UpfrontApart == \A u \in Upfront : Covers(u) => u >= Due

Agreed == /\ Typed /\ Apart /\ (\A p \in Session : Told(p)) /\ StatusAgrees
          /\ Marked /\ (Ample /\ UpfrontApart => Sold /\ Finishes)

(* Totals are numbers, and cover each row.                                 *)
LEMMA TotalType ==
  ASSUME NEW r \in [Id -> Nat]
  PROVE  SumFunction(r) \in Nat /\ \A i \in Id : r[i] <= SumFunction(r)
<1>1. IsFiniteSet(Id) /\ \A i \in Id : r[i] \in Nat BY ReceivableConstants
<1>2. SumFunction(r) = SumFunctionOnSet(r, Id) BY DEF SumFunction
<1> QED BY <1>1, <1>2, SumNatural, SumCovers

(* More rows, or greater ones, are no less in all.                         *)
LEMMA TotalGrows ==
  ASSUME NEW r \in [Id -> Nat], NEW s \in [Id -> Nat], \A i \in Id : r[i] <= s[i]
  PROVE  SumFunction(r) <= SumFunction(s)
<1>1. IsFiniteSet(Id) BY ReceivableConstants
<1>2. \A i \in Id : r[i] \in Int /\ s[i] \in Int /\ r[i] <= s[i] OBVIOUS
<1>3. SumFunction(r) = SumFunctionOnSet(r, Id) /\ SumFunction(s) = SumFunctionOnSet(s, Id)
  BY DEF SumFunction
<1> QED BY <1>1, <1>2, <1>3, SumMonotone

(* Without rows nothing is paid.                                           *)
LEMMA TotalOfZeros == SumFunction(Zeros) = 0
<1>1. IsFiniteSet(Id) BY ReceivableConstants
<1>2. \A i \in Id : Zeros[i] = 0 BY DEF Zeros
<1>3. SumFunction(Zeros) = SumFunctionOnSet(Zeros, Id) BY DEF SumFunction, Zeros
<1> QED BY <1>1, <1>2, <1>3, SumOfZeros

(* One row is the total.                                                   *)
LEMMA TotalOfOne ==
  ASSUME NEW i \in Id, NEW u \in Nat
  PROVE  SumFunction([Zeros EXCEPT ![i] = u]) = u
<1> DEFINE g == [Zeros EXCEPT ![i] = u]
<1>1. IsFiniteSet(Id) BY ReceivableConstants
<1>2. \A j \in Id : Zeros[j] \in Int /\ g[j] \in Int BY DEF Zeros
<1>3. \A j \in Id \ {i} : g[j] = Zeros[j] BY DEF Zeros
<1>4. SumFunction(g) = SumFunctionOnSet(g, Id) BY DEF SumFunction, Zeros
<1>5. SumFunction(Zeros) = SumFunctionOnSet(Zeros, Id) BY DEF SumFunction, Zeros
<1>6. g[i] = u /\ Zeros[i] = 0 BY DEF Zeros
<1> HIDE DEF g
<1>7. SumFunctionOnSet(g, Id) = SumFunctionOnSet(Zeros, Id) + (g[i] - Zeros[i])
  BY <1>1, <1>2, <1>3, SumChanges
<1> QED BY <1>4, <1>5, <1>6, <1>7, TotalOfZeros DEF g

(* What a session sees are rows.                                           *)
LEMMA Sees ==
  ASSUME TypeOK, NEW p \in Session
  PROVE  Collections(p) \in [Id -> Nat] /\ Paid(p) \in Nat
<1>1. Collections(p) \in [Id -> Nat] BY DEF Collections, TypeOK
<1> QED BY <1>1, TotalType DEF Paid

(* A session that wrote nothing sees the committed rows.                   *)
LEMMA SeesCommitted ==
  ASSUME TypeOK, NEW p \in Session, own[p] = Zeros
  PROVE  Collections(p) = rows /\ Paid(p) = SumFunction(rows)
<1>1. Collections(p) = rows BY DEF Collections, TypeOK, Zeros
<1> QED BY <1>1 DEF Paid

(* Before the sale there is nothing to show.                               *)
LEMMA InitAgrees == Init => Agreed
<1> SUFFICES ASSUME Init PROVE Agreed OBVIOUS
<1>1. Typed
  BY ReceivableConstants DEF Init, Typed, TypeOK, Zeros, NoAccount, Account, AtRest, AtWork
<1>2. Apart BY DEF Init, Apart, Zeros
<1>3. \A p \in Session : Told(p) BY DEF Init, Told
<1>4. Marked /\ StatusAgrees BY DEF Init, Marked, StatusAgrees, Zeros
<1>5. Sold BY DEF Init, Sold, NoAccount
<1>6. Finishes BY DEF Init, Finishes, AtWork, Zeros
<1> QED BY <1>1, <1>2, <1>3, <1>4, <1>5, <1>6 DEF Agreed, Ample, UpfrontApart, Covers

(* The sale is created: while no row is there, or with the one of the      *)
(* upfront payment.                                                        *)
LEMMA CreateAgrees ==
  ASSUME HasTrigger, IInv, Agreed, Typed',
         NEW k \in {"credit", "apartado"}, NEW u \in Upfront, NEW c \in BOOLEAN, NEW l \in Legacy,
         CreateSale(k, u, c, l)
  PROVE  Agreed'
<1> DEFINE row == [paid |-> u, isPaid |-> FALSE, status |-> IF u > 0 THEN 2 ELSE 1]
<1>0. /\ kind = "none" /\ kind' = k /\ k # "none" /\ u \in Nat /\ Due \in Nat /\ Slack \in Nat
      /\ UNCHANGED <<lock, pc, own, mine, sum, payment, smooth, calm>>
      /\ settled' = ar'.isPaid
      /\ sale' = [completed |-> c /\ ~ Due > u + Slack, left |-> IF k = "apartado" THEN 0 ELSE 1]
  BY ReceivableConstants DEF CreateSale
<1>1. rows = Zeros /\ \A p \in Session : pc[p] = "idle" /\ own[p] = Zeros
  BY <1>0 DEF IInv, Unborn, Agreed, Typed, TypeOK
<1>2. \A i \in Id : notes[i] = "collection" BY <1>0 DEF Agreed, Marked
<1>3. \/ ar' = row /\ UNCHANGED <<rows, notes>> /\ (l \/ u = 0)
      \/ /\ u > 0
         /\ \E i \in Id : /\ rows' = [Zeros EXCEPT ![i] = u]
                          /\ notes' = [notes EXCEPT ![i] = "upfront"]
         /\ ar' = Triggered(row, u)
  <2>1. CASE l \/ u = 0 BY <2>1 DEF CreateSale
  <2>2. CASE ~ (l \/ u = 0)
    <3>1. PICK i \in Id : /\ rows' = [rows EXCEPT ![i] = u]
                          /\ notes' = [notes EXCEPT ![i] = "upfront"]
                          /\ ar' = Triggered(row, SumFunction(rows'))
      BY <2>2 DEF CreateSale
    <3>2. SumFunction(rows') = u BY <1>0, <1>1, <3>1, TotalOfOne
    <3>3. u > 0 BY <1>0, <2>2
    <3>4. rows' = [Zeros EXCEPT ![i] = u] BY <1>1, <3>1
    <3>5. ar' = Triggered(row, u) BY <3>1, <3>2
    <3> QED BY <3>1, <3>3, <3>4, <3>5
  <2> QED BY <2>1, <2>2
<1>4. /\ ar' \in Account /\ ar'.paid = u
      /\ ar'.isPaid => Covers(u) /\ rows' # Zeros
      /\ rows' \in [Id -> Nat]
      /\ ~ar'.isPaid => ~Covers(u) \/ rows' = Zeros
      /\ ar'.isPaid => SumFunction(rows') = u
  <2>1. CASE ar' = row /\ UNCHANGED <<rows, notes>>
    BY <1>0, <1>1, <2>1 DEF Account, Zeros
  <2>2. CASE /\ u > 0
             /\ \E i \in Id : /\ rows' = [Zeros EXCEPT ![i] = u]
                              /\ notes' = [notes EXCEPT ![i] = "upfront"]
             /\ ar' = Triggered(row, u)
    <3>1. PICK i \in Id : rows' = [Zeros EXCEPT ![i] = u] BY <2>2
    <3>2. ar'.paid = u /\ (ar'.isPaid <=> Covers(u)) /\ ar' \in Account
      BY <1>0, <2>2 DEF Triggered, Account, Covers
    <3>3. SumFunction(rows') = u BY <1>0, <3>1, TotalOfOne
    <3>4. rows'[i] = u /\ rows' \in [Id -> Nat] BY <1>0, <3>1 DEF Zeros
    <3>5. rows' # Zeros BY <2>2, <3>4 DEF Zeros
    <3> QED BY <3>2, <3>3, <3>4, <3>5
  <2> QED BY <1>3, <2>1, <2>2
<1>6. Apart' BY <1>0 DEF Agreed, Apart
<1>7. \A p \in Session : Told(p)' BY <1>0, <1>1 DEF Told
<1>8. Marked'
  <2>1. CASE UNCHANGED <<rows, notes>>
    BY <1>0, <1>2, <2>1 DEF Marked
  <2>2. CASE u > 0 /\ \E i \in Id : /\ rows' = [Zeros EXCEPT ![i] = u]
                                    /\ notes' = [notes EXCEPT ![i] = "upfront"]
    <3>1. PICK i \in Id : /\ rows' = [Zeros EXCEPT ![i] = u]
                          /\ notes' = [notes EXCEPT ![i] = "upfront"]
      BY <2>2
    <3>2. rows'[i] # 0 /\ \A j \in Id : notes'[j] = IF j = i THEN "upfront" ELSE "collection"
      BY <1>2, <2>2, <3>1 DEF Zeros, Agreed, Typed, TypeOK
    <3> QED BY <1>0, <3>2 DEF Marked
  <2> QED BY <1>3, <2>1, <2>2
<1>9. ASSUME Ample, UpfrontApart PROVE Sold'
  <2>1. kind' # "none" /\ sale'.completed /\ ~settled' =>
          rows' = Zeros /\ Covers(ar'.paid) /\ ar'.paid > Slack
    <3> SUFFICES ASSUME sale'.completed, ~settled'
                 PROVE  rows' = Zeros /\ Covers(ar'.paid) /\ ar'.paid > Slack
      OBVIOUS
    <3>1. sale'.completed = (c /\ ~ Due > u + Slack) BY <1>0
    <3>2. ~ Due > u + Slack BY <3>1
    <3>3. Covers(u) /\ u > Slack BY <1>9, <1>0, <3>2 DEF Covers, Ample
    <3>4. rows' = Zeros /\ ar'.paid = u BY <1>0, <1>4, <3>3
    <3> QED BY <3>3, <3>4 DEF Covers
  <2>2. \A p \in Session : pc'[p] = "idle" BY <1>0, <1>1
  <2>3. kind' = "apartado" => sale'.left = 0 BY <1>0
  <2> QED BY <1>0, <2>1, <2>2, <2>3 DEF Sold, AtWork, Covers
<1>10. ASSUME Ample, UpfrontApart PROVE Finishes'
  <2>1. \A p \in Session : pc'[p] = "idle" /\ own'[p] = Zeros BY <1>0, <1>1
  <2>2. settled' => Covers(SumFunction(rows')) BY <1>0, <1>4
  <2>3. settled' => k = "apartado"
    BY <1>10, <1>0, <1>4 DEF UpfrontApart, CreateSale
  <2> QED BY <1>0, <2>1, <2>2, <2>3 DEF Finishes, AtWork, Zeros, Covers
<1>11. StatusAgrees'
  <2>1. CASE UNCHANGED <<rows, notes>> BY <1>1, <2>1 DEF StatusAgrees, Zeros
  <2>2. CASE u > 0 /\ ar' = Triggered(row, u)
    <3>1. ar'.paid = u /\ ar'.status = IF Covers(u) THEN 3 ELSE 2
      BY <2>2 DEF Triggered
    <3> QED BY <3>1 DEF StatusAgrees, Covers
  <2> QED BY <1>3, <2>1, <2>2
<1> QED BY <1>6, <1>7, <1>8, <1>9, <1>10, <1>11 DEF Agreed, Ample, UpfrontApart, Covers

(* A statement that writes no collection.                                  *)
LEMMA WorkAgrees ==
  ASSUME Agreed, NEW p \in Session, pc[p] \in AtWork, pc'[p] \in AtWork,
         pc' = [pc EXCEPT ![p] = pc'[p]],
         UNCHANGED <<kind, rows, notes, ar, sale, settled, own, payment, smooth, calm>>,
         \A q \in Session \ {p} : mine'[q] = mine[q],
         Ample /\ UpfrontApart /\ smooth => pc'[p] \notin {"sumCorrected", "setCorrected", "commitCorrection"},
         Typed', Told(p)'
  PROVE  Agreed'
<1>1. \A q \in Session \ {p} : pc'[q] = pc[q] BY DEF Agreed, Typed
<1>2. pc[p] # "idle" /\ pc[p] # "complete" /\ pc[p] # "reread" /\ pc'[p] # "complete"
  BY DEF AtWork
<1>3. Apart' BY <1>1, <1>2 DEF Agreed, Apart
<1>4. \A q \in Session : Told(q)' BY <1>1 DEF Agreed, Told, Covers
<1>5. Marked' /\ StatusAgrees' BY DEF Agreed, Marked, Free, StatusAgrees, Covers
<1>6. ASSUME Ample, UpfrontApart PROVE Sold'
  <2>1. \A q \in Session : Paid(q)' = Paid(q) BY SameView
  <2>2. \A q \in Session : pc'[q] \in AtWork => pc[q] \in AtWork BY <1>1
  <2>3. \A q \in Session : pc'[q] = "complete" => pc[q] = "complete" BY <1>1, <1>2
  <2> QED BY <1>6, <2>1, <2>2, <2>3 DEF Agreed, Sold, Covers
<1>7. ASSUME Ample, UpfrontApart PROVE Finishes'
  <2> SUFFICES ASSUME smooth PROVE Finishes' BY DEF Finishes
  <2>1. \A q \in Session : pc'[q] \in AtWork =>
          payment[q] # 0 /\ pc'[q] \notin {"sumCorrected", "setCorrected", "commitCorrection"}
    BY <1>7, <1>1 DEF Agreed, Finishes
  <2>2. \A q \in Session : pc[q] \in {"reread", "complete"} => pc'[q] \in {"reread", "complete"}
    BY <1>1, <1>2
  <2> QED BY <1>7, <2>1, <2>2 DEF Agreed, Finishes, Covers
<1> QED BY <1>3, <1>4, <1>5, <1>6, <1>7 DEF Agreed, Ample, UpfrontApart, Covers

(* The sum is read.                                                        *)
LEMMA ReadSumAgrees ==
  ASSUME Agreed, Typed', NEW p \in Session, ReadSum(p)
  PROVE  Agreed'
<1>1. /\ pc[p] \in AtWork /\ pc'[p] \in AtWork /\ pc' = [pc EXCEPT ![p] = pc'[p]]
      /\ pc'[p] \notin {"commit", "commitCorrection"}
      /\ pc'[p] = "setCorrected" => pc[p] = "sumCorrected"
      /\ pc'[p] # "sumCorrected"
  BY DEF ReadSum, Goto, Agreed, Typed, AtWork
<1>2. Paid(p) \in Nat BY Sees DEF Agreed, Typed
<1>4. Told(p)' BY <1>1 DEF Told
<1>5. Ample /\ UpfrontApart /\ smooth => pc'[p] \notin {"sumCorrected", "setCorrected", "commitCorrection"}
  BY <1>1 DEF Agreed, Finishes
<1> QED BY <1>1, <1>4, <1>5, WorkAgrees DEF ReadSum

(* The trigger's UPDATEs, which the recalculation writes over.             *)
LEMMA TriggerWriteAgrees ==
  ASSUME Agreed, Typed', NEW p \in Session, TriggerWrite(p)
  PROVE  Agreed'
<1>1. /\ pc[p] \in AtWork /\ pc'[p] \in AtWork /\ pc' = [pc EXCEPT ![p] = pc'[p]]
      /\ pc'[p] \in {"insert", "sumRecalc"}
  BY DEF TriggerWrite, Goto, Agreed, Typed, AtWork
<1>2. Triggered(Row(p), sum[p]) \in Account
  BY DEF Triggered, Row, Account, Agreed, Typed, TypeOK, Covers
<1>4. Told(p)' BY <1>1 DEF Told
<1>5. \A q \in Session \ {p} : mine'[q] = mine[q] BY DEF TriggerWrite, Agreed, Typed, TypeOK
<1> QED BY <1>1, <1>4, <1>5, WorkAgrees DEF TriggerWrite

(* The status written is the one of the sum.                               *)
LEMMA RecalcWriteAgrees ==
  ASSUME Agreed, Typed', NEW p \in Session, RecalcWrite(p)
  PROVE  Agreed'
<1>1. /\ pc[p] \in AtWork /\ pc'[p] \in AtWork /\ pc' = [pc EXCEPT ![p] = pc'[p]]
      /\ pc'[p] \in {"commit", "commitCorrection"}
      /\ payment[p] # 0 => pc'[p] = "commit"
  BY DEF RecalcWrite, Goto, Agreed, Typed, AtWork
<1>2. Recalculated(Row(p), sum[p]) \in Account
  BY DEF Recalculated, Row, Account, Agreed, Typed, TypeOK, Covers
<1>4. Told(p)'
  <2>1. mine'[p] = Recalculated(Row(p), sum[p]) BY DEF RecalcWrite, Agreed, Typed, TypeOK
  <2>2. /\ mine'[p].paid = sum[p]
        /\ mine'[p].status = IF Covers(sum[p]) THEN 3 ELSE IF sum[p] > 0 THEN 2 ELSE 1
    BY <2>1 DEF Recalculated
  <2> QED BY <2>2 DEF Told, Covers
<1>5. \A q \in Session \ {p} : mine'[q] = mine[q] BY DEF RecalcWrite, Agreed, Typed, TypeOK
<1>6. Ample /\ UpfrontApart /\ smooth => pc'[p] \notin {"sumCorrected", "setCorrected", "commitCorrection"}
  BY <1>1 DEF Agreed, Finishes
<1> QED BY <1>1, <1>4, <1>5, <1>6, WorkAgrees DEF RecalcWrite

(* A row more is a greater total, for who wrote it.                        *)
LEMMA WriteGrows ==
  ASSUME TypeOK, NEW p \in Session, NEW i \in Id, NEW a \in Nat, Free(i),
         own' = [own EXCEPT ![p] = [@ EXCEPT ![i] = a]], rows' = rows
  PROVE  Paid(p) <= Paid(p)' /\ a <= Paid(p)'
<1> DEFINE r == Collections(p)
           s == Collections(p)'
<1>1. own[p][i] = 0 /\ rows[i] = 0 BY DEF Free
<1>2. r \in [Id -> Nat] BY Sees
<1>3. own'[p] = [own[p] EXCEPT ![i] = a] BY DEF TypeOK
<1>4. s \in [Id -> Nat] BY <1>3 DEF TypeOK, Collections
<1>5. \A j \in Id : r[j] <= s[j] BY <1>1, <1>3 DEF TypeOK, Collections
<1>6. a <= s[i] BY <1>1, <1>3 DEF TypeOK, Collections
<1>7. Paid(p) = SumFunction(r) /\ Paid(p)' = SumFunction(s) BY DEF Paid
<1> HIDE DEF r, s
<1>8. SumFunction(r) <= SumFunction(s) BY <1>2, <1>4, <1>5, TotalGrows
<1>9. s[i] <= SumFunction(s) /\ SumFunction(s) \in Nat BY <1>4, TotalType
<1> QED BY <1>4, <1>6, <1>7, <1>8, <1>9

(* A row that was free is nobody else's.                                   *)
LEMMA WriteApart ==
  ASSUME Agreed, NEW p \in Session, NEW i \in Id, NEW a \in Nat,
         \A q \in Session : own[q][i] = 0,
         own' = [own EXCEPT ![p] = [@ EXCEPT ![i] = a]],
         pc' = [pc EXCEPT ![p] = pc'[p]],
         calm' => calm /\ \A q \in Session \ {p} : pc[q] = "idle"
  PROVE  Apart'
<1>1. ASSUME NEW q \in Session, NEW r \in Session, NEW j \in Id,
             own'[q][j] # 0, own'[r][j] # 0
      PROVE  q = r
  <2>1. CASE j = i BY <1>1, <2>1 DEF Agreed, Typed, TypeOK
  <2>2. CASE j # i BY <1>1, <2>2 DEF Agreed, Apart, Typed, TypeOK
  <2> QED BY <2>1, <2>2
<1>2. calm' => \A q \in Session \ {p} : pc'[q] = "idle" BY DEF Agreed, Typed
<1> QED BY <1>1, <1>2 DEF Apart

(* While it is calm, whoever is at work is alone.                          *)
LEMMA OthersIdle ==
  ASSUME Agreed, NEW p \in Session, pc[p] # "idle", calm
  PROVE  \A q \in Session \ {p} : pc[q] = "idle"
BY DEF Agreed, Apart

(* The INSERT of a collection.                                             *)
LEMMA InsertAgrees ==
  ASSUME Agreed, Typed', NEW p \in Session, Insert(p)
  PROVE  Agreed'
<1>1. PICK i \in Id : Fresh(i) /\ Write(p, i, payment[p], "collection")
  BY DEF Insert
<1>2. /\ pc[p] = "insert" /\ pc' = [pc EXCEPT ![p] = pc'[p]]
      /\ pc'[p] \in {"sumInserted", "sumRecalc"}
      /\ UNCHANGED <<kind, rows, ar, sale, settled, lock, mine, sum, payment, smooth, calm>>
  BY DEF Insert, Goto, Agreed, Typed
<1>3. /\ Free(i) /\ rows[i] = 0 /\ \A q \in Session : own[q][i] = 0
      /\ own' = [own EXCEPT ![p] = [@ EXCEPT ![i] = payment[p]]]
      /\ notes' = [notes EXCEPT ![i] = "collection"] /\ payment[p] \in Nat
  BY <1>1 DEF Fresh, Free, Write, Agreed, Typed
<1>5. calm => \A q \in Session \ {p} : pc[q] = "idle" BY <1>2, OthersIdle
<1>6. Apart' BY <1>2, <1>3, <1>5, WriteApart
<1>7. \A q \in Session \ {p} : pc'[q] = pc[q] /\ own'[q] = own[q]
  BY <1>2, <1>3 DEF Agreed, Typed, TypeOK
<1>8. \A q \in Session : Told(q)' BY <1>2, <1>7 DEF Agreed, Told, Covers
<1>9. Marked'
  <2>1. \A j \in Id : notes'[j] = IF j = i THEN "collection" ELSE notes[j]
    BY <1>3 DEF Agreed, Typed, TypeOK
  <2>2. \A j \in Id \ {i} : Free(j)' <=> Free(j)
    <3> SUFFICES ASSUME NEW j \in Id \ {i} PROVE Free(j)' <=> Free(j) OBVIOUS
    <3>1. \A q \in Session : own'[q][j] = own[q][j] BY <1>3 DEF Agreed, Typed, TypeOK
    <3> QED BY <1>2, <3>1 DEF Free
  <2> QED BY <1>2, <1>3, <2>1, <2>2 DEF Agreed, Marked
<1>10. ASSUME Ample, UpfrontApart PROVE Sold'
  <2>1. Paid(p) <= Paid(p)' BY <1>2, <1>3, WriteGrows DEF Agreed, Typed
  <2>2. \A q \in Session \ {p} : Paid(q)' = Paid(q) BY <1>2, <1>7, SameView
  <2>3. Paid(p) \in Nat /\ Paid(p)' \in Nat
    <3>1. Collections(p)' \in [Id -> Nat] BY DEF Typed, TypeOK, Collections
    <3> QED BY <3>1, Sees, TotalType DEF Agreed, Typed, Paid
  <2>4. Covers(Paid(p)) => Covers(Paid(p)')
    BY <2>1, <2>3, ReceivableConstants DEF Covers
  <2>5. \A q \in Session : Covers(Paid(q)) => Covers(Paid(q)')
    BY <2>2, <2>4
  <2>6. \A q \in Session : pc'[q] \in AtWork => pc[q] \in AtWork BY <1>2, <1>7 DEF AtWork
  <2>7. \A q \in Session : pc'[q] = "complete" => pc[q] = "complete" BY <1>2, <1>7
  <2> QED BY <1>10, <1>2, <2>5, <2>6, <2>7 DEF Agreed, Sold, Covers
<1>11. ASSUME Ample, UpfrontApart PROVE Finishes'
  <2> SUFFICES ASSUME smooth PROVE Finishes' BY <1>2 DEF Finishes
  <2>1. \A q \in Session, j \in Id : own'[q][j] # 0 => rows[j] = 0
    BY <1>11, <1>3 DEF Agreed, Finishes, Typed, TypeOK
  <2>2. \A q \in Session : pc'[q] \in AtWork =>
          payment[q] # 0 /\ pc'[q] \notin {"sumCorrected", "setCorrected", "commitCorrection"}
    BY <1>11, <1>2, <1>7 DEF Agreed, Finishes, AtWork
  <2>3. \A q \in Session : pc[q] \in {"reread", "complete"} => pc'[q] \in {"reread", "complete"}
    BY <1>2, <1>7
  <2> QED BY <1>11, <1>2, <2>1, <2>2, <2>3 DEF Agreed, Finishes, Covers
<1>12. StatusAgrees' BY <1>2 DEF Agreed, StatusAgrees, Covers
<1> QED BY <1>6, <1>8, <1>9, <1>10, <1>11, <1>12 DEF Agreed, Ample, UpfrontApart, Covers

(* The first statement of a collection migrates the upfront payment of an  *)
(* account only while it has no row.                                       *)
LEMMA BackfillAgrees ==
  ASSUME HasTrigger, IInv, Agreed, Typed', NEW p \in Session, NEW a \in Payment, Backfill(p, a)
  PROVE  Agreed'
<1>0. /\ pc[p] = "idle" /\ own[p] = Zeros /\ a \in Nat /\ a # 0
      /\ payment' = [payment EXCEPT ![p] = a]
      /\ calm' = (calm /\ Quiet)
      /\ UNCHANGED <<kind, rows, ar, sale, settled, lock, mine, sum, smooth>>
      /\ kind # "none"
  BY ReceivableConstants DEF Backfill, Agreed, Typed, TypeOK
<1>1. Paid(p) = SumFunction(rows) /\ Paid(p) \in Nat BY <1>0, SeesCommitted, Sees DEF Agreed, Typed
<1>S. StatusAgrees' BY <1>0 DEF Agreed, StatusAgrees, Covers
<1>2. CASE ar.paid > Paid(p) + Slack
  <2>1. PICK i \in Id : Fresh(i) /\ Write(p, i, ar.paid - Paid(p), "migrated")
    BY <1>2 DEF Backfill
  <2>2. pc' = [pc EXCEPT ![p] = "sumMigrated"] BY <1>2 DEF Backfill, Goto
  <2>3. ar.paid \in Nat /\ Slack \in Nat BY ReceivableConstants DEF Agreed, Typed, TypeOK, Account
  <2>4. rows = Zeros
    <3>1. \A j \in Id : rows[j] = 0
      <4> SUFFICES ASSUME NEW j \in Id, rows[j] # 0 PROVE FALSE OBVIOUS
      <4>1. ar.paid = SumFunction(rows) BY DEF IInv, BooksAgree
      <4> QED BY <1>1, <1>2, <2>3, <4>1
    <3> QED BY <3>1 DEF Zeros, Agreed, Typed, TypeOK
  <2>5. Paid(p) = 0 BY <1>1, <2>4, TotalOfZeros
  <2>6. /\ Free(i) /\ \A q \in Session : own[q][i] = 0
        /\ own' = [own EXCEPT ![p] = [@ EXCEPT ![i] = ar.paid]]
        /\ notes' = [notes EXCEPT ![i] = "migrated"]
    <3>1. ar.paid - Paid(p) = ar.paid BY <2>3, <2>5
    <3> QED BY <2>1, <3>1 DEF Fresh, Free, Write
  <2>7. pc'[p] = "sumMigrated" /\ pc' = [pc EXCEPT ![p] = pc'[p]]
    BY <2>2 DEF Agreed, Typed
  <2>9. calm' => \A q \in Session : pc[q] = "idle" /\ own[q] = Zeros
    BY <1>0 DEF Quiet, Agreed, Typed, TypeOK
  <2>10. Apart' BY <1>0, <2>3, <2>6, <2>7, <2>9, WriteApart
  <2>11. \A q \in Session \ {p} : pc'[q] = pc[q] /\ own'[q] = own[q] /\ payment'[q] = payment[q]
    BY <1>0, <2>2, <2>6 DEF Agreed, Typed, TypeOK
  <2>12. \A q \in Session : Told(q)' BY <1>0, <2>7, <2>11 DEF Agreed, Told, Covers
  <2>13. Marked'
    <3>1. \A j \in Id : notes[j] # "upfront" BY <2>4 DEF Agreed, Marked, Zeros
    <3>2. \A j \in Id : notes'[j] # "upfront" BY <2>6, <3>1 DEF Agreed, Typed, TypeOK
    <3>3. calm' => \A j \in Id \ {i} : Free(j)'
      <4> SUFFICES ASSUME calm', NEW j \in Id \ {i} PROVE Free(j)' OBVIOUS
      <4>1. \A q \in Session : own'[q][j] = 0
        BY <2>6, <2>9 DEF Agreed, Typed, TypeOK, Zeros
      <4>2. rows'[j] = 0 BY <1>0, <2>4 DEF Zeros
      <4> QED BY <4>1, <4>2 DEF Free
    <3> QED BY <1>0, <3>2, <3>3 DEF Marked
  <2>14. ASSUME Ample, UpfrontApart PROVE Sold'
    <3>1. ar.paid <= Paid(p)' BY <1>0, <2>3, <2>6, WriteGrows DEF Agreed, Typed
    <3>2. \A q \in Session \ {p} : Paid(q)' = Paid(q) BY <1>0, <2>11, SameView
    <3>3. Paid(p)' \in Nat
      <4>1. Collections(p)' \in [Id -> Nat] BY DEF Typed, TypeOK, Collections
      <4> QED BY <4>1, TotalType DEF Paid
    <3>4. Covers(ar.paid) => Covers(Paid(p)')
      BY <2>3, <3>1, <3>3, ReceivableConstants DEF Covers
    <3>5. \A q \in Session : pc'[q] = "complete" => pc[q] = "complete" BY <2>7, <2>11
    <3>6. \A q \in Session \ {p} : Covers(Paid(q)) => Covers(Paid(q)') BY <3>2
    <3>7. \A q \in Session \ {p} : pc'[q] \in AtWork => pc[q] \in AtWork BY <2>11
    <3> QED BY <2>14, <1>0, <3>4, <3>5, <3>6, <3>7 DEF Agreed, Sold, Covers
  <2>15. ASSUME Ample, UpfrontApart PROVE Finishes'
    <3> SUFFICES ASSUME smooth PROVE Finishes' BY <1>0 DEF Finishes
    <3>1. \A q \in Session, j \in Id : rows[j] = 0 BY <2>4 DEF Zeros
    <3>2. \A q \in Session : pc'[q] \in AtWork =>
            payment'[q] # 0 /\ pc'[q] \notin {"sumCorrected", "setCorrected", "commitCorrection"}
      BY <2>15, <1>0, <2>7, <2>11 DEF Agreed, Finishes, Typed
    <3>3. \A q \in Session : pc[q] \in {"reread", "complete"} => pc'[q] \in {"reread", "complete"}
      BY <1>0, <2>11
    <3> QED BY <2>15, <1>0, <3>1, <3>2, <3>3 DEF Agreed, Finishes, Covers
  <2> QED BY <1>S, <2>10, <2>12, <2>13, <2>14, <2>15 DEF Agreed, Ample, UpfrontApart, Covers
<1>3. CASE ~ (ar.paid > Paid(p) + Slack)
  <2>1. pc' = [pc EXCEPT ![p] = "insert"] /\ UNCHANGED <<own, notes>>
    BY <1>3 DEF Backfill, Goto
  <2>2. pc'[p] = "insert" BY <2>1 DEF Agreed, Typed
  <2>4. \A q \in Session \ {p} : pc'[q] = pc[q] /\ payment'[q] = payment[q]
    BY <1>0, <2>1 DEF Agreed, Typed
  <2>5. Apart' BY <1>0, <2>1, <2>4 DEF Agreed, Apart, Quiet
  <2>6. \A q \in Session : Told(q)' BY <1>0, <2>2, <2>4 DEF Agreed, Told, Covers
  <2>7. Marked' BY <1>0, <2>1 DEF Agreed, Marked, Free
  <2>8. ASSUME Ample, UpfrontApart PROVE Sold'
    <3>1. \A q \in Session : Paid(q)' = Paid(q) BY <1>0, <2>1, SameView
    <3>2. \A q \in Session : pc'[q] = "complete" => pc[q] = "complete" BY <2>2, <2>4
    <3>3. rows = Zeros => ar.paid <= Slack
      BY <1>1, <1>3, TotalOfZeros, ReceivableConstants DEF Agreed, Typed, TypeOK, Account
    <3>4. ~ (rows = Zeros /\ ar.paid > Slack)
      BY <3>3, ReceivableConstants DEF Agreed, Typed, TypeOK, Account
    <3> QED BY <2>8, <1>0, <2>1, <3>1, <3>2, <3>4 DEF Agreed, Sold, Covers
  <2>9. ASSUME Ample, UpfrontApart PROVE Finishes'
    <3> SUFFICES ASSUME smooth PROVE Finishes' BY <1>0 DEF Finishes
    <3>1. \A q \in Session : pc'[q] \in AtWork =>
            payment'[q] # 0 /\ pc'[q] \notin {"sumCorrected", "setCorrected", "commitCorrection"}
      BY <2>9, <1>0, <2>2, <2>4 DEF Agreed, Finishes, Typed
    <3>2. \A q \in Session : pc[q] \in {"reread", "complete"} => pc'[q] \in {"reread", "complete"}
      BY <1>0, <2>4
    <3> QED BY <2>9, <1>0, <2>1, <3>1, <3>2 DEF Agreed, Finishes, Covers
  <2> QED BY <1>S, <2>5, <2>6, <2>7, <2>8, <2>9 DEF Agreed, Ample, UpfrontApart, Covers
<1> QED BY <1>2, <1>3

(* updateCollection takes a committed row.                                 *)
LEMMA CorrectAgrees ==
  ASSUME Agreed, Typed', NEW p \in Session, NEW i \in Id, NEW a \in Correction, Correct(p, i, a)
  PROVE  Agreed'
<1>0. /\ pc[p] = "idle" /\ rows[i] # 0 /\ \A q \in Session : own[q][i] = 0
      /\ own' = [own EXCEPT ![p] = [@ EXCEPT ![i] = a]] /\ a \in Nat
      /\ payment' = [payment EXCEPT ![p] = 0]
      /\ ~smooth' /\ calm' = (calm /\ Quiet)
      /\ UNCHANGED <<kind, rows, notes, ar, sale, settled, lock, mine, sum>>
  BY ReceivableConstants DEF Correct
<1>1. pc' = [pc EXCEPT ![p] = pc'[p]] /\ pc'[p] \in {"sumCorrected", "sumRecalc"}
  BY DEF Correct, Goto, Agreed, Typed
<1>3. Apart' BY <1>0, <1>1, WriteApart DEF Quiet
<1>4. \A q \in Session \ {p} : pc'[q] = pc[q] BY <1>1 DEF Agreed, Typed
<1>5. \A q \in Session : Told(q)' BY <1>0, <1>1, <1>4 DEF Agreed, Told, Covers
<1>6. Marked'
  <2>1. \A j \in Id : Free(j)' => Free(j)
    <3> SUFFICES ASSUME NEW j \in Id, Free(j)' PROVE Free(j) OBVIOUS
    <3>1. j # i BY <1>0 DEF Free
    <3>2. \A q \in Session : own'[q][j] = own[q][j] BY <1>0, <3>1 DEF Agreed, Typed, TypeOK
    <3> QED BY <1>0, <3>2 DEF Free
  <2>2. \A j \in Id : Free(j) => Free(j)'
    <3> SUFFICES ASSUME NEW j \in Id, Free(j) PROVE Free(j)' OBVIOUS
    <3>1. j # i BY <1>0 DEF Free
    <3>2. \A q \in Session : own'[q][j] = own[q][j] BY <1>0, <3>1 DEF Agreed, Typed, TypeOK
    <3> QED BY <1>0, <3>2 DEF Free
  <2> QED BY <1>0, <2>1, <2>2 DEF Agreed, Marked
<1>7. ASSUME Ample, UpfrontApart PROVE Sold'
  <2>1. rows # Zeros BY <1>0 DEF Zeros
  <2>2. \A q \in Session : pc'[q] = "complete" => pc[q] = "complete" BY <1>1, <1>4
  <2> QED BY <1>7, <1>0, <2>1, <2>2 DEF Agreed, Sold
<1>8. ASSUME Ample, UpfrontApart PROVE Finishes' BY <1>0 DEF Finishes
<1>9. StatusAgrees' BY <1>0 DEF Agreed, StatusAgrees, Covers
<1> QED BY <1>3, <1>5, <1>6, <1>7, <1>8, <1>9 DEF Agreed, Ample, UpfrontApart, Covers

(* A failed request leaves no row behind.                                  *)
LEMMA FailAgrees ==
  ASSUME Agreed, Typed', NEW p \in Session, Fail(p)
  PROVE  Agreed'
<1>0. /\ pc' = [pc EXCEPT ![p] = "idle"] /\ own' = [own EXCEPT ![p] = Zeros]
      /\ pc[p] # "idle" /\ ~smooth'
      /\ UNCHANGED <<kind, rows, notes, ar, sale, settled, calm>>
  BY DEF Fail, EndTransaction, Goto, Agreed, Typed, TypeOK
<1>2. /\ pc'[p] = "idle" /\ own'[p] = Zeros
      /\ \A q \in Session \ {p} : pc'[q] = pc[q] /\ own'[q] = own[q] /\ mine'[q] = mine[q]
  BY <1>0 DEF Agreed, Typed, TypeOK, Fail, EndTransaction
<1>3. Apart' BY <1>0, <1>2 DEF Agreed, Apart, Zeros
<1>4. \A q \in Session : Told(q)' BY <1>2 DEF Agreed, Told, Covers
<1>5. Marked'
  <2>1. \A j \in Id : Free(j) => Free(j)' BY <1>0, <1>2 DEF Free, Zeros
  <2> QED BY <1>0, <2>1 DEF Agreed, Marked
<1>6. ASSUME Ample, UpfrontApart PROVE Sold'
  <2>1. \A q \in Session \ {p} : Paid(q)' = Paid(q) BY <1>0, <1>2, SameView
  <2> QED BY <1>6, <1>0, <1>2, <2>1 DEF Agreed, Sold, Covers, AtWork
<1>7. ASSUME Ample, UpfrontApart PROVE Finishes' BY <1>0 DEF Finishes
<1>8. StatusAgrees' BY <1>0 DEF Agreed, StatusAgrees, Covers
<1> QED BY <1>3, <1>4, <1>5, <1>6, <1>7, <1>8 DEF Agreed, Ample, UpfrontApart, Covers

(* What a session publishes covers what it saw, and what had covered the   *)
(* sale before.                                                            *)
LEMMA CommitAgrees ==
  ASSUME IInv, Agreed, Typed', NEW p \in Session, Commit(p)
  PROVE  Agreed'
<1>0. /\ pc[p] \in {"commit", "commitCorrection"}
      /\ pc' = [pc EXCEPT ![p] = pc'[p]]
      /\ pc'[p] = IF pc[p] = "commit" THEN "reread" ELSE "idle"
      /\ own' = [own EXCEPT ![p] = Zeros]
      /\ rows' = Collections(p) /\ ar' = mine[p]
      /\ settled' = (settled \/ mine[p].isPaid)
      /\ UNCHANGED <<kind, notes, sale, smooth, calm>>
  BY DEF Commit, EndTransaction, Goto, Agreed, Typed
<1>1. Collections(p) \in [Id -> Nat] /\ Paid(p) \in Nat BY Sees DEF Agreed, Typed
<1>2. mine[p] \in Account BY DEF Agreed, Typed, TypeOK
<1>3. SumFunction(rows') = Paid(p) BY <1>0 DEF Paid
<1>4. mine[p].paid = Paid(p) /\ (mine[p].isPaid <=> Covers(mine[p].paid))
  BY <1>0 DEF IInv, Holding, Counts, Covers
<1>5. mine[p].isPaid <=> Covers(Paid(p)) BY <1>4 DEF Covers
<1>7. /\ own'[p] = Zeros
      /\ \A q \in Session \ {p} : pc'[q] = pc[q] /\ own'[q] = own[q] /\ mine'[q] = mine[q]
                                  /\ payment'[q] = payment[q]
  BY <1>0 DEF Agreed, Typed, TypeOK, Commit, EndTransaction
<1>8. Apart'
  <2>1. \A j \in Id : own'[p][j] = 0 BY <1>7 DEF Zeros
  <2>2. pc[p] # "idle" BY <1>0
  <2> QED BY <1>0, <1>7, <2>1, <2>2 DEF Agreed, Apart
<1>9. \A q \in Session : Told(q)' BY <1>0, <1>7 DEF Agreed, Told, Covers
<1>10. \A j \in Id : rows'[j] = IF own[p][j] # 0 THEN own[p][j] ELSE rows[j]
  BY <1>0 DEF Collections
<1>11. Marked'
  <2>1. \A j \in Id : rows[j] # 0 => rows'[j] # 0 BY <1>10
  <2>2. \A j \in Id : Free(j) => Free(j)'
    <3> SUFFICES ASSUME NEW j \in Id, Free(j) PROVE Free(j)' OBVIOUS
    <3>1. own'[p][j] = 0 BY <1>7 DEF Zeros
    <3> QED BY <1>7, <1>10, <3>1 DEF Free
  <2> QED BY <1>0, <2>1, <2>2 DEF Agreed, Marked
<1>12. ASSUME Ample, UpfrontApart PROVE Sold'
  <2>1. kind # "none" BY <1>0 DEF IInv, Unborn
  <2>2. ASSUME sale'.completed, ~settled' PROVE FALSE
    <3>1. Covers(Paid(p)) BY <1>12, <1>0, <2>1, <2>2 DEF Agreed, Sold, AtWork
    <3> QED BY <1>0, <1>5, <2>2, <3>1
  <2>3. \A q \in Session : pc'[q] = "complete" => pc[q] = "complete" BY <1>0, <1>7
  <2>4. ar'.isPaid => settled' BY <1>0
  <2> QED BY <1>12, <1>0, <2>1, <2>2, <2>3, <2>4 DEF Agreed, Sold
<1>13. ASSUME Ample, UpfrontApart PROVE Finishes'
  <2> SUFFICES ASSUME smooth PROVE Finishes' BY <1>0 DEF Finishes
  <2>1. pc[p] = "commit" /\ pc'[p] = "reread" BY <1>13, <1>0 DEF Agreed, Finishes, AtWork
  <2>2. ASSUME NEW q \in Session, NEW j \in Id, own'[q][j] # 0 PROVE rows'[j] = 0
    <3>1. q # p BY <1>7, <2>2 DEF Zeros
    <3>2. own[q][j] # 0 BY <1>7, <2>2, <3>1
    <3>3. own[p][j] = 0 BY <3>1, <3>2 DEF Agreed, Apart, Typed, TypeOK
    <3> QED BY <1>13, <1>10, <3>2, <3>3 DEF Agreed, Finishes
  <2>3. \A q \in Session : pc'[q] \in AtWork =>
          payment'[q] # 0 /\ pc'[q] \notin {"sumCorrected", "setCorrected", "commitCorrection"}
    BY <1>13, <1>7, <2>1 DEF Agreed, Finishes, AtWork
  <2>4. settled' => ar'.isPaid /\ Covers(SumFunction(rows'))
    <3>1. CASE mine[p].isPaid BY <1>0, <1>3, <1>5, <3>1
    <3>2. CASE settled
      <4>1. Covers(SumFunction(rows)) BY <1>13, <3>2 DEF Agreed, Finishes
      <4>2. rows \in [Id -> Nat] /\ rows' \in [Id -> Nat]
        BY <1>0, <1>1 DEF Agreed, Typed, TypeOK
      <4>3. \A j \in Id : rows[j] <= rows'[j]
        <5>1. \A j \in Id : own[p][j] \in Nat BY DEF Agreed, Typed, TypeOK
        <5>2. \A j \in Id : own[p][j] # 0 => rows[j] = 0 BY <1>13 DEF Agreed, Finishes
        <5> QED BY <1>10, <4>2, <5>1, <5>2
      <4>4. SumFunction(rows) <= SumFunction(rows') BY <4>2, <4>3, TotalGrows
      <4>5. SumFunction(rows) \in Nat /\ SumFunction(rows') \in Nat BY <4>2, TotalType
      <4>6. Covers(SumFunction(rows'))
        BY <4>1, <4>4, <4>5, ReceivableConstants DEF Covers
      <4> QED BY <1>0, <1>3, <1>5, <4>6
    <3> QED BY <1>0, <3>1, <3>2
  <2> QED BY <1>0, <2>1, <2>2, <2>3, <2>4 DEF Finishes, Covers
<1>14. StatusAgrees'
  <2> SUFFICES ASSUME NEW j \in Id, rows'[j] # 0
               PROVE  ar'.status = IF Covers(ar'.paid) THEN 3 ELSE 2
    BY DEF StatusAgrees, Covers
  <2>1. rows'[j] <= Paid(p) BY <1>0, <1>1, TotalType DEF Paid
  <2>2. Paid(p) > 0 BY <1>0, <1>1, <2>1
  <2>3. mine[p].status = IF Covers(mine[p].paid) THEN 3 ELSE IF mine[p].paid > 0 THEN 2 ELSE 1
    BY <1>0 DEF Agreed, Told
  <2> QED BY <1>0, <1>4, <2>2, <2>3 DEF Covers
<1> QED BY <1>8, <1>9, <1>11, <1>12, <1>13, <1>14 DEF Agreed, Ample, UpfrontApart, Covers

(* After the commit only the sale changes.                                 *)
LEMMA AfterwardsAgrees ==
  ASSUME IInv, Agreed, Typed', NEW p \in Session,
         Reread(p) \/ CompleteCredit(p) \/ CompleteApartado(p)
  PROVE  Agreed'
<1>0. /\ pc[p] \in {"reread", "complete"} /\ pc' = [pc EXCEPT ![p] = pc'[p]]
      /\ pc'[p] \in {"complete", "idle"}
      /\ UNCHANGED <<kind, rows, notes, ar, settled, lock, own, mine, sum, payment, smooth, calm>>
      /\ pc'[p] = "complete" => ar.isPaid
      /\ sale' \in [completed : BOOLEAN, left : Nat]
      /\ sale' = sale \/ pc[p] = "complete"
      /\ pc[p] = "reread" /\ pc'[p] = "idle" => ~ar.isPaid
      /\ pc[p] = "complete" => sale'.completed
      /\ sale.completed => sale'.completed
  <2>1. sale \in [completed : BOOLEAN, left : Nat] /\ pc \in [Session -> AtRest \cup AtWork]
    BY DEF Agreed, Typed, TypeOK
  <2>2. CASE Reread(p) BY <2>1, <2>2 DEF Reread, Goto
  <2>3. CASE CompleteCredit(p)
    <3>1. sale'.completed = TRUE /\ sale' \in [completed : BOOLEAN, left : Nat]
      BY <2>1, <2>3 DEF CompleteCredit
    <3> QED BY <2>1, <2>3, <3>1 DEF CompleteCredit, Goto
  <2>4. CASE CompleteApartado(p)
    <3>1. sale'.completed = TRUE /\ sale' \in [completed : BOOLEAN, left : Nat]
      BY <2>1, <2>4 DEF CompleteApartado
    <3> QED BY <2>1, <2>4, <3>1 DEF CompleteApartado, Goto
  <2> QED BY <2>2, <2>3, <2>4
<1>2. \A q \in Session \ {p} : pc'[q] = pc[q] BY <1>0 DEF Agreed, Typed
<1>3. Apart' BY <1>0, <1>2 DEF Agreed, Apart
<1>4. \A q \in Session : Told(q)' BY <1>0, <1>2 DEF Agreed, Told, Covers
<1>5. Marked' BY <1>0 DEF Agreed, Marked, Free
<1>6. ASSUME Ample, UpfrontApart PROVE Sold'
  <2>1. \A q \in Session : Paid(q)' = Paid(q) BY <1>0, SameView
  <2>2. \A q \in Session : pc'[q] \in AtWork => pc[q] \in AtWork BY <1>0, <1>2 DEF AtWork
  <2>3. sale' = sale \/ settled BY <1>6, <1>0 DEF Agreed, Sold
  <2>4. \A q \in Session : pc'[q] = "complete" => settled BY <1>6, <1>0, <1>2 DEF Agreed, Sold
  <2>5. CASE settled
    BY <1>6, <1>0, <2>1, <2>2, <2>4, <2>5 DEF Agreed, Sold, IInv, Unborn
  <2>6. CASE sale' = sale
    BY <1>6, <1>0, <2>1, <2>2, <2>4, <2>6 DEF Agreed, Sold, Covers
  <2> QED BY <2>3, <2>5, <2>6
<1>7. ASSUME Ample, UpfrontApart PROVE Finishes'
  <2> SUFFICES ASSUME smooth PROVE Finishes' BY <1>0 DEF Finishes
  <2>1. \A q \in Session : pc'[q] \in AtWork => pc[q] \in AtWork /\ pc'[q] = pc[q]
    BY <1>0, <1>2 DEF AtWork
  <2>2. ASSUME settled, kind = "credit", ~sale'.completed
        PROVE  \E q \in Session : pc'[q] \in {"reread", "complete"}
    <3>1. PICK q \in Session : pc[q] \in {"reread", "complete"}
      BY <1>7, <1>0, <2>2 DEF Agreed, Finishes
    <3>2. CASE q # p BY <1>2, <3>1, <3>2
    <3>3. CASE q = p
      <4>1. ar.isPaid BY <1>7, <2>2 DEF Agreed, Finishes
      <4>2. pc[p] = "reread" BY <1>0, <2>2
      <4> QED BY <1>0, <4>1, <4>2
    <3> QED BY <3>2, <3>3
  <2> QED BY <1>7, <1>0, <2>1, <2>2 DEF Agreed, Finishes, Covers
<1>8. StatusAgrees' BY <1>0 DEF Agreed, StatusAgrees, Covers
<1> QED BY <1>3, <1>4, <1>5, <1>6, <1>7, <1>8 DEF Agreed, Ample, UpfrontApart, Covers

(* Types, whatever is assumed of the amounts.                              *)
LEMMA NextTyped == Typed /\ [Next]_vars => Typed'
<1> SUFFICES ASSUME Typed, [Next]_vars PROVE Typed' OBVIOUS
<1> USE ReceivableConstants
<1>0. \A p \in Session : Paid(p) \in Nat /\ Collections(p) \in [Id -> Nat]
  BY Sees DEF Typed
<1>1. ASSUME NEW k \in {"credit", "apartado"}, NEW u \in Upfront, NEW c \in BOOLEAN, NEW l \in Legacy,
             CreateSale(k, u, c, l)
      PROVE  Typed'
  <2> DEFINE row == [paid |-> u, isPaid |-> FALSE, status |-> IF u > 0 THEN 2 ELSE 1]
  <2>1. row \in Account /\ u \in Nat BY DEF Account
  <2>2. /\ UNCHANGED <<lock, pc, own, mine, sum, payment>> /\ kind' = k /\ settled' = ar'.isPaid
        /\ sale' = [completed |-> c /\ ~ Due > u + Slack, left |-> IF k = "apartado" THEN 0 ELSE 1]
    BY <1>1 DEF CreateSale
  <2>3. sale' \in [completed : BOOLEAN, left : Nat] BY <2>2
  <2>4. /\ ar' \in Account /\ rows' \in [Id -> Nat]
        /\ notes' \in [Id -> {"upfront", "migrated", "collection"}]
    <3>1. CASE ar' = row /\ UNCHANGED <<rows, notes>> BY <2>1, <3>1 DEF Typed, TypeOK
    <3>2. CASE ~ (l \/ u = 0)
      <4>1. PICK i \in Id : /\ rows' = [rows EXCEPT ![i] = u]
                            /\ notes' = [notes EXCEPT ![i] = "upfront"]
                            /\ ar' = IF HasTrigger
                                     THEN Triggered(row, SumFunction(rows')) ELSE row
        BY <1>1, <3>2 DEF CreateSale
      <4>2. rows' \in [Id -> Nat] BY <2>1, <4>1 DEF Typed, TypeOK
      <4>3. SumFunction(rows') \in Nat BY <4>2, TotalType
      <4>4. Triggered(row, SumFunction(rows')) \in Account
        BY <2>1, <4>3 DEF Triggered, Account, Covers
      <4> HIDE DEF row
      <4> QED BY <2>1, <4>1, <4>2, <4>4 DEF Typed, TypeOK
    <3> QED BY <1>1, <3>1, <3>2 DEF CreateSale
  <2>5. settled' \in BOOLEAN BY <2>2, <2>4 DEF Account
  <2> QED BY <2>2, <2>3, <2>4, <2>5 DEF Typed, TypeOK
<1>2. ASSUME NEW p \in Session, NEW a \in Payment, Backfill(p, a) PROVE Typed'
  <2>0. /\ UNCHANGED <<kind, rows, ar, sale, settled, lock, mine, sum>> /\ pc[p] = "idle"
        /\ payment' = [payment EXCEPT ![p] = a] /\ a \in Nat
    BY <1>2 DEF Backfill
  <2>1. CASE ar.paid > Paid(p) + Slack
    <3>1. PICK i \in Id : /\ own' = [own EXCEPT ![p] = [@ EXCEPT ![i] = ar.paid - Paid(p)]]
                          /\ notes' = [notes EXCEPT ![i] = "migrated"]
      BY <1>2, <2>1 DEF Backfill, Write
    <3>2. ar.paid - Paid(p) \in Nat BY <1>0, <2>1 DEF Typed, TypeOK, Account
    <3>3. \E n \in AtWork : pc' = [pc EXCEPT ![p] = n] BY <1>2, <2>1 DEF Backfill, Goto, AtWork
    <3> QED BY <2>0, <3>1, <3>2, <3>3 DEF Typed, TypeOK, AtRest, AtWork
  <2>2. CASE ~ (ar.paid > Paid(p) + Slack)
    BY <1>2, <2>0, <2>2 DEF Backfill, Goto, Typed, TypeOK, AtRest, AtWork
  <2> QED BY <2>1, <2>2
<1>3. ASSUME NEW p \in Session, Insert(p) PROVE Typed'
  BY <1>3 DEF Insert, Write, Goto, Typed, TypeOK, AtRest, AtWork
<1>4. ASSUME NEW p \in Session, ReadSum(p) PROVE Typed'
  <2>1. \E n \in AtWork : pc' = [pc EXCEPT ![p] = n] BY <1>4 DEF ReadSum, Goto, AtWork
  <2> QED BY <1>0, <1>4, <2>1 DEF ReadSum, Typed, TypeOK, AtRest, AtWork
<1>5. ASSUME NEW p \in Session, TriggerWrite(p) PROVE Typed'
  <2>1. Triggered(Row(p), sum[p]) \in Account
    BY DEF Triggered, Row, Account, Typed, TypeOK, Covers
  <2>2. \E n \in AtWork : pc' = [pc EXCEPT ![p] = n] BY <1>5 DEF TriggerWrite, Goto, AtWork
  <2> QED BY <1>5, <2>1, <2>2 DEF TriggerWrite, Typed, TypeOK, AtRest, AtWork
<1>6. ASSUME NEW p \in Session, RecalcWrite(p) PROVE Typed'
  <2>1. Recalculated(Row(p), sum[p]) \in Account
    BY DEF Recalculated, Account, Typed, TypeOK, Covers
  <2>2. \E n \in AtWork : pc' = [pc EXCEPT ![p] = n] BY <1>6 DEF RecalcWrite, Goto, AtWork
  <2> QED BY <1>6, <2>1, <2>2 DEF RecalcWrite, Typed, TypeOK, AtRest, AtWork
<1>7. ASSUME NEW p \in Session, EndTransaction(p), pc' = [pc EXCEPT ![p] = pc'[p]],
             pc'[p] \in AtRest,
             UNCHANGED <<kind, notes, sale>>, rows' \in [Id -> Nat], ar' \in Account,
             settled' \in BOOLEAN
      PROVE  Typed'
  <2>1. /\ mine' \in [Session -> Account] /\ sum' \in [Session -> Nat]
        /\ payment' \in [Session -> Nat]
    BY <1>7 DEF EndTransaction, NoAccount, Account, Typed, TypeOK
  <2>2. lock' \in Session \cup {Nobody} BY <1>7 DEF EndTransaction, Typed, TypeOK
  <2>3. own' \in [Session -> [Id -> Nat]] /\ pc' \in [Session -> AtRest \cup AtWork]
    BY <1>7 DEF EndTransaction, Zeros, Typed, TypeOK
  <2>4. ASSUME NEW q \in Session, pc'[q] \in AtRest PROVE own'[q] = Zeros /\ lock' # q
    BY <1>7, <2>4 DEF EndTransaction, Typed, TypeOK
  <2>5. \A q \in Session : pc'[q] = "idle" => pc'[q] \in AtRest BY DEF AtRest
  <2> QED BY <1>7, <2>1, <2>2, <2>3, <2>4, <2>5 DEF Typed, TypeOK
<1>8. ASSUME NEW p \in Session, Commit(p) PROVE Typed'
  <2>1. mine[p] \in Account BY DEF Typed, TypeOK
  <2>2. settled' \in BOOLEAN BY <1>8, <2>1 DEF Commit, Account, Typed, TypeOK
  <2>3. pc' = [pc EXCEPT ![p] = pc'[p]] /\ pc'[p] \in AtRest
    BY <1>8 DEF Commit, Goto, Typed, AtRest
  <2> QED BY <1>0, <1>7, <1>8, <2>1, <2>2, <2>3 DEF Commit
<1>9. ASSUME NEW p \in Session, Fail(p) PROVE Typed'
  <2>1. pc' = [pc EXCEPT ![p] = pc'[p]] /\ pc'[p] \in AtRest
    BY <1>9 DEF Fail, Goto, Typed, AtRest
  <2> QED BY <1>7, <1>9, <2>1 DEF Fail, Typed, TypeOK
<1>10. ASSUME NEW p \in Session, Reread(p) \/ CompleteCredit(p) \/ CompleteApartado(p)
       PROVE  Typed'
  <2>1. sale' \in [completed : BOOLEAN, left : Nat]
    <3>1. CASE Reread(p) BY <3>1 DEF Reread, Typed, TypeOK
    <3>2. CASE CompleteCredit(p) BY <3>2 DEF CompleteCredit, Typed, TypeOK
    <3>3. CASE CompleteApartado(p) BY <3>3 DEF CompleteApartado, Typed, TypeOK
    <3> QED BY <1>10, <3>1, <3>2, <3>3
  <2>2. /\ UNCHANGED <<kind, rows, notes, ar, settled, lock, own, mine, sum, payment>>
        /\ pc[p] \in AtRest /\ \E n \in AtRest : pc' = [pc EXCEPT ![p] = n]
    BY <1>10 DEF Reread, CompleteCredit, CompleteApartado, Goto, AtRest
  <2> QED BY <2>1, <2>2 DEF Typed, TypeOK, AtRest, AtWork
<1>11. ASSUME NEW p \in Session, NEW i \in Id, NEW a \in Correction, Correct(p, i, a)
       PROVE  Typed'
  BY <1>11 DEF Correct, Goto, Typed, TypeOK, AtRest, AtWork
<1>12. CASE UNCHANGED vars BY <1>12 DEF vars, Typed, TypeOK
<1> QED
  BY <1>1, <1>2, <1>3, <1>4, <1>5, <1>6, <1>8, <1>9, <1>10, <1>11, <1>12
  DEF Next, Collect, Rest

(* Every step keeps the account and its sale as they should be.            *)
LEMMA NextAgrees ==
  HasTrigger /\ IInv /\ Agreed /\ [Next]_vars => Agreed'
<1> SUFFICES ASSUME HasTrigger, IInv, Agreed, [Next]_vars PROVE Agreed'
  OBVIOUS
<1>0. Typed' BY NextTyped DEF Agreed
<1>1. CASE \E k \in {"credit", "apartado"}, u \in Upfront, c \in BOOLEAN :
            \E l \in Legacy : CreateSale(k, u, c, l)
  BY <1>0, <1>1, CreateAgrees
<1>2. ASSUME NEW p \in Session, NEW a \in Payment, Backfill(p, a) PROVE Agreed'
  BY <1>0, <1>2, BackfillAgrees
<1>3. ASSUME NEW p \in Session, Collect(p) PROVE Agreed'
  BY <1>0, <1>3, InsertAgrees, ReadSumAgrees, TriggerWriteAgrees, RecalcWriteAgrees,
     CommitAgrees, AfterwardsAgrees DEF Collect
<1>4. ASSUME NEW p \in Session, NEW i \in Id, NEW a \in Correction, Correct(p, i, a)
      PROVE  Agreed'
  BY <1>0, <1>4, CorrectAgrees
<1>5. ASSUME NEW p \in Session, Fail(p) PROVE Agreed'
  BY <1>0, <1>5, FailAgrees
<1>6. CASE UNCHANGED vars
  <2>1. UNCHANGED <<kind, rows, notes, ar, sale, settled, lock, pc, own, mine, sum, payment,
                    smooth, calm>>
    BY <1>6 DEF vars
  <2>2. Typed' /\ Apart' BY <1>0, <2>1 DEF Agreed, Apart
  <2>3. \A q \in Session : Told(q)' BY <2>1 DEF Agreed, Told, Covers
  <2>4. Marked' /\ StatusAgrees' BY <2>1 DEF Agreed, Marked, Free, StatusAgrees, Covers
  <2>5. ASSUME Ample, UpfrontApart PROVE Sold'
    <3>1. \A q \in Session : Paid(q)' = Paid(q) BY <2>1, SameView
    <3> QED BY <2>5, <2>1, <3>1 DEF Agreed, Sold, Covers
  <2>6. ASSUME Ample, UpfrontApart PROVE Finishes' BY <2>6, <2>1 DEF Agreed, Finishes, Covers
  <2> QED BY <2>2, <2>3, <2>4, <2>5, <2>6 DEF Agreed, Ample, UpfrontApart, Covers
<1> QED
  BY <1>1, <1>2, <1>3, <1>4, <1>5, <1>6 DEF Next, Rest

-----------------------------------------------------------------------------

(* The state of an account is always well formed, and a session at rest    *)
(* holds no lock and no collection.                                        *)
THEOREM ReceivableTypeCorrect == Spec => []TypeOK
<1>1. Init => Typed BY InitAgrees DEF Agreed
<1>2. Typed => TypeOK BY DEF Typed
<1> QED BY <1>1, <1>2, NextTyped, PTL DEF Spec

(* What the invariant says of the account the user is shown.               *)
LEMMA AgreedShown == Agreed => AccountShown
<1> SUFFICES ASSUME Agreed PROVE AccountShown OBVIOUS
<1>1. UpfrontOnce
  <2> SUFFICES ASSUME calm \/ (\E i \in Id : notes[i] = "upfront"),
                      NEW i \in Id, NEW j \in Id, rows[i] # 0, rows[j] # 0,
                      notes[i] # "collection", notes[j] # "collection"
               PROVE  i = j
    BY DEF UpfrontOnce
  <2>1. CASE calm BY <2>1 DEF Agreed, Marked, Free
  <2>2. CASE \E k \in Id : notes[k] = "upfront" BY <2>2 DEF Agreed, Marked
  <2> QED BY <2>1, <2>2
<1> QED BY <1>1 DEF AccountShown, Agreed

(* And of the goods.                                                       *)
LEMMA AgreedFollows == Ample /\ UpfrontApart /\ Agreed => GoodsFollowPayment
<1> SUFFICES ASSUME Ample, UpfrontApart, Agreed PROVE GoodsFollowPayment OBVIOUS
<1>1. ReleasedAfterPaid BY DEF Agreed, Sold, ReleasedAfterPaid
<1>2. PaidCreditCompletes BY DEF Agreed, Finishes, PaidCreditCompletes, Quiet
<1> QED BY <1>1, <1>2 DEF GoodsFollowPayment

(* The status the user is shown is the one the amounts give, and the       *)
(* upfront payment is counted once: backfillMissingInitialCollection       *)
(* migrates it only where no collection is, whatever runs at once.         *)
THEOREM AccountAlwaysShown ==
  HasTrigger => (Spec => []AccountShown)
<1> SUFFICES ASSUME HasTrigger PROVE Spec => []AccountShown
  OBVIOUS
<1>1. Init => IInv /\ Agreed BY InitIInv, InitAgrees
<1>2. IInv /\ Agreed /\ [Next]_vars => IInv' /\ Agreed' BY NextIInv, NextAgrees
<1> QED BY <1>1, <1>2, AgreedShown, PTL DEF Spec

(* Goods leave, and a sale is completed, when it is paid: never sooner;    *)
(* and a credit that was paid is completed once its requests are over,     *)
(* unless one of them failed or a collection was corrected.                *)
THEOREM GoodsAlwaysFollowPayment ==
  HasTrigger /\ Ample /\ UpfrontApart => (Spec => []GoodsFollowPayment)
<1> SUFFICES ASSUME HasTrigger, Ample, UpfrontApart PROVE Spec => []GoodsFollowPayment
  OBVIOUS
<1>1. Init => IInv /\ Agreed BY InitIInv, InitAgrees
<1>2. IInv /\ Agreed /\ [Next]_vars => IInv' /\ Agreed' BY NextIInv, NextAgrees
<1> QED BY <1>1, <1>2, AgreedFollows, PTL DEF Spec

-----------------------------------------------------------------------------
(* The account of a purchase order: its rows are Slot, and it keeps, beside  *)
(* what it shares with a sale, supplier credits.                             *)

(* The sums of the one account and of the other are the same. *)
LEMMA OrderSums ==
  /\ Order!IsFiniteSet(Slot) <=> IsFiniteSet(Slot)
  /\ \A f : Order!SumFunction(f) = SumFunctionOnSet(f, DOMAIN f)
<1>1. Order!IsFiniteSet(Slot) <=> IsFiniteSet(Slot)
  BY DEF Order!IsFiniteSet, IsFiniteSet
<1>2. ASSUME NEW f PROVE Order!SumFunction(f) = SumFunctionOnSet(f, DOMAIN f)
  BY DEF Order!SumFunction, Order!SumFunctionOnSet, Order!FoldFunctionOnSet, Order!MapThenFoldSet,
         SumFunctionOnSet, FoldFunctionOnSet, MapThenFoldSet
<1> QED
  BY <1>1, <1>2

(* The parts of the type invariant the argument needs. *)
Kinds ==
  /\ pc = [p \in Session |-> pc[p]]
  /\ left \in [Session -> Int] /\ amount \in [Session -> Int]
  /\ remaining \in [Credit -> Int] /\ applied \in [Credit -> Int]
  /\ which \in [Session -> Credit \cup {NoCredit}]
  /\ spender \in [Credit -> Session \cup {Nobody}]

(* Only a session about to commit holds a credit, and it holds the one it  *)
(* spends.                                                                 *)
Holds(p) ==
  /\ pc[p] = "spend" => which[p] # NoCredit
  /\ \A c \in Credit : spender[c] = p => pc[p] = "commit" /\ which[p] = c
  /\ \A c \in Credit : pc[p] = "commit" /\ which[p] = c =>
       spender[c] = p /\ left[p] = remaining[c] - amount[p]

CreditsInv == Kinds /\ (\A p \in Session : Holds(p)) /\ Order!CreditConserved

-----------------------------------------------------------------------------

(* A session that neither holds nor touches a credit keeps the invariant.  *)
LEMMA Untouched ==
  ASSUME Order!PayableConstants, CreditsInv, NEW p \in Session,
         UNCHANGED <<remaining, applied, spender>>,
         pc' = [pc EXCEPT ![p] = pc'[p]], pc[p] # "commit",
         pc'[p] # "spend" \/ which'[p] # NoCredit,
         pc'[p] # "commit" \/ which'[p] = NoCredit,
         which' = [which EXCEPT ![p] = which'[p]],
         which'[p] \in Credit \cup {NoCredit},
         left' = [left EXCEPT ![p] = left'[p]], left'[p] \in Int,
         amount' = [amount EXCEPT ![p] = amount'[p]], amount'[p] \in Int
  PROVE  CreditsInv'
<1>1. Kinds'
  BY DEF CreditsInv, Kinds
<1>2. ASSUME NEW q \in Session PROVE Holds(q)'
  <2>1. Holds(q) /\ Holds(p) BY DEF CreditsInv
  <2>2. CASE q = p
    <3>1. \A c \in Credit : spender[c] # p BY <2>1 DEF Holds
    <3>2. pc'[p] = "spend" => which'[p] # NoCredit OBVIOUS
    <3>3. \A c \in Credit : ~ (pc'[p] = "commit" /\ which'[p] = c)
      BY OrderSums DEF Order!PayableConstants
    <3> QED BY <2>2, <3>1, <3>2, <3>3 DEF Holds
  <2>3. CASE q # p
    BY <2>1, <2>3 DEF Holds, CreditsInv, Kinds
  <2> QED BY <2>2, <2>3
<1>3. Order!CreditConserved' BY DEF CreditsInv, Order!CreditConserved
<1> QED BY <1>1, <1>2, <1>3 DEF CreditsInv

(* The end of a request that changed no credit.                            *)
LEMMA Released ==
  ASSUME Order!PayableConstants, CreditsInv, NEW p \in Session, Order!Release(p), UNCHANGED <<remaining, applied>>
  PROVE  CreditsInv'
<1>1. Kinds'
  <2>1. pc' = [q \in Session |-> pc'[q]]
    BY DEF CreditsInv, Kinds, Order!Release, Order!Goto
  <2>2. left' \in [Session -> Int] /\ amount' \in [Session -> Int]
    BY DEF CreditsInv, Kinds, Order!Release, Order!Goto
  <2>3. remaining' \in [Credit -> Int] /\ applied' \in [Credit -> Int]
    BY DEF CreditsInv, Kinds, Order!Release, Order!Goto
  <2>4. which' \in [Session -> Credit \cup {NoCredit}]
    BY DEF CreditsInv, Kinds, Order!Release, Order!Goto
  <2>5. spender' \in [Credit -> Session \cup {Nobody}]
    BY DEF CreditsInv, Kinds, Order!Release, Order!Goto
  <2> QED BY <2>1, <2>2, <2>3, <2>4, <2>5 DEF Kinds
<1>2. ASSUME NEW q \in Session PROVE Holds(q)'
  <2>1. Holds(q) BY DEF CreditsInv
  <2>2. CASE q = p
    BY <2>2, OrderSums DEF Holds, CreditsInv, Kinds, Order!Release, Order!Goto,
       Order!PayableConstants
  <2>3. CASE q # p
    BY <2>1, <2>3, OrderSums DEF Holds, CreditsInv, Kinds, Order!Release, Order!Goto,
       Order!PayableConstants
  <2> QED BY <2>2, <2>3
<1>3. Order!CreditConserved' BY DEF CreditsInv, Order!CreditConserved
<1> QED BY <1>1, <1>2, <1>3 DEF CreditsInv

(* At first no credit is spent, and nothing of any is applied.             *)
LEMMA InitHolds == Order!PayableConstants /\ Order!Init => CreditsInv
<1> SUFFICES ASSUME Order!PayableConstants, Order!Init PROVE CreditsInv OBVIOUS
<1>1. Kinds BY OrderSums DEF Order!Init, Kinds, Order!PayableConstants
<1>2. \A p \in Session : Holds(p) BY OrderSums DEF Order!Init, Holds, Order!PayableConstants
<1>3. Order!CreditConserved BY OrderSums DEF Order!Init, Order!CreditConserved,
  Order!PayableConstants
<1> QED BY <1>1, <1>2, <1>3 DEF CreditsInv

(* The row of the credit is locked, and holds what the commit publishes.   *)
LEMMA SpendHolds ==
  ASSUME Order!PayableConstants, CreditsInv, NEW p \in Session, Order!Spend(p)
  PROVE  CreditsInv'
<1>0. which[p] \in Credit /\ spender[which[p]] = Nobody
  BY DEF CreditsInv, Kinds, Holds, Order!Spend
<1>1. Kinds'
  <2>1. pc' = [q \in Session |-> pc'[q]]
    BY DEF CreditsInv, Kinds, Order!Spend, Order!Goto, Order!tables
  <2>2. left' \in [Session -> Int] /\ amount' \in [Session -> Int]
    BY <1>0 DEF CreditsInv, Kinds, Order!Spend, Order!Goto, Order!tables
  <2>3. remaining' \in [Credit -> Int] /\ applied' \in [Credit -> Int]
    BY DEF CreditsInv, Kinds, Order!Spend, Order!Goto, Order!tables
  <2>4. which' \in [Session -> Credit \cup {NoCredit}]
    BY DEF CreditsInv, Kinds, Order!Spend, Order!Goto, Order!tables
  <2>5. spender' \in [Credit -> Session \cup {Nobody}]
    BY <1>0 DEF CreditsInv, Kinds, Order!Spend, Order!Goto, Order!tables
  <2> QED BY <2>1, <2>2, <2>3, <2>4, <2>5 DEF Kinds
<1>2. ASSUME NEW q \in Session PROVE Holds(q)'
  <2>1. Holds(q) /\ Holds(p) BY DEF CreditsInv
  <2>2. CASE q = p
    BY <1>0, <2>1, <2>2 DEF Holds, CreditsInv, Kinds, Order!Spend, Order!Goto, Order!tables
  <2>3. CASE q # p
    BY <1>0, <2>1, <2>3, OrderSums DEF Holds, CreditsInv, Kinds, Order!Spend, Order!Goto,
       Order!tables, Order!PayableConstants
  <2> QED BY <2>2, <2>3
<1>3. Order!CreditConserved' BY DEF CreditsInv, Order!CreditConserved, Order!Spend, Order!tables
<1> QED BY <1>1, <1>2, <1>3 DEF CreditsInv

(* What is taken from the credit is what is recorded as applied.           *)
LEMMA CommitHolds ==
  ASSUME Order!PayableConstants, CreditsInv, NEW p \in Session, Order!Commit(p)
  PROVE  CreditsInv'
<1>0. /\ \A c \in Credit : which[p] = c => spender[c] = p /\ left[p] = remaining[c] - amount[p]
      /\ \A c \in Credit : spender[c] = p => which[p] = c
  BY DEF CreditsInv, Holds, Order!Commit
<1>1. Kinds'
  <2>1. pc' = [q \in Session |-> pc'[q]]
    BY DEF CreditsInv, Kinds, Order!Commit, Order!Release, Order!Goto
  <2>2. left' \in [Session -> Int] /\ amount' \in [Session -> Int]
    BY DEF CreditsInv, Kinds, Order!Commit, Order!Release, Order!Goto
  <2>3. remaining' \in [Credit -> Int] /\ applied' \in [Credit -> Int]
    BY DEF CreditsInv, Kinds, Order!Commit, Order!Release, Order!Goto
  <2>4. which' \in [Session -> Credit \cup {NoCredit}]
    BY DEF CreditsInv, Kinds, Order!Commit, Order!Release, Order!Goto
  <2>5. spender' \in [Credit -> Session \cup {Nobody}]
    BY DEF CreditsInv, Kinds, Order!Commit, Order!Release, Order!Goto
  <2> QED BY <2>1, <2>2, <2>3, <2>4, <2>5 DEF Kinds
<1>2. ASSUME NEW q \in Session PROVE Holds(q)'
  <2>1. Holds(q) BY DEF CreditsInv
  <2>2. CASE q = p
    BY <2>2, OrderSums DEF Holds, CreditsInv, Kinds, Order!Commit, Order!Release, Order!Goto,
       Order!PayableConstants
  <2>3. CASE q # p
    BY <1>0, <2>1, <2>3, OrderSums DEF Holds, CreditsInv, Kinds, Order!Commit, Order!Release,
       Order!Goto, Order!PayableConstants
  <2> QED BY <2>2, <2>3
<1>3. Order!CreditConserved'
  <2> SUFFICES ASSUME NEW c \in Credit PROVE (remaining[c] + applied[c] = Original[c])'
    BY DEF Order!CreditConserved
  <2>1. remaining[c] + applied[c] = Original[c] /\ Original[c] \in Nat
    BY OrderSums DEF CreditsInv, Order!CreditConserved, Order!PayableConstants
  <2>2. /\ remaining[c] \in Int /\ applied[c] \in Int
        /\ amount[p] \in Int /\ left[p] \in Int
    BY DEF CreditsInv, Kinds
  <2>3. /\ remaining'[c] = IF spender[c] = p THEN left[p] ELSE remaining[c]
        /\ applied'[c] = IF which[p] = c THEN applied[c] + amount[p] ELSE applied[c]
    BY DEF Order!Commit
  <2> QED BY <1>0, <2>1, <2>2, <2>3
<1> QED BY <1>1, <1>2, <1>3 DEF CreditsInv

(* Every step keeps the credits as they are held.                          *)
LEMMA NextHolds == Order!PayableConstants /\ CreditsInv /\ [Order!Next]_(Order!vars) => CreditsInv'
<1> SUFFICES ASSUME Order!PayableConstants, CreditsInv,
  [Order!Next]_(Order!vars) PROVE CreditsInv' OBVIOUS
<1>0. /\ pc = [q \in Session |-> pc[q]]
      /\ left \in [Session -> Int] /\ amount \in [Session -> Int]
      /\ remaining \in [Credit -> Int]
      /\ which \in [Session -> Credit \cup {NoCredit}]
      /\ \A q \in Session : Holds(q)
  BY DEF CreditsInv, Kinds
<1>1. ASSUME NEW p \in Session, NEW a \in Payment, Order!Register(p, a) PROVE CreditsInv'
  <2>1. a \in Int BY OrderSums DEF Order!PayableConstants
  <2> QED BY <1>0, <1>1, <2>1, Untouched DEF Order!Register, Order!Goto, Order!tables
<1>2. ASSUME NEW p \in Session, NEW c \in Credit, Order!ReadCredit(p, c) PROVE CreditsInv'
  BY <1>0, <1>2, Untouched DEF Order!ReadCredit, Order!Goto, Order!tables
<1>3. ASSUME NEW p \in Session, Order!ReadBalance(p) PROVE CreditsInv'
  <2>1. CASE Due - payable.paid > 0
    <3>1. PICK a \in 1 .. left[p] : amount' = [amount EXCEPT ![p] = a]
      BY <1>3, <2>1 DEF Order!ReadBalance
    <3>2. a \in Int BY <1>0, <3>1
    <3>3. amount' = [amount EXCEPT ![p] = amount'[p]] /\ amount'[p] \in Int
      BY <1>0, <3>1, <3>2
    <3>4. /\ UNCHANGED <<remaining, applied, spender>>
          /\ pc' = [pc EXCEPT ![p] = pc'[p]] /\ pc[p] # "commit"
          /\ pc'[p] # "commit" \/ which'[p] = NoCredit
          /\ pc'[p] # "spend" \/ which'[p] # NoCredit
          /\ which' = which /\ left' = left
      BY <1>0, <1>3, <2>1 DEF Order!ReadBalance, Order!Goto, Order!tables
    <3> QED BY <1>0, <3>3, <3>4, Untouched
  <2>2. CASE ~ (Due - payable.paid > 0)
    <3>1. Order!Release(p) /\ UNCHANGED Order!tables BY <1>3, <2>2 DEF Order!ReadBalance
    <3> QED BY <3>1, Released DEF Order!tables
  <2> QED BY <2>1, <2>2
<1>4. ASSUME NEW p \in Session, Order!Pay(p) PROVE CreditsInv'
  BY <1>0, <1>4, Untouched DEF Order!Pay, Order!Goto, Order!tables
<1>5. ASSUME NEW p \in Session, Order!ReadSum(p) PROVE CreditsInv'
  BY <1>0, <1>5, Untouched DEF Order!ReadSum, Order!Goto, Order!tables
<1>6. ASSUME NEW p \in Session, Order!TriggerWrite(p) PROVE CreditsInv'
  BY <1>0, <1>6, Untouched DEF Order!TriggerWrite, Order!Goto, Order!tables
<1>7. ASSUME NEW p \in Session, NEW i \in Slot, NEW a \in Correction, Order!Correct(p, i, a)
      PROVE CreditsInv'
  BY <1>0, <1>7, Untouched DEF Order!Correct, Order!Goto, Order!tables
<1>8. ASSUME NEW p \in Session, Order!Fail(p) PROVE CreditsInv'
  BY <1>8, Released DEF Order!Fail, Order!tables
<1>9. CASE UNCHANGED Order!vars
  BY <1>9 DEF CreditsInv, Kinds, Holds, Order!CreditConserved, Order!vars, Order!tables, Order!work
<1>10. ASSUME NEW p \in Session, Order!Spend(p) PROVE CreditsInv'
  BY <1>10, SpendHolds
<1>11. ASSUME NEW p \in Session, Order!Commit(p) PROVE CreditsInv'
  BY <1>11, CommitHolds
<1> QED BY <1>1, <1>2, <1>3, <1>4, <1>5, <1>6, <1>7, <1>8, <1>9, <1>10, <1>11
        DEF Order!Next, Order!Rest

(* Supplier credits are conserved: what remains of one and what was        *)
(* applied of it always make up what it was for.  This is what             *)
(* decrementRemaining, relative and inside the transaction that records    *)
(* the application, gives applySupplierCredit.                             *)
THEOREM CreditAlwaysConserved == Order!Spec => []CreditConserved
<1> USE AccountsConstants
<1>1. Order!Init => CreditsInv BY InitHolds
<1>2. CreditsInv /\ [Order!Next]_(Order!vars) => CreditsInv' BY NextHolds
<1>3. CreditsInv => CreditConserved BY DEF CreditsInv, CreditConserved
<1> QED BY <1>1, <1>2, <1>3, PTL DEF Order!Spec

-----------------------------------------------------------------------------
(* The totals.                                                             *)

(* Before it pays a session has written no payment; afterwards, one.       *)
Labels == \A p \in Session :
  /\ pc[p] \in {"idle", "balance", "pay", "sum", "write", "spend", "commit"}
  /\ pc[p] \in {"idle", "balance", "pay"} => own[p] = Order!Zeros

PaymentsApart == \A p, q \in Session, i \in Slot : own[p][i] # 0 /\ own[q][i] # 0 => p = q

Added == ~corrected => \A p \in Session, i \in Slot : own[p][i] # 0 => rows[i] = 0

Alone == calm => \A p, q \in Session : pc[p] # "idle" /\ pc[q] # "idle" => p = q

Follows(row) == row.paid > 0 => row.status = IF Order!Covers(row.paid) THEN 3 ELSE 2

Shown ==
  /\ calm => payable.paid = Order!SumFunction(rows)
  /\ Follows(payable) /\ Order!InvoiceCovered

(* The sum a session has read may be old; it is never more than what it    *)
(* will publish, unless a payment was corrected.                           *)
Books(p) ==
  /\ pc[p] = "write" => /\ ~corrected => sum[p] <= Order!Paid(p)
                        /\ calm => sum[p] = Order!Paid(p)
  /\ pc[p] \in {"spend", "commit"} =>
       /\ ~corrected /\ mine[p].invoice => Order!Covers(Order!Paid(p))
       /\ calm => mine[p].paid = Order!Paid(p)
       /\ Follows(mine[p])

(* Undisturbed, a session pays no more than is due and than the credit.    *)
Fits(p) ==
  calm /\ which[p] # NoCredit =>
    /\ pc[p] = "balance" => left[p] = remaining[which[p]]
    /\ pc[p] = "pay" => /\ Order!SumFunction(rows) + amount[p] <= Due
                        /\ amount[p] <= remaining[which[p]]
    /\ pc[p] \in {"sum", "write", "spend", "commit"} =>
         Order!Paid(p) <= Due /\ amount[p] <= remaining[which[p]]

Consistent == /\ Order!TypeOK /\ Labels /\ PaymentsApart /\ Added /\ Alone /\ Shown
              /\ \A p \in Session : Books(p) /\ Fits(p)

(* What a session sees of the payments is a number, which grows with them. *)
LEMMA PaidType ==
  ASSUME Order!PayableConstants, Order!TypeOK, NEW p \in Session
  PROVE  Order!Paid(p) \in Nat /\ Order!SumFunction(rows) \in Nat
<1> DEFINE f == [i \in Slot |-> IF own[p][i] # 0 THEN own[p][i] ELSE rows[i]]
<1>1. IsFiniteSet(Slot) BY OrderSums DEF Order!PayableConstants
<1>2. \A i \in Slot : f[i] \in Nat /\ rows[i] \in Nat BY DEF Order!TypeOK
<1>3. DOMAIN f = Slot /\ DOMAIN rows = Slot BY DEF Order!TypeOK
<1>4. Order!Paid(p) = SumFunctionOnSet(f, Slot) BY OrderSums DEF Order!Paid
<1>5. Order!SumFunction(rows) = SumFunctionOnSet(rows, Slot) BY <1>3, OrderSums
<1> HIDE DEF f
<1> QED BY <1>1, <1>2, <1>4, <1>5, SumNatural

(* And so is what it sees after the step.                                  *)
LEMMA PaidTypeNext ==
  ASSUME Order!PayableConstants, Order!TypeOK', NEW p \in Session
  PROVE  Order!Paid(p)' \in Nat
<1> DEFINE f == [i \in Slot |-> IF own'[p][i] # 0 THEN own'[p][i] ELSE rows'[i]]
<1>1. IsFiniteSet(Slot) BY OrderSums DEF Order!PayableConstants
<1>2. \A i \in Slot : f[i] \in Nat BY DEF Order!TypeOK
<1>3. Order!Paid(p)' = SumFunctionOnSet(f, Slot) BY OrderSums DEF Order!Paid
<1> HIDE DEF f
<1> QED BY <1>1, <1>2, <1>3, SumNatural

(* Payments no less than others make no lesser sum.                        *)
LEMMA PaidGrows ==
  ASSUME Order!PayableConstants, Order!TypeOK, Order!TypeOK', NEW p \in Session, NEW q \in Session,
         \A i \in Slot : (IF own[p][i] # 0 THEN own[p][i] ELSE rows[i])
                          <= (IF own'[q][i] # 0 THEN own'[q][i] ELSE rows'[i])
  PROVE  Order!Paid(p) <= Order!Paid(q)'
<1> DEFINE f == [i \in Slot |-> IF own[p][i] # 0 THEN own[p][i] ELSE rows[i]]
           g == [i \in Slot |-> IF own'[q][i] # 0 THEN own'[q][i] ELSE rows'[i]]
<1>1. IsFiniteSet(Slot) BY OrderSums DEF Order!PayableConstants
<1>2. \A i \in Slot : f[i] \in Int /\ g[i] \in Int /\ f[i] <= g[i] BY DEF Order!TypeOK
<1>3. DOMAIN f = Slot /\ DOMAIN g = Slot OBVIOUS
<1>4. Order!Paid(p) = SumFunctionOnSet(f, Slot) BY OrderSums DEF Order!Paid
<1>5. Order!Paid(q)' = SumFunctionOnSet(g, Slot) BY OrderSums DEF Order!Paid
<1> HIDE DEF f, g
<1> QED BY <1>1, <1>2, <1>4, <1>5, SumMonotone

(* A session sees the same payments until one of them changes.             *)
LEMMA PaidSame ==
  ASSUME Order!PayableConstants, NEW p \in Session, own'[p] = own[p], rows' = rows
  PROVE  Order!Paid(p)' = Order!Paid(p)
BY DEF Order!Paid

(* A session that has written no payment sees what is committed.           *)
LEMMA PaidBefore ==
  ASSUME Order!PayableConstants, Order!TypeOK, NEW p \in Session, own[p] = Order!Zeros
  PROVE  Order!Paid(p) = Order!SumFunction(rows)
<1>1. rows = [i \in Slot |-> IF own[p][i] # 0 THEN own[p][i] ELSE rows[i]]
  BY DEF Order!TypeOK, Order!Zeros
<1> QED BY <1>1 DEF Order!Paid

(* The step of one session that commits nothing, while others keep what    *)
(* they hold.                                                              *)
LEMMA OthersKeep ==
  ASSUME Order!PayableConstants, Consistent, Order!TypeOK', NEW p \in Session,
         UNCHANGED <<rows, payable, remaining>>,
         corrected => corrected',
         calm' => calm /\ \A q \in Session \ {p} : pc[q] = "idle",
         \A q \in Session \ {p} :
           /\ pc'[q] = pc[q] /\ own'[q] = own[q] /\ sum'[q] = sum[q] /\ mine'[q] = mine[q]
           /\ which'[q] = which[q] /\ left'[q] = left[q] /\ amount'[q] = amount[q],
         pc'[p] \in {"idle", "balance", "pay", "sum", "write", "spend", "commit"},
         pc'[p] \in {"idle", "balance", "pay"} => own'[p] = Order!Zeros,
         \A i \in Slot : own'[p][i] # 0 /\ own'[p][i] # own[p][i] =>
           /\ \A q \in Session : own[q][i] = 0
           /\ corrected' \/ rows[i] = 0,
         Books(p)', Fits(p)'
  PROVE  Consistent'
<1>1. Labels' BY DEF Consistent, Labels
<1>2. PaymentsApart'
  <2> SUFFICES ASSUME NEW q \in Session, NEW r \in Session, NEW i \in Slot,
                      own'[q][i] # 0, own'[r][i] # 0, q # r
               PROVE  FALSE
    BY DEF PaymentsApart
  <2>1. CASE q # p /\ r # p BY <2>1 DEF Consistent, PaymentsApart
  <2>2. CASE q = p
    <3>1. own[r][i] # 0 BY <2>2
    <3>2. own'[p][i] = own[p][i] BY <2>2, <3>1
    <3> QED BY <2>2, <3>1, <3>2 DEF Consistent, PaymentsApart
  <2>3. CASE r = p
    <3>1. own[q][i] # 0 BY <2>3
    <3>2. own'[p][i] = own[p][i] BY <2>3, <3>1
    <3> QED BY <2>3, <3>1, <3>2 DEF Consistent, PaymentsApart
  <2> QED BY <2>1, <2>2, <2>3
<1>3. Added'
  <2> SUFFICES ASSUME ~corrected', NEW q \in Session, NEW i \in Slot, own'[q][i] # 0
               PROVE  rows[i] = 0
    BY DEF Added
  <2>1. own[q][i] # 0 => rows[i] = 0 BY DEF Consistent, Added
  <2> QED BY <2>1
<1>4. Alone' BY DEF Consistent, Alone
<1>5. Shown' BY DEF Consistent, Shown, Order!InvoiceCovered, Follows, Order!Covers
<1>6. ASSUME NEW q \in Session, q # p PROVE Books(q)' /\ Fits(q)'
  <2>1. Books(q) /\ Fits(q) BY DEF Consistent
  <2>2. Order!Paid(q)' = Order!Paid(q) BY <1>6, PaidSame
  <2>3. Books(q)' BY <1>6, <2>1, <2>2 DEF Books, Follows, Order!Covers
  <2>4. Fits(q)' BY <1>6, <2>1, <2>2 DEF Fits
  <2> QED BY <2>3, <2>4
<1> QED BY <1>1, <1>2, <1>3, <1>4, <1>5, <1>6 DEF Consistent

(* While it is calm, whoever is at work is alone.                          *)
LEMMA OthersRest ==
  ASSUME Order!PayableConstants, Consistent, NEW p \in Session, pc[p] # "idle", calm
  PROVE  \A q \in Session \ {p} : pc[q] = "idle"
BY DEF Consistent, Alone

(* registerPayment begins: nothing is written yet.                         *)
LEMMA RegisterKeeps ==
  ASSUME Order!PayableConstants, CreditsInv, Consistent, NEW p \in Session, NEW a \in Payment,
         Order!Register(p, a)
  PROVE  Consistent'
<1>1. a \in Nat BY OrderSums DEF Order!PayableConstants
<1>2. Order!TypeOK' BY <1>1 DEF Consistent, Order!TypeOK, CreditsInv, Kinds, Order!Register,
  Order!Goto, Order!tables
<1>3. pc'[p] = "pay" /\ which'[p] = NoCredit
  BY DEF CreditsInv, Kinds, Order!Register, Order!Goto
<1>4. own'[p] = Order!Zeros BY DEF Consistent, Labels, Order!Register
<1>5. Books(p)' /\ Fits(p)' BY <1>3 DEF Books, Fits
<1> QED
  BY <1>2, <1>3, <1>4, <1>5, OthersKeep
  DEF Order!Register, Order!Goto, Order!tables, Order!Quiet, CreditsInv, Kinds, Consistent,
    Order!TypeOK

(* applySupplierCredit reads the credit.                                   *)
LEMMA ReadCreditKeeps ==
  ASSUME Order!PayableConstants, CreditsInv, Consistent, NEW p \in Session, NEW c \in Credit,
         Order!ReadCredit(p, c)
  PROVE  Consistent'
<1>2. Order!TypeOK' BY DEF Consistent, Order!TypeOK, CreditsInv, Kinds, Order!ReadCredit,
  Order!Goto, Order!tables
<1>3. pc'[p] = "balance" /\ which'[p] = c /\ left'[p] = remaining[c] /\ remaining' = remaining
  BY DEF CreditsInv, Kinds, Order!ReadCredit, Order!Goto, Order!tables
<1>4. own'[p] = Order!Zeros BY DEF Consistent, Labels, Order!ReadCredit
<1>5. Books(p)' BY <1>3 DEF Books
<1>6. Fits(p)' BY <1>3 DEF Fits
<1> QED
  BY <1>2, <1>3, <1>4, <1>5, <1>6, OthersKeep
  DEF Order!ReadCredit, Order!Goto, Order!tables, Order!Quiet, CreditsInv, Kinds, Consistent,
    Order!TypeOK

(* updatePayment replaces a payment no other session holds.                *)
LEMMA OrderCorrectKeeps ==
  ASSUME Order!PayableConstants, CreditsInv, Consistent, NEW p \in Session, NEW i \in Slot,
         NEW a \in Correction, Order!Correct(p, i, a)
  PROVE  Consistent'
<1>1. a \in Nat BY OrderSums DEF Order!PayableConstants
<1>2. Order!TypeOK' BY <1>1 DEF Consistent, Order!TypeOK, CreditsInv, Kinds, Order!Correct,
  Order!Goto, Order!tables
<1>3. pc'[p] = "sum" /\ which'[p] = NoCredit
  BY DEF CreditsInv, Kinds, Order!Correct, Order!Goto
<1>4. own' = [own EXCEPT ![p] = [@ EXCEPT ![i] = a]] /\ corrected'
  BY DEF Order!Correct
<1>5. Books(p)' /\ Fits(p)' BY <1>3 DEF Books, Fits
<1>6. \A j \in Slot : own'[p][j] # own[p][j] => \A q \in Session : own[q][j] = 0
  BY <1>4 DEF Order!Correct, Consistent, Order!TypeOK
<1>7. \A q \in Session \ {p} : own'[q] = own[q] BY <1>4 DEF Consistent, Order!TypeOK
<1> QED
  BY <1>2, <1>3, <1>4, <1>5, <1>6, <1>7, OthersKeep
  DEF Order!Correct, Order!Goto, Order!tables, Order!Quiet, CreditsInv, Kinds

(* The end of a request that published nothing.                            *)
LEMMA ReleaseKeeps ==
  ASSUME Order!PayableConstants, CreditsInv, Consistent, NEW p \in Session, pc[p] # "idle",
         Order!Release(p), UNCHANGED Order!tables
  PROVE  Consistent'
<1>1. pc' = [pc EXCEPT ![p] = "idle"] /\ own' = [own EXCEPT ![p] = Order!Zeros]
  BY DEF Order!Release, Order!Goto
<1>2. Order!TypeOK'
  <2>1. own' \in [Session -> [Slot -> Nat]] /\ rows' \in [Slot -> Nat]
    BY DEF Order!Release, Order!tables, Consistent, Order!TypeOK, Order!Zeros
  <2>2. payable' \in Order!Totals /\ mine' \in [Session -> Order!Totals]
    BY DEF Order!Release, Order!tables, Consistent, Order!TypeOK, Order!Unpaid, Order!Totals
  <2>3. /\ remaining' \in [Credit -> Int] /\ applied' \in [Credit -> Nat]
        /\ left' \in [Session -> Int] /\ amount' \in [Session -> Nat]
        /\ sum' \in [Session -> Nat]
        /\ which' \in [Session -> Credit \cup {NoCredit}]
        /\ lock' \in Session \cup {Nobody}
        /\ spender' \in [Credit -> Session \cup {Nobody}]
    BY DEF Order!Release, Order!tables, Consistent, Order!TypeOK
  <2>4. ASSUME NEW q \in Session, pc'[q] = "idle"
        PROVE  own'[q] = Order!Zeros /\ lock' # q /\ \A c \in Credit : spender'[c] # q
    BY <1>1, <2>4, OrderSums DEF Order!Release, Consistent, Order!TypeOK, CreditsInv, Kinds,
       Order!PayableConstants
  <2> QED BY <2>1, <2>2, <2>3, <2>4 DEF Order!TypeOK
<1>3. pc'[p] = "idle" /\ which'[p] = NoCredit /\ own'[p] = Order!Zeros
  BY <1>1 DEF CreditsInv, Kinds, Order!Release, Consistent, Order!TypeOK
<1>4. Books(p)' /\ Fits(p)' BY <1>3 DEF Books, Fits
<1>5. \A q \in Session \ {p} :
        /\ pc'[q] = pc[q] /\ own'[q] = own[q] /\ sum'[q] = sum[q] /\ mine'[q] = mine[q]
        /\ which'[q] = which[q] /\ left'[q] = left[q] /\ amount'[q] = amount[q]
  BY <1>1 DEF Order!Release, Consistent, Order!TypeOK, CreditsInv, Kinds
<1>6. \A i \in Slot : own'[p][i] = 0 BY <1>3 DEF Order!Zeros
<1>7. calm' = calm /\ corrected' = corrected BY DEF Order!Release, Order!past
<1>8. calm => \A q \in Session \ {p} : pc[q] = "idle" BY OthersRest
<1> QED
  BY <1>2, <1>3, <1>4, <1>5, <1>6, <1>7, <1>8, OthersKeep DEF Order!tables

(* What is taken of the credit is the lesser of the credit and the balance. *)
LEMMA ReadBalanceKeeps ==
  ASSUME Order!PayableConstants, CreditsInv, Consistent, NEW p \in Session, Order!ReadBalance(p)
  PROVE  Consistent'
<1>1. CASE Due - payable.paid > 0
  <2>1. PICK a \in 1 .. left[p] :
          /\ a = IF Due - payable.paid < left[p] THEN Due - payable.paid ELSE left[p]
          /\ amount' = [amount EXCEPT ![p] = a]
    BY <1>1 DEF Order!ReadBalance
  <2>2. left[p] \in Int /\ Due \in Nat /\ payable.paid \in Nat
    BY OrderSums DEF Consistent, Order!TypeOK, Order!Totals, Order!PayableConstants
  <2>3. a \in Nat /\ a <= left[p] /\ payable.paid + a <= Due BY <2>1, <2>2
  <2>4. /\ pc' = [pc EXCEPT ![p] = "pay"] /\ UNCHANGED <<Order!tables, Order!past, which, left, own, sum, mine>>
        /\ UNCHANGED <<lock, spender>>
    BY <1>1 DEF Order!ReadBalance, Order!Goto
  <2>5. Order!TypeOK' BY <2>1, <2>3, <2>4 DEF Consistent, Order!TypeOK, CreditsInv, Kinds,
    Order!tables, Order!ReadBalance
  <2>6. pc'[p] = "pay" /\ amount'[p] = a
    BY <2>1, <2>4 DEF CreditsInv, Kinds, Consistent, Order!TypeOK
  <2>7. Books(p)' BY <2>6 DEF Books
  <2>8. Fits(p)'
    <3> SUFFICES ASSUME calm, which[p] # NoCredit
                 PROVE  Order!SumFunction(rows) + a <= Due /\ a <= remaining[which[p]]
      BY <2>4, <2>6 DEF Fits, Order!tables, Order!past
    <3>1. left[p] = remaining[which[p]] BY DEF Consistent, Fits, Order!ReadBalance
    <3>2. payable.paid = Order!SumFunction(rows) BY DEF Consistent, Shown
    <3> QED BY <2>3, <3>1, <3>2
  <2>9. own'[p] = Order!Zeros BY <2>4 DEF Consistent, Labels, Order!ReadBalance
  <2>10. \A q \in Session \ {p} : pc'[q] = pc[q] /\ amount'[q] = amount[q]
    BY <2>1, <2>4 DEF CreditsInv, Kinds
  <2>11. calm => \A q \in Session \ {p} : pc[q] = "idle" BY OthersRest DEF Order!ReadBalance
  <2> QED
    BY <2>4, <2>5, <2>6, <2>7, <2>8, <2>9, <2>10, <2>11, OthersKeep DEF Order!tables, Order!past
<1>2. CASE ~ (Due - payable.paid > 0)
  <2>1. Order!Release(p) /\ UNCHANGED Order!tables /\ pc[p] # "idle" BY <1>2 DEF Order!ReadBalance
  <2> QED BY <2>1, ReleaseKeeps
<1> QED BY <1>1, <1>2

(* The sum grows by what is paid.                                          *)
LEMMA PayKeeps ==
  ASSUME Order!PayableConstants, CreditsInv, Consistent, NEW p \in Session, Order!Pay(p)
  PROVE  Consistent'
<1>1. PICK i \in Slot : Order!Free(i) /\ own' = [own EXCEPT ![p] = [@ EXCEPT ![i] = amount[p]]]
  BY DEF Order!Pay
<1>2. pc'[p] = "sum" BY DEF Order!Pay, Order!Goto, CreditsInv, Kinds
<1>3. amount[p] \in Nat /\ own[p] = Order!Zeros BY DEF Consistent, Order!TypeOK, Labels, Order!Pay
<1>4. Order!TypeOK' BY <1>1, <1>3 DEF Consistent, Order!TypeOK, CreditsInv, Kinds, Order!Pay,
  Order!Goto, Order!tables
<1>5. Books(p)' BY <1>2 DEF Books
<1>6. Fits(p)'
  <2> SUFFICES ASSUME calm, which[p] # NoCredit
               PROVE  Order!Paid(p)' <= Due /\ amount[p] <= remaining[which[p]]
    BY <1>2 DEF Fits, Order!Pay, Order!tables, Order!past
  <2>1. /\ Order!SumFunction(rows) + amount[p] <= Due
        /\ amount[p] <= remaining[which[p]]
    BY DEF Consistent, Fits, Order!Pay
  <2>2. Order!Paid(p)' = Order!SumFunction(rows) + amount[p]
    <3> DEFINE f == [j \in Slot |-> IF own'[p][j] # 0 THEN own'[p][j] ELSE rows'[j]]
    <3>1. rows' = rows /\ rows \in [Slot -> Nat] BY DEF Order!Pay, Order!tables, Consistent,
      Order!TypeOK
    <3>2. own'[p] = [Order!Zeros EXCEPT ![i] = amount[p]] BY <1>1, <1>3 DEF Consistent, Order!TypeOK
    <3>3. rows[i] = 0 BY <1>1 DEF Order!Free
    <3>4. \A j \in Slot : f[j] \in Int /\ rows[j] \in Int BY <1>3, <3>1, <3>2 DEF Order!Zeros
    <3>5. \A j \in Slot \ {i} : f[j] = rows[j] BY <3>1, <3>2 DEF Order!Zeros
    <3>6. f[i] = amount[p] BY <1>3, <3>1, <3>2, <3>3 DEF Order!Zeros
    <3>7. Order!Paid(p)' = SumFunctionOnSet(f, Slot) BY OrderSums DEF Order!Paid
    <3>8. Order!SumFunction(rows) = SumFunctionOnSet(rows, Slot) BY <3>1, OrderSums
    <3> HIDE DEF f
    <3>9. SumFunctionOnSet(f, Slot) = SumFunctionOnSet(rows, Slot) + (f[i] - rows[i])
      BY <3>4, <3>5, SumChanges, OrderSums DEF Order!PayableConstants
    <3>10. SumFunctionOnSet(rows, Slot) \in Int BY <3>4, SumType,
      OrderSums DEF Order!PayableConstants
    <3> QED BY <1>3, <3>3, <3>6, <3>7, <3>8, <3>9, <3>10
  <2> QED BY <2>1, <2>2
<1>7. \A j \in Slot : own'[p][j] # 0 =>
        rows[j] = 0 /\ \A q \in Session : own[q][j] = 0
  BY <1>1, <1>3 DEF Order!Free, Order!Zeros, Consistent, Order!TypeOK
<1>8. \A q \in Session \ {p} : pc'[q] = pc[q] /\ own'[q] = own[q]
  BY <1>1 DEF Order!Pay, Order!Goto, CreditsInv, Kinds, Consistent, Order!TypeOK
<1>9. calm => \A q \in Session \ {p} : pc[q] = "idle" BY OthersRest DEF Order!Pay
<1> QED
  BY <1>2, <1>4, <1>5, <1>6, <1>7, <1>8, <1>9, OthersKeep DEF Order!Pay, Order!tables, Order!past

(* The trigger's statement adds up what it sees.                           *)
LEMMA OrderReadSumKeeps ==
  ASSUME Order!PayableConstants, CreditsInv, Consistent, NEW p \in Session, Order!ReadSum(p)
  PROVE  Consistent'
<1>1. pc'[p] = "write" BY DEF Order!ReadSum, Order!Goto, CreditsInv, Kinds
<1>2. Order!Paid(p) \in Nat BY PaidType DEF Consistent
<1>3. Order!TypeOK' BY <1>2 DEF Consistent, Order!TypeOK, CreditsInv, Kinds, Order!ReadSum,
  Order!Goto, Order!tables
<1>4. Order!Paid(p)' = Order!Paid(p) BY PaidSame DEF Order!ReadSum, Order!tables
<1>5. sum'[p] = Order!Paid(p) BY DEF Order!ReadSum, Consistent, Order!TypeOK
<1>6. Books(p)' BY <1>1, <1>2, <1>4, <1>5 DEF Books
<1>7. Fits(p)' BY <1>1, <1>4 DEF Fits, Consistent, Order!ReadSum, Order!tables, Order!past
<1>8. \A q \in Session \ {p} : pc'[q] = pc[q] /\ sum'[q] = sum[q]
  BY DEF Order!ReadSum, Order!Goto, CreditsInv, Kinds, Consistent, Order!TypeOK
<1>9. calm => \A q \in Session \ {p} : pc[q] = "idle" BY OthersRest DEF Order!ReadSum
<1> QED
  BY <1>1, <1>3, <1>6, <1>7, <1>8, <1>9, OthersKeep DEF Order!ReadSum, Order!tables, Order!past

(* The trigger marks the invoice when the old sum covers the order, and    *)
(* then so do the payments.                                                *)
LEMMA OrderTriggerWriteKeeps ==
  ASSUME Order!PayableConstants, CreditsInv, Consistent, NEW p \in Session, Order!TriggerWrite(p)
  PROVE  Consistent'
<1>1. pc'[p] \in {"commit", "spend"} BY DEF Order!TriggerWrite, Order!Goto, CreditsInv, Kinds
<1>2. Order!Paid(p) \in Nat /\ Order!SumFunction(rows) \in Nat BY PaidType DEF Consistent
<1>3. sum[p] \in Nat /\ payable \in Order!Totals BY DEF Consistent, Order!TypeOK
<1>4. mine'[p] = Order!Triggered(payable, sum[p]) BY DEF Order!TriggerWrite, Consistent,
  Order!TypeOK
<1>5. Order!Triggered(payable, sum[p]) \in Order!Totals
  BY <1>3 DEF Order!Triggered, Order!Totals, Order!Covers
<1>6. Order!TypeOK' BY <1>5, OrderSums DEF Consistent, Order!TypeOK, CreditsInv, Kinds,
  Order!TriggerWrite, Order!Goto, Order!tables, Order!PayableConstants
<1>7. Order!Paid(p)' = Order!Paid(p) BY PaidSame DEF Order!TriggerWrite, Order!tables
<1>8. Follows(mine'[p]) BY <1>3, <1>4 DEF Follows, Order!Triggered, Order!Totals
<1>9. calm => mine'[p].paid = Order!Paid(p) BY <1>4 DEF Order!Triggered, Consistent, Books,
  Order!TriggerWrite
<1>10. ~corrected /\ mine'[p].invoice => Order!Covers(Order!Paid(p))
  <2> SUFFICES ASSUME ~corrected, mine'[p].invoice PROVE Order!Covers(Order!Paid(p)) OBVIOUS
  <2>1. Slack \in Nat /\ Due \in Nat BY OrderSums DEF Order!PayableConstants
  <2>2. CASE payable.invoice
    <3>1. Order!Covers(Order!SumFunction(rows)) BY <2>2 DEF Consistent, Shown, Order!InvoiceCovered
    <3>2. Order!SumFunction(rows) <= Order!Paid(p)
      <4> DEFINE f == [i \in Slot |-> IF own[p][i] # 0 THEN own[p][i] ELSE rows[i]]
      <4>1. \A i \in Slot : rows[i] \in Int /\ f[i] \in Int /\ rows[i] <= f[i]
        BY DEF Consistent, Order!TypeOK, Added
      <4>2. Order!Paid(p) = SumFunctionOnSet(f, Slot) BY OrderSums DEF Order!Paid
      <4>3. Order!SumFunction(rows) = SumFunctionOnSet(rows, Slot)
        BY OrderSums DEF Consistent, Order!TypeOK
      <4> HIDE DEF f
      <4> QED BY <4>1, <4>2, <4>3, SumMonotone, OrderSums DEF Order!PayableConstants
    <3> QED BY <1>2, <2>1, <3>1, <3>2 DEF Order!Covers
  <2>3. CASE ~payable.invoice
    <3>1. Order!Covers(sum[p])
      <4> SUFFICES ASSUME ~Order!Covers(sum[p]) PROVE FALSE OBVIOUS
      <4>1. (payable.invoice \/ (Order!Covers(sum[p]) /\ payable.status # 3)) = FALSE
        BY <2>3
      <4>2. Order!Triggered(payable, sum[p]).invoice = FALSE BY ONLY <4>1 DEF Order!Triggered
      <4> QED BY <1>4, <4>2
    <3>2. sum[p] <= Order!Paid(p) BY DEF Consistent, Books, Order!TriggerWrite
    <3> QED BY <1>2, <1>3, <2>1, <3>1, <3>2 DEF Order!Covers
  <2> QED BY <2>2, <2>3
<1>11. Books(p)' BY <1>1, <1>7, <1>8, <1>9, <1>10 DEF Books, Order!TriggerWrite, Order!past,
  Follows, Order!Covers
<1>12. Fits(p)' BY <1>1, <1>7 DEF Fits, Consistent, Order!TriggerWrite, Order!tables, Order!past
<1>13. \A q \in Session \ {p} : pc'[q] = pc[q] /\ mine'[q] = mine[q]
  BY DEF Order!TriggerWrite, Order!Goto, CreditsInv, Kinds, Consistent, Order!TypeOK
<1>14. calm => \A q \in Session \ {p} : pc[q] = "idle" BY OthersRest DEF Order!TriggerWrite
<1> QED
  BY <1>1, <1>6, <1>11, <1>12, <1>13, <1>14, OthersKeep DEF Order!TriggerWrite, Order!tables,
     Order!past

(* The credit's row is taken, and the payable is as it was.                *)
LEMMA SpendKeeps ==
  ASSUME Order!PayableConstants, CreditsInv, Consistent, NEW p \in Session, Order!Spend(p)
  PROVE  Consistent'
<1>1. pc'[p] = "commit" BY DEF Order!Spend, Order!Goto, CreditsInv, Kinds
<1>2. which[p] \in Credit BY DEF Order!Spend, CreditsInv, Kinds, Holds
<1>3. Order!TypeOK' BY <1>1, <1>2 DEF Consistent, Order!TypeOK, CreditsInv, Kinds, Order!Spend,
  Order!Goto, Order!tables
<1>4. Order!Paid(p)' = Order!Paid(p) BY PaidSame DEF Order!Spend, Order!tables
<1>5. Books(p)' BY <1>1, <1>4 DEF Books, Consistent, Order!Spend, Order!past, Follows, Order!Covers
<1>6. Fits(p)' BY <1>1, <1>4 DEF Fits, Consistent, Order!Spend, Order!tables, Order!past
<1>7. \A q \in Session \ {p} : pc'[q] = pc[q] /\ left'[q] = left[q]
  BY DEF Order!Spend, Order!Goto, CreditsInv, Kinds
<1>8. calm => \A q \in Session \ {p} : pc[q] = "idle" BY OthersRest DEF Order!Spend
<1> QED
  BY <1>1, <1>3, <1>5, <1>6, <1>7, <1>8, OthersKeep DEF Order!Spend, Order!tables, Order!past

(* What is published is what the session saw, and it covers no less than   *)
(* what any other has read.                                                *)
LEMMA OrderCommitKeeps ==
  ASSUME Order!PayableConstants, CreditsInv, Consistent, NEW p \in Session, Order!Commit(p)
  PROVE  Consistent'
<1>1. pc' = [pc EXCEPT ![p] = "idle"] /\ own' = [own EXCEPT ![p] = Order!Zeros]
  BY DEF Order!Commit, Order!Release, Order!Goto
<1>2. /\ rows' = [i \in Slot |-> IF own[p][i] # 0 THEN own[p][i] ELSE rows[i]]
      /\ payable' = mine[p]
      /\ calm' = calm /\ corrected' = corrected
  BY DEF Order!Commit, Order!Release, Order!past
<1>3. Order!TypeOK'
  <2>1. own' \in [Session -> [Slot -> Nat]] /\ rows' \in [Slot -> Nat]
    BY <1>1, <1>2 DEF Consistent, Order!TypeOK, Order!Zeros
  <2>2. payable' \in Order!Totals /\ mine' \in [Session -> Order!Totals]
    BY DEF Order!Commit, Order!Release, Consistent, Order!TypeOK, Order!Unpaid, Order!Totals
  <2>3. /\ remaining' \in [Credit -> Int] /\ applied' \in [Credit -> Nat]
        /\ left' \in [Session -> Int] /\ amount' \in [Session -> Nat]
        /\ sum' \in [Session -> Nat]
        /\ which' \in [Session -> Credit \cup {NoCredit}]
        /\ lock' \in Session \cup {Nobody}
        /\ spender' \in [Credit -> Session \cup {Nobody}]
    BY DEF Order!Commit, Order!Release, Consistent, Order!TypeOK
  <2>4. ASSUME NEW q \in Session, pc'[q] = "idle"
        PROVE  own'[q] = Order!Zeros /\ lock' # q /\ \A c \in Credit : spender'[c] # q
    BY <1>1, <2>4, OrderSums DEF Order!Commit, Order!Release, Consistent, Order!TypeOK, CreditsInv,
       Kinds, Order!PayableConstants
  <2> QED BY <2>1, <2>2, <2>3, <2>4 DEF Order!TypeOK
<1>4. Order!SumFunction(rows') = Order!Paid(p) BY <1>2 DEF Order!Paid
<1>5. pc'[p] = "idle" /\ own'[p] = Order!Zeros
  BY <1>1 DEF CreditsInv, Kinds, Consistent, Order!TypeOK
<1>6. \A q \in Session \ {p} :
        /\ pc'[q] = pc[q] /\ own'[q] = own[q] /\ sum'[q] = sum[q] /\ mine'[q] = mine[q]
        /\ which'[q] = which[q]
  BY <1>1 DEF Order!Commit, Order!Release, Consistent, Order!TypeOK, CreditsInv, Kinds
<1>7. calm => \A q \in Session \ {p} : pc[q] = "idle" BY OthersRest DEF Order!Commit
<1>8. \A i \in Slot : own'[p][i] = 0 BY <1>5 DEF Order!Zeros
<1>9. Labels' BY <1>5, <1>6 DEF Consistent, Labels
<1>10. PaymentsApart'
  <2> SUFFICES ASSUME NEW q \in Session, NEW r \in Session, NEW i \in Slot,
                      own'[q][i] # 0, own'[r][i] # 0, q # r
               PROVE  FALSE
    BY DEF PaymentsApart
  <2>1. q # p /\ r # p BY <1>8
  <2> QED BY <1>6, <2>1 DEF Consistent, PaymentsApart
<1>11. Added'
  <2> SUFFICES ASSUME ~corrected, NEW q \in Session, NEW i \in Slot, own'[q][i] # 0
               PROVE  rows'[i] = 0
    BY <1>2 DEF Added
  <2>1. q # p BY <1>8
  <2>2. own[q][i] # 0 BY <1>6, <2>1
  <2>3. own[p][i] = 0 BY <2>1, <2>2 DEF Consistent, Order!TypeOK, PaymentsApart
  <2> QED BY <1>2, <2>2, <2>3 DEF Consistent, Added
<1>12. Alone' BY <1>2, <1>5, <1>6, <1>7 DEF Alone
<1>13. Shown'
  <2>1. Books(p) BY DEF Consistent
  <2>2. Order!InvoiceCovered' BY <1>2, <1>4, <2>1 DEF Books, Order!InvoiceCovered, Order!Commit,
    Order!Covers
  <2>3. Follows(payable)' BY <1>2, <2>1 DEF Books, Order!Commit, Follows, Order!Covers
  <2>4. calm' => payable'.paid = Order!SumFunction(rows') BY <1>2, <1>4, <2>1 DEF Books,
    Order!Commit
  <2> QED BY <2>2, <2>3, <2>4 DEF Shown
<1>14. Books(p)' /\ Fits(p)' BY <1>5 DEF Books, Fits
<1>15. ASSUME NEW q \in Session, q # p PROVE Books(q)' /\ Fits(q)'
  <2>1. Books(q) /\ Fits(q) BY DEF Consistent
  <2>2. own'[q] = own[q] /\ pc'[q] = pc[q] /\ sum'[q] = sum[q] /\ mine'[q] = mine[q]
    BY <1>6, <1>15
  <2>3. calm => pc'[q] = "idle" BY <1>7, <1>15, <2>2
  <2>4. ~corrected => Order!Paid(q) <= Order!Paid(q)'
    <3> SUFFICES ASSUME ~corrected PROVE Order!Paid(q) <= Order!Paid(q)' OBVIOUS
    <3>1. ASSUME NEW i \in Slot
          PROVE  (IF own[q][i] # 0 THEN own[q][i] ELSE rows[i])
                    <= (IF own'[q][i] # 0 THEN own'[q][i] ELSE rows'[i])
      <4>1. rows[i] \in Nat /\ own[q][i] \in Nat /\ own[p][i] \in Nat
        BY DEF Consistent, Order!TypeOK
      <4>2. own[p][i] # 0 => rows[i] = 0 BY DEF Consistent, Added
      <4>3. rows'[i] = IF own[p][i] # 0 THEN own[p][i] ELSE rows[i] BY <1>2
      <4>4. rows[i] <= rows'[i] BY <4>1, <4>2, <4>3
      <4> QED BY <2>2, <4>1, <4>4
    <3> QED BY <1>3, <3>1, PaidGrows DEF Consistent
  <2>5. /\ Order!Paid(q) \in Nat /\ Order!Paid(q)' \in Nat /\ sum[q] \in Nat
        /\ Slack \in Nat /\ Due \in Nat
    BY <1>3, PaidType, PaidTypeNext, OrderSums DEF Consistent, Order!TypeOK, Order!PayableConstants
  <2>6. pc'[q] = "write" => (~corrected => sum'[q] <= Order!Paid(q)')
    BY <2>1, <2>2, <2>4, <2>5 DEF Books
  <2>7. pc'[q] \in {"spend", "commit"} =>
          /\ ~corrected /\ mine'[q].invoice => Order!Covers(Order!Paid(q)')
          /\ Follows(mine'[q])
    BY <2>1, <2>2, <2>4, <2>5 DEF Books, Order!Covers, Follows
  <2>8. Books(q)' BY <1>2, <2>3, <2>6, <2>7 DEF Books, Order!Covers, Follows
  <2>9. Fits(q)' BY <1>2, <2>3 DEF Fits
  <2> QED BY <2>8, <2>9
<1> QED BY <1>3, <1>9, <1>10, <1>11, <1>12, <1>13, <1>14, <1>15 DEF Consistent

(* At first nothing is paid and nothing is shown as paid.                  *)
LEMMA InitConsistent == Order!PayableConstants /\ Order!Init => Consistent
<1> SUFFICES ASSUME Order!PayableConstants, Order!Init PROVE Consistent OBVIOUS
<1>1. Order!TypeOK BY OrderSums DEF Order!Init, Order!TypeOK, Order!Zeros, Order!Unpaid,
  Order!Totals, Order!PayableConstants
<1>2. Labels BY DEF Order!Init, Labels
<1>3. PaymentsApart /\ Added BY DEF Order!Init, PaymentsApart, Added, Order!Zeros
<1>4. Alone BY DEF Order!Init, Alone
<1>5. Shown
  <2>1. IsFiniteSet(Slot) BY OrderSums DEF Order!PayableConstants
  <2>2. \A i \in Slot : rows[i] = 0 /\ rows[i] \in Int BY DEF Order!Init, Order!Zeros
  <2>3. Order!SumFunction(rows) = SumFunctionOnSet(rows, Slot) BY OrderSums DEF Order!Init,
    Order!Zeros
  <2>4. SumFunctionOnSet(rows, Slot) = 0 BY <2>1, <2>2, SumOfZeros
  <2>5. payable.paid = 0 /\ ~payable.invoice BY DEF Order!Init, Order!Unpaid
  <2> QED BY <2>3, <2>4, <2>5 DEF Shown, Follows, Order!InvoiceCovered
<1>6. \A p \in Session : Books(p) /\ Fits(p) BY DEF Order!Init, Books, Fits
<1> QED BY <1>1, <1>2, <1>3, <1>4, <1>5, <1>6 DEF Consistent

(* Every step keeps what is shown and what is paid together.               *)
LEMMA StaysConsistent == Order!PayableConstants /\ CreditsInv /\ Consistent /\ [Order!Next]_(Order!vars) => Consistent'
<1> SUFFICES ASSUME Order!PayableConstants, CreditsInv, Consistent,
  [Order!Next]_(Order!vars) PROVE Consistent' OBVIOUS
<1>1. ASSUME NEW p \in Session, NEW a \in Payment, Order!Register(p, a) PROVE Consistent'
  BY <1>1, RegisterKeeps
<1>2. ASSUME NEW p \in Session, NEW c \in Credit, Order!ReadCredit(p, c) PROVE Consistent'
  BY <1>2, ReadCreditKeeps
<1>3. ASSUME NEW p \in Session, Order!ReadBalance(p) PROVE Consistent' BY <1>3, ReadBalanceKeeps
<1>4. ASSUME NEW p \in Session, Order!Pay(p) PROVE Consistent' BY <1>4, PayKeeps
<1>5. ASSUME NEW p \in Session, Order!ReadSum(p) PROVE Consistent' BY <1>5, OrderReadSumKeeps
<1>6. ASSUME NEW p \in Session, Order!TriggerWrite(p) PROVE Consistent' BY <1>6,
  OrderTriggerWriteKeeps
<1>7. ASSUME NEW p \in Session, Order!Spend(p) PROVE Consistent' BY <1>7, SpendKeeps
<1>8. ASSUME NEW p \in Session, NEW i \in Slot, NEW a \in Correction, Order!Correct(p, i, a)
      PROVE  Consistent'
  BY <1>8, OrderCorrectKeeps
<1>9. ASSUME NEW p \in Session, Order!Commit(p) PROVE Consistent' BY <1>9, OrderCommitKeeps
<1>10. ASSUME NEW p \in Session, Order!Fail(p) PROVE Consistent'
  BY <1>10, ReleaseKeeps DEF Order!Fail
<1>11. CASE UNCHANGED Order!vars
  <2>1. /\ UNCHANGED <<rows, payable, lock, remaining, applied, spender, pc, calm, corrected>>
        /\ UNCHANGED <<which, left, amount, own, sum, mine>>
    BY <1>11 DEF Order!vars, Order!tables, Order!work, Order!past
  <2>2. Order!TypeOK' BY <2>1 DEF Consistent, Order!TypeOK
  <2>3. Labels' /\ PaymentsApart' /\ Added' /\ Alone' /\ Shown'
    <3>1. Labels' /\ PaymentsApart' /\ Added' BY <2>1 DEF Consistent, Labels, PaymentsApart, Added
    <3>2. Alone' BY <2>1 DEF Consistent, Alone
    <3>3. Shown' BY <2>1 DEF Consistent, Shown, Order!InvoiceCovered, Follows, Order!Covers
    <3> QED BY <3>1, <3>2, <3>3
  <2>4. ASSUME NEW q \in Session PROVE Books(q)' /\ Fits(q)'
    <3>1. Books(q) /\ Fits(q) BY DEF Consistent
    <3>2. Order!Paid(q)' = Order!Paid(q) BY <2>1, PaidSame
    <3>3. Books(q)' BY <2>1, <3>1, <3>2 DEF Books, Follows, Order!Covers
    <3>4. Fits(q)' BY <2>1, <3>1, <3>2 DEF Fits
    <3> QED BY <3>3, <3>4
  <2> QED BY <2>2, <2>3, <2>4 DEF Consistent
<1> QED BY <1>1, <1>2, <1>3, <1>4, <1>5, <1>6, <1>7, <1>8, <1>9, <1>10, <1>11
        DEF Order!Next, Order!Rest

(* The state of a payable is always well formed, and a session at rest     *)
(* holds no lock and no payment.                                           *)
THEOREM PayableTypeCorrect == Order!Spec => []Order!TypeOK
<1> USE AccountsConstants
<1>1. Order!Init => CreditsInv /\ Consistent BY InitHolds, InitConsistent
<1>2. CreditsInv /\ Consistent /\ [Order!Next]_(Order!vars) => CreditsInv' /\ Consistent'
  BY NextHolds, StaysConsistent
<1>3. Consistent => Order!TypeOK BY DEF Consistent
<1> QED BY <1>1, <1>2, <1>3, PTL DEF Order!Spec

(* When a payment is there the sum is more than nothing, so the status     *)
(* follows it.                                                             *)
LEMMA ConsistentAgrees == Order!PayableConstants /\ Consistent => Order!PayableAgrees
<1> SUFFICES ASSUME Order!PayableConstants, Consistent PROVE Order!PayableAgrees OBVIOUS
<1>1. Order!InvoiceCovered BY DEF Consistent, Shown
<1>2. Order!TotalsAgree
  <2> SUFFICES ASSUME calm, NEW i \in Slot, rows[i] # 0
               PROVE  /\ payable.paid = Order!SumFunction(rows)
                      /\ payable.status = IF Order!Covers(payable.paid) THEN 3 ELSE 2
    BY DEF Order!TotalsAgree
  <2>1. payable.paid = Order!SumFunction(rows) BY DEF Consistent, Shown
  <2>2. IsFiniteSet(Slot) /\ \A j \in Slot : rows[j] \in Nat
    BY OrderSums DEF Consistent, Order!TypeOK, Order!PayableConstants
  <2>3. Order!SumFunction(rows) = SumFunctionOnSet(rows, Slot)
    BY OrderSums DEF Consistent, Order!TypeOK
  <2>4. rows[i] <= SumFunctionOnSet(rows, Slot) BY <2>2, SumCovers
  <2>5. SumFunctionOnSet(rows, Slot) \in Nat BY <2>2, SumNatural
  <2>6. payable.paid > 0 BY <2>1, <2>2, <2>3, <2>4, <2>5
  <2> QED BY <2>1, <2>6 DEF Consistent, Shown, Follows
<1> QED BY <1>1, <1>2 DEF Order!PayableAgrees

(* What the supplier is shown as owed is what was paid: the invoice is     *)
(* marked paid only when the payments cover the order, whatever runs at    *)
(* once, and undisturbed the totals are the sum of the payments.  This is  *)
(* what the triggers on purchase_order_payment and                         *)
(* purchase_account_payable give registerPayment and updatePayment.        *)
THEOREM PayableAlwaysAgrees == Order!Spec => []PayableAgrees
<1> USE AccountsConstants
<1>1. Order!Init => CreditsInv /\ Consistent BY InitHolds, InitConsistent
<1>2. CreditsInv /\ Consistent /\ [Order!Next]_(Order!vars) => CreditsInv' /\ Consistent'
  BY NextHolds, StaysConsistent
<1>3. Consistent => PayableAgrees BY ConsistentAgrees DEF PayableAgrees
<1> QED BY <1>1, <1>2, <1>3, PTL DEF Order!Spec

(* Only a commit applies a credit, and it applies what was left of it.     *)
LEMMA AppliedFits ==
  ASSUME Order!PayableConstants, CreditsInv, Consistent, [Order!Next]_(Order!vars),
         NEW c \in Credit, calm', applied'[c] > applied[c]
  PROVE  Order!SumFunction(rows') <= Due /\ remaining'[c] >= 0
<1>1. PICK p \in Session : Order!Commit(p)
  <2>1. applied' # applied BY DEF Consistent, Order!TypeOK
  <2> QED BY <2>1 DEF Order!Next, Order!Rest, Order!vars, Order!tables, Order!Register,
    Order!ReadCredit, Order!ReadBalance, Order!Release,
          Order!Pay, Order!ReadSum, Order!TriggerWrite, Order!Spend, Order!Correct, Order!Fail
<1>2. which[p] = c
  BY <1>1 DEF Order!Commit, Consistent, Order!TypeOK
<1>3. /\ rows' = [i \in Slot |-> IF own[p][i] # 0 THEN own[p][i] ELSE rows[i]]
      /\ pc[p] = "commit" /\ calm
  BY <1>1 DEF Order!Commit, Order!Release, Order!past
<1>4. Order!SumFunction(rows') = Order!Paid(p) BY <1>3 DEF Order!Paid
<1>5. Order!Paid(p) <= Due /\ amount[p] <= remaining[c]
  BY <1>2, <1>3, OrderSums DEF Consistent, Fits, Order!PayableConstants
<1>6. spender[c] = p /\ left[p] = remaining[c] - amount[p]
  BY <1>2, <1>3 DEF CreditsInv, Holds
<1>7. remaining'[c] = left[p] BY <1>1, <1>6 DEF Order!Commit
<1> QED BY <1>4, <1>5, <1>6, <1>7 DEF CreditsInv, Kinds, Consistent, Order!TypeOK

(* While requests do not run at once, a supplier credit never pays more    *)
(* than is due, nor more than is left of it: the reads applySupplierCredit *)
(* makes before its transaction still hold when it commits.                *)
THEOREM CreditAlwaysFits == Order!Spec => CreditFits
<1> USE AccountsConstants
<1>1. Order!Init => CreditsInv /\ Consistent BY InitHolds, InitConsistent
<1>2. CreditsInv /\ Consistent /\ [Order!Next]_(Order!vars) => CreditsInv' /\ Consistent'
  BY NextHolds, StaysConsistent
<1>3. CreditsInv /\ Consistent /\ [Order!Next]_(Order!vars) =>
        [\A c \in Credit : calm' /\ applied'[c] > applied[c] =>
           Order!SumFunction(rows') <= Due /\ remaining'[c] >= 0]_(Order!vars)
  BY AppliedFits
<1> QED BY <1>1, <1>2, <1>3, PTL DEF Order!Spec, CreditFits, Order!CreditFits
=============================================================================
