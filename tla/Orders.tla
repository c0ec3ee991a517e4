------------------------------- MODULE Orders -------------------------------
(***************************************************************************)
(* Purchase orders (purchase/modules/purchase): their status and its       *)
(* trail, the receipt of the goods, the supplier's invoice, the three-way  *)
(* matching and the disputes.                                              *)
(*                                                                         *)
(* Every handler reads the status of the order or of the receipt with one  *)
(* query and acts on it with the next, outside any transaction; only       *)
(* confirmGoodsReceipt opens one.  start_, update_, confirm_ and           *)
(* cancel_goods_receipt and update_supplier_invoice are functions of later *)
(* migrations that are not in the repository: they are modelled from how   *)
(* the service calls and documents them, and assumed to lock the receipt   *)
(* and to test that it is still pending, as it did.                        *)
(***************************************************************************)
EXTENDS Database, Sequences

CONSTANTS
  Order, Dispute,
  Invoiced,     \* the orders that came with an invoice
  Quantity,     \* what is received or billed
  Ordered,      \* what was ordered
  MaxTrail,     \* bound: changes of status of one order
  Absent

\* What a row holds is not the lack of one.
OrdersConstants ==
  /\ Invoiced \subseteq Order /\ Ordered \in Quantity /\ Quantity \subseteq Nat /\ MaxTrail \in Nat
  /\ Absent \notin Quantity
  /\ Absent \notin [confirmed : BOOLEAN, quantity : Quantity]
  /\ Absent \notin [receipt : Quantity, billed : Quantity]

Pending == 1
Shipped == 2
Delivered == 3
Cancelled == 4
Status == {Pending, Shipped, Delivered, Cancelled}

vars == <<db, mine, at, job, calm>>

The(o) == <<"order", o>>
Receipt(o) == <<"receipt", o>>
Bill(o) == <<"invoice", o>>
Match(o) == <<"matching", o>>
Row == ({"order", "receipt", "invoice", "matching"} \X Order) \cup ({"dispute"} \X Dispute)

OrderRow == [status : Status, trail : Seq([from : Status, to : Status]), goods : Nat]
ReceiptRow == [confirmed : BOOLEAN, quantity : Quantity]
MatchRow == [receipt : Quantity, billed : Quantity]
DisputeRow == [of : Order, resolved : Nat]

\* create_purchase_order bills what was ordered.
Init ==
  /\ db = [r \in Row |->
             CASE r[1] = "order" -> [status |-> Pending, trail |-> << >>, goods |-> 0]
               [] r[1] = "invoice" -> IF r[2] \in Invoiced THEN Ordered ELSE Absent
               [] OTHER -> Absent]
  /\ RequestsInit

Roomy(o) == Len(db[The(o)].trail) < MaxTrail
Done(s, new) == Apply(s, new, "idle", NoJob)

\* An UPDATE of the status: the trigger on_order_status_update writes down the
\* one it replaces, which need not be the one the handler read.
Moved(order, status) ==
  [order EXCEPT !.status = status,
                !.trail = Append(@, [from |-> order.status, to |-> status])]

-----------------------------------------------------------------------------
(* The status, by hand.                                                     *)

\* Mutant of ByHand: delivered is a status like the others.
ByHandAny(status) == TRUE

\* Delivered is only reached by confirming a receipt.
ByHand(status) == status # Delivered

\* updatePurchaseOrder: without a status it writes back the one it read.
StartUpdate(s) ==
  \E o \in Order, status \in Status :
    /\ Roomy(o) /\ ByHand(status)
    /\ Begin(s, "move", [order |-> o, to |-> status])

Allowed == [st \in Status |->
              CASE st = Pending -> {Shipped, Cancelled}
                [] st = Shipped -> {Cancelled}
                [] OTHER -> {}]

\* updateOrderStatus: the status it has is no change.
StartTransition(s) ==
  \E o \in Order : \E status \in Allowed[db[The(o)].status] :
    /\ Roomy(o) /\ ByHand(status)
    /\ Begin(s, "move", [order |-> o, to |-> status])

Move(s) ==
  LET r == The(job[s].order) IN
  /\ at[s] = "move"
  /\ Done(s, [x \in {r} |-> Moved(db[r], job[s].to)])

-----------------------------------------------------------------------------
(* The receipt.                                                             *)

OpenReceipt(o) == db[Receipt(o)] # Absent /\ ~db[Receipt(o)].confirmed

\* startGoodsReceipt
StartReceiving(s) ==
  \E o \in Order : /\ db[The(o)].status = Shipped
                   /\ Begin(s, "receive", [order |-> o])

\* A receipt that is pending is resumed.
InsertReceipt(s) ==
  LET r == Receipt(job[s].order) IN
  /\ at[s] = "receive"
  /\ IF db[r] # Absent THEN Rollback(s)
     ELSE Done(s, [x \in {r} |-> [confirmed |-> FALSE, quantity |-> Ordered]])

\* updateGoodsReceiptItems, cancelGoodsReceipt, confirmGoodsReceipt: refused
\* unless the receipt is pending when it is read.
StartEdit(s) ==
  \E o \in Order, q \in Quantity :
    OpenReceipt(o) /\ Begin(s, "edit", [order |-> o, quantity |-> q])

StartCancel(s) ==
  \E o \in Order : OpenReceipt(o) /\ Begin(s, "drop", [order |-> o])

StartConfirm(s) ==
  \E o \in Order : OpenReceipt(o) /\ Roomy(o) /\ Begin(s, "confirm", [order |-> o])

EditReceipt(s) ==
  LET o == job[s].order IN
  /\ at[s] = "edit" /\ Free(s, {Receipt(o)})
  /\ IF OpenReceipt(o)
     THEN Done(s, [x \in {Receipt(o)} |-> [confirmed |-> FALSE, quantity |-> job[s].quantity]])
     ELSE Rollback(s)

DropReceipt(s) ==
  LET o == job[s].order IN
  /\ at[s] = "drop" /\ Free(s, {Receipt(o)})
  /\ IF OpenReceipt(o) THEN Done(s, [x \in {Receipt(o)} |-> Absent]) ELSE Rollback(s)

\* execute_three_way_matching: an order without an invoice, or that has been
\* matched, is left as it is.
Matching(o, quantity) ==
  IF db[Bill(o)] = Absent \/ db[Match(o)] # Absent THEN Unwritten
  ELSE [r \in {Match(o)} |-> [receipt |-> quantity, billed |-> db[Bill(o)]]]

\* A matching that fails opens a dispute.
Complaint(o, matching) ==
  IF \E r \in DOMAIN matching : {matching[r].receipt, matching[r].billed} # {Ordered}
  THEN {[r \in {<<"dispute", d>>} |-> [of |-> o, resolved |-> 0]] :
          d \in {x \in Dispute : db[<<"dispute", x>>] = Absent}}
  ELSE {Unwritten}

\* confirm_goods_receipt, in the transaction that also writes the journal: the
\* goods, the matching, the dispute, the receipt and the status.
ConfirmReceipt(s) ==
  LET o == job[s].order
      q == db[Receipt(o)].quantity
  IN
  /\ at[s] = "confirm" /\ Free(s, {Receipt(o), The(o)})
  /\ IF OpenReceipt(o)
     THEN \E dispute \in Complaint(o, Matching(o, q)) :
            Write(s, Over(dispute, Over(Matching(o, q),
                       [r \in {Receipt(o), The(o)} |->
                          IF r = The(o)
                          THEN Moved([db[r] EXCEPT !.goods = @ + q], Delivered)
                          ELSE [confirmed |-> TRUE, quantity |-> q]])),
                  "commit", job[s])
     ELSE Rollback(s)

EndRequest(s) == at[s] = "commit" /\ Commit(s)

-----------------------------------------------------------------------------
(* Invoice, matching and disputes.                                          *)

\* updateSupplierInvoice: while the order is shipped, when it is read.
StartBill(s) ==
  \E o \in Invoiced, q \in Quantity :
    db[The(o)].status = Shipped /\ Begin(s, "bill", [order |-> o, quantity |-> q])

UpdateBill(s) ==
  /\ at[s] = "bill"
  /\ Done(s, [r \in {Bill(job[s].order)} |-> job[s].quantity])

\* threeWayMatching by hand, of any receipt there is.
MatchByHand(s) ==
  /\ at[s] = "idle" /\ UNCHANGED <<mine, at, job>> /\ calm' = (calm /\ Quiet)
  /\ \E o \in Order :
       /\ db[Receipt(o)] # Absent /\ Free(s, {Match(o)})
       /\ Matching(o, db[Receipt(o)].quantity) # Unwritten
       /\ db' = Over(Matching(o, db[Receipt(o)].quantity), db)

\* createDispute, of the purchases and of the disputes module.
CreateDispute(s) ==
  /\ at[s] = "idle" /\ UNCHANGED <<mine, at, job>> /\ calm' = (calm /\ Quiet)
  /\ \E o \in Order, d \in Dispute :
       /\ db[<<"dispute", d>>] = Absent /\ Free(s, {<<"dispute", d>>})
       /\ db' = [db EXCEPT ![<<"dispute", d>>] = [of |-> o, resolved |-> 0]]

\* resolveDispute tests that it is open, resolve of the disputes module not.
StartResolve(s) ==
  \E d \in Dispute, strict \in BOOLEAN :
    /\ db[<<"dispute", d>>] # Absent
    /\ strict => db[<<"dispute", d>>].resolved = 0
    /\ db[<<"dispute", d>>].resolved < 2
    /\ Begin(s, "resolve", [dispute |-> d])

Resolve(s) ==
  LET r == <<"dispute", job[s].dispute>> IN
  /\ at[s] = "resolve"
  /\ Done(s, [x \in {r} |-> [db[r] EXCEPT !.resolved = @ + 1]])

ByStatus(s) == StartUpdate(s) \/ StartTransition(s) \/ Move(s)
Receiving(s) == StartReceiving(s) \/ InsertReceipt(s) \/ StartEdit(s) \/ StartCancel(s)
                  \/ StartConfirm(s) \/ EditReceipt(s) \/ DropReceipt(s)
                  \/ ConfirmReceipt(s) \/ EndRequest(s)
Checking(s) == StartBill(s) \/ UpdateBill(s) \/ MatchByHand(s) \/ CreateDispute(s)
                 \/ StartResolve(s) \/ Resolve(s)

Next == \E s \in Session : ByStatus(s) \/ Receiving(s) \/ Checking(s) \/ Fail(s)

Spec == Init /\ [][Next]_vars

-----------------------------------------------------------------------------
(* Properties.                                                              *)

TypeOK ==
  \A r \in Row :
    CASE r[1] = "order" -> db[r] \in OrderRow
      [] r[1] = "receipt" -> db[r] \in ReceiptRow \cup {Absent}
      [] r[1] = "invoice" -> db[r] \in Quantity \cup {Absent}
      [] r[1] = "matching" -> db[r] \in MatchRow \cup {Absent}
      [] OTHER -> db[r] \in DisputeRow \cup {Absent}

\* The trail of an order leads from pending to the status it has, step by
\* step, whatever statuses the handlers that raced for it had read.
Chains(o) ==
  LET trail == db[The(o)].trail
      before == <<Pending>> \o [i \in DOMAIN trail |-> trail[i].to]
  IN /\ \A i \in DOMAIN trail : trail[i].from = before[i]
     /\ db[The(o)].status = before[Len(before)]

\* The trail passes through delivered exactly when goods came in, once, and
\* they are those of the receipt that was confirmed.
Arrived(o) ==
  LET trail == db[The(o)].trail
      came == {i \in DOMAIN trail : trail[i].to = Delivered}
  IN IF came = {} THEN db[The(o)].goods = 0
     ELSE /\ Cardinality(came) = 1
          /\ db[Receipt(o)] # Absent /\ db[Receipt(o)].confirmed
          /\ db[The(o)].goods = db[Receipt(o)].quantity

\* An order that came with an invoice and was received has been matched.
Compared(o) ==
  (\E i \in DOMAIN db[The(o)].trail : db[The(o)].trail[i].to = Delivered) /\ o \in Invoiced
    => db[Match(o)] # Absent

\* An order keeps the history it had: the trail explains its status, the goods
\* that came in are those of the one receipt confirmed, and it was matched with
\* its invoice, while requests that read a status that is gone write another.
OrderHistory == \A o \in Order : Chains(o) /\ Arrived(o) /\ Compared(o)

=============================================================================
