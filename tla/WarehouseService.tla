-------------------------- MODULE WarehouseService --------------------------
(***************************************************************************)
(* The requests of warehouse.service.ts that change stock, run by          *)
(* concurrent sessions of the database.  A handler is a program: the       *)
(* sequence of SQL statements it has still to send.  Executing the head    *)
(* may send further statements first (what a loop or a branch of the code  *)
(* does with the value it just read), so between any two statements of a   *)
(* request any other request may run, fail or be rolled back.              *)
(*                                                                         *)
(* The composition table is read three ways, and does not change here:     *)
(* Parts (components of a composite), Parents (composites a variant is a   *)
(* component of) and Leaves (explodeForInventory; see Composition).        *)
(***************************************************************************)
EXTENDS StockTable, Sequences, FiniteSetsExt

CONSTANTS
  Branch,       \* the warehouses with is_branch
  Composite,    \* the variants with is_composite
  Parts,        \* [Variant -> Seq of [v, n]]: getComponents, in heap order
  Parents,      \* [Variant -> Seq(Variant)]: productComposition.byChild
  Leaves,       \* [Variant -> Seq of [v, n]]: explodeForInventory of one unit
  Request,      \* transfer requests
  RequestOf,    \* [Request -> [from, to, products]]
  Report,       \* discrepancy reports
  ReportOf,     \* [Report -> [w, v, stored, physical]]
  Job,          \* the requests a session may be asked to serve
  MaxJobs,      \* bound: requests served by one session
  Opening,      \* [Row -> Nat \cup {Absent}]: the table at the start
  NoJob         \* what an idle session serves

Amount == [v : Variant, n : Nat \ {0}]
Product == [v : Variant, n : Nat \ {0}, u : Variant]
Transfer == [from : Warehouse, to : Warehouse, products : Seq(Product)]

SaleJob == [kind : {"sale"}, w : Warehouse, items : Seq(Amount)]
BulkJob == [kind : {"bulk"}, w : Warehouse, items : Seq(Amount)]
ShelfJob == [kind : {"receive", "lote", "addProduct", "addStock",
                     "removeStock", "edit", "erase"},
             w : Warehouse, v : Variant, n : Nat \ {0}]
MoveJob == [kind : {"move"}, from : Warehouse, to : Warehouse,
            products : Seq(Product)]
Decision == {"pending", "approved", "rejected"}
DecideJob == [kind : {"decide"}, doc : Request, status : Decision \ {"pending"}]
AdjustJob == [kind : {"adjust"}, doc : Report]

ASSUME ServiceConstants ==
  /\ Branch \subseteq Warehouse /\ Composite \subseteq Variant
  /\ Parts \in [Variant -> Seq(Amount)]
  /\ Parents \in [Variant -> Seq(Variant)]
  /\ Leaves \in [Variant -> Seq(Amount)]
  /\ RequestOf \in [Request -> Transfer]
  /\ ReportOf \in [Report -> [w : Warehouse, v : Variant,
                              stored : Nat, physical : Nat]]
  /\ Job \subseteq SaleJob \cup BulkJob \cup ShelfJob \cup MoveJob
                   \cup DecideJob \cup AdjustJob
  /\ NoJob \notin Job
  /\ MaxJobs \in Nat
  /\ Opening \in [Row -> Nat \cup {Absent}]

VARIABLES
  prog,       \* [Proc -> Seq(Statement)]: the statements still to be sent
  job,        \* [Proc -> Job \cup {NoJob}]: the request being served
  served,     \* [Proc -> 0..MaxJobs]: requests taken so far
  status,     \* [Request -> Decision]: transfer_request_status of the requests
  applied,    \* [Report -> BOOLEAN]: is_applied of the discrepancy reports
  commits     \* [Job -> Nat], history: transactions committed for each job

docs == <<status, applied>>
vars == <<tables, prog, job, served, docs, commits>>

-----------------------------------------------------------------------------
(* Statements.                                                              *)

ShelfOp == {"sell", "leaf", "final", "remove", "take", "probe", "add",
            "insert", "put", "receive", "rawput", "rawinsert", "rawadd",
            "rawremove", "log", "edit", "erase"}

\* The loops that break up parents of leaf v, n of which are needed: parent
\* number i, of which k units were seen, with short still missing.
LoopOp == {"parent", "break", "reread"}
LoopStatement == [op : LoopOp, w : Warehouse, v : Variant, n : Nat \ {0},
                  i : Nat \ {0}, k : Int, short : Int]

Statement ==
  [op : ShelfOp, w : Warehouse, v : Variant, n : Nat \ {0}]
    \cup LoopStatement
    \cup [op : {"product"}, w : Warehouse, v : Variant, n : Nat \ {0},
          u : Variant, t : Warehouse]
    \cup [op : {"check", "decide"}, doc : Request, to : Decision]
    \cup [op : {"unapplied", "mark"}, doc : Report]
    \cup [op : {"commit"}]

On(op, w, v, n) == [op |-> op, w |-> w, v |-> v, n |-> n]
Loop(op, s, i, k, short) ==
  <<[op |-> op, w |-> s.w, v |-> s.v, n |-> s.n, i |-> i, k |-> k, short |-> short]>>
Ends == <<[op |-> "commit"]>>

\* The same statement for every row of a composition, n units of it.
Each(op, w, rows, n) ==
  [i \in DOMAIN rows |-> On(op, w, rows[i].v, n * rows[i].n)]

Unpack(w, t) ==
  [i \in DOMAIN t.products |->
     [op |-> "product", w |-> w, v |-> t.products[i].v, n |-> t.products[i].n,
      u |-> t.products[i].u, t |-> t.to]]

\* What each handler sends, from its first statement that matters to stock.
Handler(j) ==
  CASE j.kind = "sale" -> Each("sell", j.w, j.items, 1) \o Ends
    [] j.kind = "bulk" -> Each("insert", j.w, j.items, 1) \o Ends
    [] j.kind = "move" -> Unpack(j.from, j) \o Ends
    [] j.kind = "decide" -> <<[op |-> "check", doc |-> j.doc, to |-> j.status]>>
    [] j.kind = "adjust" -> <<[op |-> "unapplied", doc |-> j.doc]>>
    [] j.kind = "lote" ->
         <<On("take", j.w, j.v, j.n)>> \o Each("probe", j.w, Parts[j.v], j.n)
           \o Ends
    [] j.kind = "receive" -> <<On("receive", j.w, j.v, j.n)>>
    [] j.kind = "addProduct" -> <<On("rawinsert", j.w, j.v, j.n)>> \o Ends
    [] j.kind = "addStock" -> <<On("rawadd", j.w, j.v, j.n)>> \o Ends
    [] j.kind = "removeStock" -> <<On("rawremove", j.w, j.v, j.n)>> \o Ends
    [] OTHER -> <<On(j.kind, j.w, j.v, j.n)>> \o Ends

\* The checks made before the first statement is sent.
Accepted(j) ==
  /\ j.kind = "move" => j.from # j.to /\ j.products # <<>>
  /\ j.kind = "bulk" => j.items # <<>>
  /\ j.kind = "lote" => j.v \in Composite /\ Parts[j.v] # <<>>

-----------------------------------------------------------------------------
At(p, op) == prog[p] # <<>> /\ prog[p][1].op = op
Now(p) == prog[p][1]

\* The head statement is done; the statements s come before the rest.
Then(p, s) ==
  /\ prog' = [prog EXCEPT ![p] = s \o Tail(@)]
  /\ UNCHANGED <<job, served, commits>>

ReadsOnly == UNCHANGED <<tables, docs>>
Unlogged == UNCHANGED <<com, log, pend, docs>>
Logged(p, w, v, n) == Record(p, w, v, n) /\ UNCHANGED <<com, log, docs>>

\* An exception in the handler, an error of the database, a lost connection:
\* the transaction is rolled back and the request is over.
Abort(p) ==
  /\ Rollback(p)
  /\ prog' = [prog EXCEPT ![p] = <<>>]
  /\ job' = [job EXCEPT ![p] = NoJob]
  /\ UNCHANGED <<served, docs, commits>>

Receive(p) ==
  /\ prog[p] = <<>> /\ served[p] < MaxJobs
  /\ \E j \in Job :
       /\ Accepted(j)
       /\ prog' = [prog EXCEPT ![p] = Handler(j)]
       /\ job' = [job EXCEPT ![p] = j]
  /\ served' = [served EXCEPT ![p] = @ + 1]
  /\ UNCHANGED <<tables, docs, commits>>

-----------------------------------------------------------------------------
(* consumeStockForSale.                                                     *)

SellDirect(p) ==
  /\ At(p, "sell")
  /\ \E available \in StockReads(p, Now(p).w, Now(p).v) :
       LET s == Now(p)
           direct == IF available < s.n THEN available ELSE s.n
       IN  Then(p, (IF direct > 0 THEN <<On("remove", s.w, s.v, direct)>>
                                  ELSE <<>>)
                   \o (IF s.n > direct
                         THEN Each("leaf", s.w, Leaves[s.v], s.n - direct)
                         ELSE <<>>))
  /\ ReadsOnly

\* The first read of a leaf; short of stock, its parents are broken up first.
SellLeaf(p) ==
  /\ At(p, "leaf")
  /\ \E current \in StockReads(p, Now(p).w, Now(p).v) :
       LET s == Now(p) IN
         Then(p, (IF current >= s.n THEN <<>>
                  ELSE Loop("parent", s, 1, 0, s.n - current))
                 \o <<On("final", s.w, s.v, s.n)>>)
  /\ ReadsOnly

\* The for loop over the parents: stop when nothing is missing.
TryParent(p) ==
  /\ At(p, "parent")
  /\ LET s == Now(p) IN
       IF s.short <= 0 \/ s.i > Len(Parents[s.v])
         THEN Then(p, <<>>)
         ELSE \E stock \in StockReads(p, s.w, Parents[s.v][s.i]) :
                Then(p, Loop("break", s, s.i, stock, s.short))
  /\ ReadsOnly

\* Mutant of BreakParent: tries the same parent again when its stock is gone.
BreakParentRetries(p) ==
  LET s == Now(p)
      parent == Parents[s.v][s.i]
  IN  /\ At(p, "break")
      /\ IF s.k <= 0 \/ s.short <= 0
           THEN Then(p, Loop("parent", s, s.i + 1, 0, s.short)) /\ ReadsOnly
           ELSE IF Removable(p, s.w, parent, 1) = {} THEN UNCHANGED vars
           ELSE /\ RemoveStock(p, s.w, parent, 1)
                /\ Then(p, Each("probe", s.w, Parts[parent], 1)
                             \o Loop("reread", s, s.i, s.k - 1, s.short))
                /\ Logged(p, s.w, parent, -1)

\* One turn of the while loop: break one unit of the parent, if there is one.
BreakParent(p) ==
  LET s == Now(p)
      parent == Parents[s.v][s.i]
      next == Loop("parent", s, s.i + 1, 0, s.short)
  IN  /\ At(p, "break")
      /\ IF s.k <= 0 \/ s.short <= 0 \/ Parts[parent] = <<>>
           THEN Then(p, next) /\ ReadsOnly
           ELSE /\ RemoveStock(p, s.w, parent, 1)
                /\ IF Removable(p, s.w, parent, 1) = {}
                     THEN Then(p, next) /\ Unlogged
                     ELSE /\ Then(p, Each("probe", s.w, Parts[parent], 1)
                                     \o Loop("reread", s, s.i, s.k - 1, s.short))
                          /\ Logged(p, s.w, parent, -1)

\* The refresh at the end of the turn.
RereadLeaf(p) ==
  /\ At(p, "reread")
  /\ \E current \in StockReads(p, Now(p).w, Now(p).v) :
       LET s == Now(p) IN Then(p, Loop("break", s, s.i, s.k, s.n - current))
  /\ ReadsOnly

\* Mutant of FinalCheck: the check is missing.
FinalCheckSkipped(p) ==
  /\ At(p, "final")
  /\ Then(p, <<On("remove", Now(p).w, Now(p).v, Now(p).n)>>)
  /\ ReadsOnly

\* The check that throws 'Stock insuficiente'; the decrement comes after it.
FinalCheck(p) ==
  /\ At(p, "final")
  /\ \E current \in StockReads(p, Now(p).w, Now(p).v) :
       LET s == Now(p) IN
         IF current < s.n
           THEN Abort(p)
           ELSE Then(p, <<On("remove", s.w, s.v, s.n)>>) /\ ReadsOnly

\* removeStock whose row count nobody looks at, and its log entry.
Remove(p) ==
  /\ At(p, "remove")
  /\ LET s == Now(p) IN
       RemoveStock(p, s.w, s.v, s.n) /\ Logged(p, s.w, s.v, -s.n)
  /\ Then(p, <<>>)

-----------------------------------------------------------------------------
(* Statements shared by the other handlers.                                 *)

\* Mutant of Take: the movement is not logged.
TakeUnlogged(p) ==
  /\ At(p, "take")
  /\ LET s == Now(p) IN
       IF Removable(p, s.w, s.v, s.n) = {}
         THEN Abort(p)
         ELSE RemoveStock(p, s.w, s.v, s.n) /\ Unlogged /\ Then(p, <<>>)

\* removeStock whose row count is checked: no row, no request.
Take(p) ==
  /\ At(p, "take")
  /\ LET s == Now(p) IN
       IF Removable(p, s.w, s.v, s.n) = {}
         THEN Abort(p)
         ELSE /\ RemoveStock(p, s.w, s.v, s.n)
              /\ Logged(p, s.w, s.v, -s.n)
              /\ Then(p, <<>>)

\* getInventoryId decides between addStock and insertIntoInventory.
Probe(p) ==
  /\ At(p, "probe")
  /\ LET s == Now(p)
         found == Lots(p, s.w, s.v) # {}
     IN  Then(p, <<On(IF found THEN "add" ELSE "insert", s.w, s.v, s.n)>>)
  /\ ReadsOnly

Add(p) ==
  /\ At(p, "add")
  /\ LET s == Now(p) IN
       AddStock(p, s.w, s.v, s.n) /\ Logged(p, s.w, s.v, s.n)
  /\ Then(p, <<>>)

Insert(p) ==
  /\ At(p, "insert")
  /\ LET s == Now(p) IN
       InsertLot(p, s.w, s.v, s.n) /\ Logged(p, s.w, s.v, s.n)
  /\ Then(p, <<>>)

\* addStock first, an insert when it changed no row (moveProductToWarehouse).
Put(p) ==
  /\ At(p, "put")
  /\ LET s == Now(p) IN
       IF Lots(p, s.w, s.v) = {}
         THEN Then(p, <<On("insert", s.w, s.v, s.n)>>) /\ ReadsOnly
         ELSE /\ AddStock(p, s.w, s.v, s.n)
              /\ Logged(p, s.w, s.v, s.n)
              /\ Then(p, <<>>)

\* Mutant of MoveProduct: commits what was taken from the origin before the
\* destination gets it.
MoveProductInTwo(p) ==
  /\ At(p, "product")
  /\ LET s == Now(p) IN
       Then(p, <<On("take", s.w, s.v, s.n)>> \o Ends \o <<On("put", s.t, s.v, s.n)>>)
  /\ ReadsOnly

\* One product of moveProductToWarehouse.  u is from_composite_id, or v when
\* the request names none: then nothing is disaggregated first.
MoveProduct(p) ==
  /\ At(p, "product")
  /\ \E standalone \in StockReads(p, Now(p).w, Now(p).v) :
       LET s == Now(p)
           parts == Parts[s.u]
           rows == {i \in DOMAIN parts : parts[i].v = s.v}
           perLote == IF rows = {} THEN 1
                      ELSE parts[CHOOSE i \in rows : TRUE].n
           lotes == (s.n - standalone + perLote - 1) \div perLote
           first == IF s.u = s.v \/ standalone >= s.n THEN <<>>
                    ELSE <<On("take", s.w, s.u, lotes)>>
                           \o Each("probe", s.w, parts, lotes)
           last == IF s.v \in Composite /\ s.t \in Branch
                     THEN Each("probe", s.t, Parts[s.v], s.n)
                     ELSE <<On("put", s.t, s.v, s.n)>>
       IN  Then(p, first \o <<On("take", s.w, s.v, s.n)>> \o last)
  /\ ReadsOnly

-----------------------------------------------------------------------------
(* receiveStockFromPurchase: every statement commits by itself.             *)

ReceivePurchase(p) ==
  /\ At(p, "receive")
  /\ LET s == Now(p) IN
       Then(p, IF s.v \in Composite /\ s.w \in Branch
                 THEN Each("receive", s.w, Parts[s.v], s.n)
                 ELSE <<On("rawput", s.w, s.v, s.n)>>)
  /\ ReadsOnly

\* Mutant of RawPut: the movement is logged before the goods are put.
RawPutLogsFirst(p) ==
  /\ At(p, "rawput")
  /\ LET s == Now(p) IN
       Then(p, <<On("log", s.w, s.v, s.n)>> \o Ends
                \o <<On(IF Lots(p, s.w, s.v) = {} THEN "rawinsert" ELSE "rawadd",
                        s.w, s.v, s.n)>> \o Ends)
  /\ ReadsOnly

RawPut(p) ==
  /\ At(p, "rawput")
  /\ LET s == Now(p)
         rest == Ends \o <<On("log", s.w, s.v, s.n)>> \o Ends
     IN  IF Lots(p, s.w, s.v) = {}
           THEN Then(p, <<On("rawinsert", s.w, s.v, s.n)>> \o rest) /\ ReadsOnly
           ELSE AddStock(p, s.w, s.v, s.n) /\ Unlogged /\ Then(p, rest)

LogEntry(p) ==
  /\ At(p, "log")
  /\ Logged(p, Now(p).w, Now(p).v, Now(p).n)
  /\ Then(p, <<>>)
  /\ UNCHANGED <<draft, holder>>

(* addProductToWarehouse, addStockToProduct, removeStockFromProduct,        *)
(* updateInventoryItem, deleteInventoryItem: one statement, no log entry.   *)

RawInsert(p) ==
  /\ At(p, "rawinsert")
  /\ InsertLot(p, Now(p).w, Now(p).v, Now(p).n) /\ Unlogged
  /\ Then(p, <<>>)

RawAdd(p) ==
  /\ At(p, "rawadd")
  /\ AddStock(p, Now(p).w, Now(p).v, Now(p).n) /\ Unlogged
  /\ Then(p, <<>>)

RawRemove(p) ==
  /\ At(p, "rawremove")
  /\ RemoveStock(p, Now(p).w, Now(p).v, Now(p).n) /\ Unlogged
  /\ Then(p, <<>>)

EditItem(p) ==
  /\ At(p, "edit")
  /\ LET rows == Lots(p, Now(p).w, Now(p).v) IN
       \E R \in IF rows = {} THEN {{}} ELSE {{r} : r \in rows} :
         SetRows(p, R, LAMBDA r : Now(p).n)
  /\ Unlogged
  /\ Then(p, <<>>)

DeleteItem(p) ==
  /\ At(p, "erase")
  /\ LET rows == Lots(p, Now(p).w, Now(p).v) IN
       \E R \in IF rows = {} THEN {{}} ELSE {{r} : r \in rows} :
         SetRows(p, R, LAMBDA r : Absent)
  /\ Unlogged
  /\ Then(p, <<>>)

-----------------------------------------------------------------------------
(* updateTransferRequestStatus and applyDiscrepancyAdjustment: the document *)
(* is read outside any transaction and written at the end.                  *)

\* Mutant of CheckRequest: the decision is written before the products move.
CheckRequestDecidesFirst(p) ==
  /\ At(p, "check")
  /\ LET s == Now(p)
         t == RequestOf[s.doc]
     IN  IF status[s.doc] # "pending" THEN Abort(p)
         ELSE Then(p, <<[s EXCEPT !.op = "decide"]>>
                      \o (IF s.to = "approved" THEN Unpack(t.from, t) \o Ends ELSE <<>>))
              /\ ReadsOnly

CheckRequest(p) ==
  /\ At(p, "check")
  /\ LET s == Now(p)
         t == RequestOf[s.doc]
         approved == s.to = "approved"
     IN  IF status[s.doc] # "pending" \/ (approved /\ (t.from = t.to \/ t.products = <<>>))
           THEN Abort(p)
           ELSE /\ Then(p, (IF approved THEN Unpack(t.from, t) \o Ends ELSE <<>>)
                           \o <<[s EXCEPT !.op = "decide"]>>)
                /\ ReadsOnly

Decide(p) ==
  /\ At(p, "decide")
  /\ status' = [status EXCEPT ![Now(p).doc] = Now(p).to]
  /\ Then(p, <<>>)
  /\ UNCHANGED <<tables, applied>>

CheckReport(p) ==
  /\ At(p, "unapplied")
  /\ LET s == Now(p)
         r == ReportOf[s.doc]
         delta == r.physical - r.stored
     IN  IF applied[s.doc]
           THEN Abort(p)
           ELSE /\ Then(p, (IF delta > 0 THEN <<On("add", r.w, r.v, delta)>>
                            ELSE IF delta < 0 THEN <<On("remove", r.w, r.v, -delta)>>
                            ELSE <<>>) \o <<[s EXCEPT !.op = "mark"]>>)
                /\ ReadsOnly

Committed(p) ==
  /\ Commit(p)
  /\ commits' = [commits EXCEPT ![job[p]] = @ + 1]
  /\ prog' = [prog EXCEPT ![p] = Tail(@)]
  /\ UNCHANGED <<job, served, status>>

\* applyDiscrepancyReport and the commit after it.
MarkApplied(p) ==
  /\ At(p, "mark")
  /\ applied' = [applied EXCEPT ![Now(p).doc] = TRUE]
  /\ Committed(p)

CommitJob(p) == At(p, "commit") /\ Committed(p) /\ UNCHANGED applied

-----------------------------------------------------------------------------
(* Waiting and failing.                                                     *)

\* The rows the head statement of p would write.
Targets(p) ==
  IF prog[p] = <<>> THEN {}
  ELSE LET s == Now(p) IN
       CASE s.op \in {"remove", "take", "rawremove"} ->
              Removable(p, s.w, s.v, s.n)
         [] s.op \in {"add", "put", "rawput", "rawadd"} -> Lots(p, s.w, s.v)
         [] s.op = "break" /\ s.k > 0 /\ s.short > 0 ->
              Removable(p, s.w, Parents[s.v][s.i], 1)
         [] OTHER -> {}

WaitsFor(p) == Blockers(p, Targets(p))

\* PostgreSQL ends one of the transactions that wait for each other in a ring.
DeadlockVictim(p) ==
  /\ \E ring \in SUBSET Proc :
       /\ p \in ring
       /\ \A q \in ring : /\ WaitsFor(q) \cap ring # {}
                          /\ \E o \in ring : q \in WaitsFor(o)
  /\ Abort(p)

\* Anything else that ends a request early.
Fail(p) == prog[p] # <<>> /\ Abort(p)

Sale(p) == SellDirect(p) \/ SellLeaf(p) \/ TryParent(p) \/ BreakParent(p)
             \/ RereadLeaf(p) \/ FinalCheck(p) \/ Remove(p)
Move(p) == Take(p) \/ Probe(p) \/ Add(p) \/ Insert(p) \/ Put(p) \/ MoveProduct(p)
Raw(p) == ReceivePurchase(p) \/ RawPut(p) \/ LogEntry(p) \/ RawInsert(p)
            \/ RawAdd(p) \/ RawRemove(p) \/ EditItem(p) \/ DeleteItem(p)
Document(p) == CheckRequest(p) \/ Decide(p) \/ CheckReport(p) \/ MarkApplied(p)

Step(p) == Sale(p) \/ Move(p) \/ Raw(p) \/ Document(p) \/ CommitJob(p)
             \/ DeadlockVictim(p)

\* Every session has served its requests.
Rest == (\A p \in Proc : prog[p] = <<>> /\ served[p] = MaxJobs) /\ UNCHANGED vars

Init ==
  /\ com = Opening /\ draft = Opening
  /\ holder = [r \in Row |-> Nobody]
  /\ log = NoEntries
  /\ pend = [p \in Proc |-> NoEntries]
  /\ prog = [p \in Proc |-> <<>>]
  /\ job = [p \in Proc |-> NoJob]
  /\ served = [p \in Proc |-> 0]
  /\ status = [d \in Request |-> "pending"]
  /\ applied = [d \in Report |-> FALSE]
  /\ commits = [j \in Job |-> 0]

Next == Rest \/ \E p \in Proc : Receive(p) \/ Step(p) \/ Fail(p)

Spec == Init /\ [][Next]_vars

-----------------------------------------------------------------------------
(* Properties.                                                              *)

ControlType ==
  /\ prog \in [Proc -> Seq(Statement)]
  /\ job \in [Proc -> Job \cup {NoJob}]
  /\ served \in [Proc -> 0 .. MaxJobs]
  /\ status \in [Request -> Decision]
  /\ applied \in [Report -> BOOLEAN]
  /\ commits \in [Job -> Nat]

\* Every variable holds what the code can put there.
TypeOK == TablesType /\ ControlType

\* No lot ever holds less than nothing, published or not: the decrements are
\* relative, unchecked by the handlers and raced by other requests, and the
\* column has no CHECK; only the WHERE clause of removeStock stands guard.
NoNegativeStock ==
  \A r \in Row : /\ com[r] # Absent => com[r] >= 0
                 /\ draft[r] # Absent => draft[r] >= 0

-----------------------------------------------------------------------------
\* The leaf variants one unit of v is made of.
Weight(v, leaf) ==
  LET rows == {i \in DOMAIN Leaves[v] : Leaves[v][i].v = leaf}
  IN  SumFunction([i \in rows |-> Leaves[v][i].n])

Leaf == {v \in Variant : Weight(v, v) > 0}

Units(table, leaf) ==
  SumFunction([r \in {r \in Row : table[r] # Absent} |-> table[r] * Weight(r[2], leaf)])

\* The leaf units in the lines of a composition, or of an order.
Made(rows, leaf) ==
  SumFunction([i \in DOMAIN rows |-> rows[i].n * Weight(rows[i].v, leaf)])

UnitsSold(leaf) ==
  SumFunction([j \in {j \in Job : j.kind = "sale"} |-> commits[j] * Made(j.items, leaf)])

\* Counted in leaf units, stock leaves the warehouses only through committed
\* sales: no move, no disaggregation and no failed request loses any, whatever
\* they are interleaved with.
NothingLost ==
  \A leaf \in Leaf : Units(com, leaf) + UnitsSold(leaf) >= Units(Opening, leaf)

OnShelf(table, s) ==
  SumFunction([r \in {r \in Row : r[1] = s[1] /\ r[2] = s[2] /\ table[r] # Absent} |->
                 table[r]])

\* The movement log never says more is on a shelf than there is: every unit
\* that left it was logged OUT by the transaction that took it.
LogCoversStock ==
  \A s \in Shelf : OnShelf(com, s) >= OnShelf(Opening, s) + log[s]

\* One request at a time, the log explains the stock exactly.
LogExplainsStock ==
  \A s \in Shelf : OnShelf(com, s) = OnShelf(Opening, s) + log[s]

\* The log holds up beside the endpoints that edit rows without it and the
\* purchases, whose every statement commits by itself: on a shelf of one lot from
\* which no such edit has taken anything, whatever fails between two statements of
\* a purchase, there is never less than the log says.  What a purchase put and
\* died before logging is there, unlogged; the opposite cannot be.
LogNeverAhead ==
  (\A j \in Job : j.kind \in {"removeStock", "edit", "erase"} => commits[j] = 0) =>
    \A s \in Shelf :
      Cardinality({r \in Row : <<r[1], r[2]>> = s /\ com[r] # Absent}) <= 1 =>
        OnShelf(com, s) >= OnShelf(Opening, s) + log[s]

-----------------------------------------------------------------------------
(* The shops of which the two above hold.                                   *)

\* Every warehouse has one row of every variant when it opens: removeStock and
\* addStock change every row of a shelf, and are logged once.
OneRowEach ==
  \A w \in Warehouse, v \in Variant :
    \E l \in Lot : \A m \in Lot : Opening[<<w, v, m>>] # Absent <=> m = l

\* The requests that sell, move and break up what there is.
ShopJobs == \A j \in Job : j.kind \in {"sale", "move", "lote", "decide"}

\* A pack holds what it is broken into, is_composite is set where there are
\* components, and from_composite_id names a variant that has some.
Breakable(products) ==
  \A i \in DOMAIN products :
    products[i].u = products[i].v \/ Parts[products[i].u] # <<>>

PacksAddUp ==
  /\ \A v \in Variant, leaf \in Leaf :
       /\ Made(Leaves[v], leaf) = Weight(v, leaf)
       /\ Parts[v] # <<>> => Made(Parts[v], leaf) = Weight(v, leaf)
  /\ \A v \in Composite : Parts[v] # <<>>
  /\ \A j \in Job : j.kind = "move" => Breakable(j.products)
  /\ \A d \in Request : Breakable(RequestOf[d].products)

-----------------------------------------------------------------------------
ApprovalsMoved(d) ==
  MapThenSumSet(LAMBDA j : commits[j],
                {j \in Job : j.kind = "decide" /\ j.doc = d})

\* A transfer request that reads approved has moved its products: the status
\* is written in a statement of its own, after the move committed, and the
\* request may fail, or be decided by someone else, between the two.
ApprovedWasMoved ==
  \A d \in Request : status[d] = "approved" => ApprovalsMoved(d) >= 1

\* Every request the server takes is answered: no wait for a row lock and no
\* loop of a handler lasts forever.
EveryRequestEnds ==
  \A p \in Proc : prog[p] # <<>> ~> prog[p] = <<>>

\* What the shop sees of the warehouse.
ServesShop ==
  INSTANCE Shop WITH units <- [leaf \in Leaf |-> Units(com, leaf)],
                     sold <- [leaf \in Leaf |-> UnitsSold(leaf)]

=============================================================================
