----------------------- MODULE WarehouseService_proofs -----------------------
(***************************************************************************)
(* What holds of WarehouseService for any number of sessions, warehouses,  *)
(* variants, lots and requests: the types, that no lot goes negative, and  *)
(* that an approval follows its move; in a shop that sells, moves and      *)
(* breaks up what stands on one row a shelf, that nothing is lost and that *)
(* the log never tells of more than there is; and, while its requests come *)
(* one at a time, that the log is exact and that the shop sells whole.     *)
(***************************************************************************)
EXTENDS Counter, Sums, TLAPS

\* A row nobody holds is as committed: a fact of the tables, whatever is sent.
CleanRows == \A r \in Row : holder[r] = Nobody => draft[r] = com[r]

\* The inductive invariant.  CleanRows is what makes a rollback safe (a row
\* returns to a committed value), NoNegativeStock covers the drafts because
\* COMMIT publishes them, and the types of the statements say every amount a
\* request adds or takes is positive.
TableInv == TablesType /\ NoNegativeStock /\ CleanRows
IInv == TableInv /\ ControlType

-----------------------------------------------------------------------------
(* Programs.                                                                *)

\* A product of counts is a count.
LEMMA PositiveProduct ==
  ASSUME NEW a \in Nat \ {0}, NEW b \in Nat \ {0}
  PROVE  a * b \in Nat \ {0}
  OBVIOUS

\* What is no less than the divisor holds it once.
LEMMA QuotientPositive ==
  ASSUME NEW c \in Nat, NEW b \in Nat \ {0}, c >= b
  PROVE  c \div b >= 1
  OBVIOUS

\* Units, rounded up to packs, are at least one pack.
LEMMA Rounding ==
  ASSUME NEW a \in Nat \ {0}, NEW b \in Nat \ {0}
  PROVE  (a + b - 1) \div b \in Nat \ {0}
<1>1. ASSUME NEW c \in Nat PROVE c \div b \in Int
  OBVIOUS
<1>2. a + b - 1 \in Nat /\ a + b - 1 >= b
  OBVIOUS
<1>3. (a + b - 1) \div b >= 1
  BY <1>2, QuotientPositive
<1>4. (a + b - 1) \div b \in Int
  BY <1>1, <1>2
<1> QED
  BY <1>3, <1>4

\* A statement on a shelf is a statement.
LEMMA OnType ==
  ASSUME NEW op \in ShelfOp, NEW w \in Warehouse, NEW v \in Variant,
         NEW n \in Nat \ {0}
  PROVE  On(op, w, v, n) \in Statement
  BY DEF On, Statement

\* So are those for the rows of a composition.
LEMMA EachType ==
  ASSUME NEW op \in ShelfOp, NEW w \in Warehouse, NEW rows \in Seq(Amount),
         NEW n \in Nat \ {0}
  PROVE  Each(op, w, rows, n) \in Seq(Statement)
<1>1. ASSUME NEW i \in DOMAIN rows
      PROVE  On(op, w, rows[i].v, n * rows[i].n) \in Statement
  <2>1. rows[i] \in Amount
    OBVIOUS
  <2>2. rows[i].v \in Variant /\ rows[i].n \in Nat \ {0}
    BY <2>1 DEF Amount
  <2> QED
    BY <2>2, PositiveProduct, OnType
<1> QED
  BY <1>1 DEF Each

\* So is a COMMIT.
LEMMA EndsType == Ends \in Seq(Statement)
  BY DEF Ends, Statement

\* So are those for the products of a transfer.
LEMMA UnpackType ==
  ASSUME NEW w \in Warehouse, NEW t, t.to \in Warehouse,
         t.products \in Seq(Product)
  PROVE  Unpack(w, t) \in Seq(Statement)
<1> DEFINE Line(i) == [op |-> "product", w |-> w, v |-> t.products[i].v,
                       n |-> t.products[i].n, u |-> t.products[i].u, t |-> t.to]
<1>1. \A i \in DOMAIN t.products : Line(i) \in Statement
  <2>1. \A i \in DOMAIN t.products : t.products[i] \in Product
    OBVIOUS
  <2> QED
    BY <2>1 DEF Product, Statement
<1>2. Unpack(w, t) = [i \in DOMAIN t.products |-> Line(i)]
  BY DEF Unpack
<1> HIDE DEF Line
<1>3. [i \in DOMAIN t.products |-> Line(i)] \in Seq(Statement)
  BY <1>1
<1> QED
  BY <1>2, <1>3

-----------------------------------------------------------------------------
(* Statements on the tables.                                                *)

\* What a session sees of a row is a stock, and not negative.
LEMMA SeenType ==
  ASSUME TableInv, NEW p \in Proc, NEW r \in Row
  PROVE  /\ Seen(p, r) \in Stock
         /\ Seen(p, r) # Absent => Seen(p, r) \in Nat
  BY DEF TableInv, TablesType, NoNegativeStock, Seen, Stock

\* What it reads of a shelf is a number of units.
LEMMA ReadType ==
  ASSUME TableInv, NEW p \in Proc, NEW w, NEW v
  PROVE  StockReads(p, w, v) \subseteq Nat
  BY SeenType DEF StockReads, Lots

\* What an UPDATE or an INSERT leaves behind.
Written ==
  /\ draft' \in [Row -> Stock]
  /\ holder' \in [Row -> Proc \cup {Nobody}]
  /\ \A r \in Row : /\ draft'[r] # Absent => draft'[r] >= 0
                    /\ holder'[r] = Nobody => draft'[r] = com[r]

\* Removing takes no more than a lot has.
LEMMA RemoveWrites ==
  ASSUME TableInv, NEW p \in Proc, NEW w, NEW v, NEW n \in Nat,
         RemoveStock(p, w, v, n)
  PROVE  Written
<1> DEFINE R == Removable(p, w, v, n)
<1>1. \A r \in R : r \in Row /\ Seen(p, r) \in Nat /\ Seen(p, r) - n \in Nat
  BY SeenType DEF Removable, Lots
<1>2. /\ draft' = [r \in Row |-> IF r \in R THEN Seen(p, r) - n ELSE draft[r]]
      /\ holder' = [r \in Row |-> IF r \in R THEN p ELSE holder[r]]
  BY DEF RemoveStock, SetRows
<1>3. /\ draft \in [Row -> Stock] /\ holder \in [Row -> Proc \cup {Nobody}]
      /\ \A r \in Row : /\ draft[r] # Absent => draft[r] >= 0
                        /\ holder[r] = Nobody => draft[r] = com[r]
  BY DEF TableInv, TablesType, NoNegativeStock, CleanRows
<1> HIDE DEF R
<1>4. /\ draft' \in [Row -> Stock]
      /\ \A r \in Row : draft'[r] # Absent => draft'[r] >= 0
  BY <1>1, <1>2, <1>3 DEF Stock
<1>5. /\ holder' \in [Row -> Proc \cup {Nobody}]
      /\ \A r \in Row : holder'[r] = Nobody => draft'[r] = com[r]
  BY <1>2, <1>3, StockConstants
<1> QED
  BY <1>4, <1>5 DEF Written

\* Adding takes nothing.
LEMMA AddWrites ==
  ASSUME TableInv, NEW p \in Proc, NEW w, NEW v, NEW n \in Nat,
         AddStock(p, w, v, n)
  PROVE  Written
<1> DEFINE R == Lots(p, w, v)
<1>1. \A r \in R : r \in Row /\ Seen(p, r) \in Nat /\ Seen(p, r) + n \in Nat
  BY SeenType DEF Lots
<1>2. /\ draft' = [r \in Row |-> IF r \in R THEN Seen(p, r) + n ELSE draft[r]]
      /\ holder' = [r \in Row |-> IF r \in R THEN p ELSE holder[r]]
  BY DEF AddStock, SetRows
<1>3. /\ draft \in [Row -> Stock] /\ holder \in [Row -> Proc \cup {Nobody}]
      /\ \A r \in Row : /\ draft[r] # Absent => draft[r] >= 0
                        /\ holder[r] = Nobody => draft[r] = com[r]
  BY DEF TableInv, TablesType, NoNegativeStock, CleanRows
<1> HIDE DEF R
<1>4. /\ draft' \in [Row -> Stock]
      /\ \A r \in Row : draft'[r] # Absent => draft'[r] >= 0
  BY <1>1, <1>2, <1>3 DEF Stock
<1>5. /\ holder' \in [Row -> Proc \cup {Nobody}]
      /\ \A r \in Row : holder'[r] = Nobody => draft'[r] = com[r]
  BY <1>2, <1>3, StockConstants
<1> QED
  BY <1>4, <1>5 DEF Written

\* Setting rows to a stock, or deleting them, leaves no row below zero.
LEMMA SetWrites ==
  ASSUME TableInv, NEW p \in Proc, NEW R \in SUBSET Row, NEW x \in Nat \cup {Absent},
         draft' = [r \in Row |-> IF r \in R THEN x ELSE draft[r]],
         holder' = [r \in Row |-> IF r \in R THEN p ELSE holder[r]]
  PROVE  Written
<1>1. /\ draft' = [r \in Row |-> IF r \in R THEN x ELSE draft[r]]
      /\ holder' = [r \in Row |-> IF r \in R THEN p ELSE holder[r]]
  OBVIOUS
<1>2. /\ draft \in [Row -> Stock] /\ holder \in [Row -> Proc \cup {Nobody}]
      /\ \A r \in Row : /\ draft[r] # Absent => draft[r] >= 0
                        /\ holder[r] = Nobody => draft[r] = com[r]
  BY DEF TableInv, TablesType, NoNegativeStock, CleanRows
<1>3. /\ draft' \in [Row -> Stock]
      /\ \A r \in Row : draft'[r] # Absent => draft'[r] >= 0
  BY <1>1, <1>2 DEF Stock
<1>4. /\ holder' \in [Row -> Proc \cup {Nobody}]
      /\ \A r \in Row : holder'[r] = Nobody => draft'[r] = com[r]
  BY <1>1, <1>2, StockConstants
<1> QED
  BY <1>3, <1>4 DEF Written

\* A new lot holds what it is given.
LEMMA InsertWrites ==
  ASSUME TableInv, NEW p \in Proc, NEW w, NEW v, NEW n \in Nat,
         InsertLot(p, w, v, n)
  PROVE  Written
<1>1. PICK s \in FreeSlots(w, v) : SetRows(p, {s}, LAMBDA x : n)
  BY DEF InsertLot
<1>2. {s} \in SUBSET Row
  BY DEF FreeSlots
<1>3. /\ draft' = [r \in Row |-> IF r \in {s} THEN n ELSE draft[r]]
      /\ holder' = [r \in Row |-> IF r \in {s} THEN p ELSE holder[r]]
  BY <1>1 DEF SetRows
<1> QED
  BY <1>2, <1>3, SetWrites

\* A write touches no committed row.
LEMMA WrittenKeeps ==
  ASSUME TableInv, Written, UNCHANGED <<com, log>>,
         pend' \in [Proc -> [Shelf -> Int]]
  PROVE  TableInv'
  BY DEF Written, TableInv, TablesType, NoNegativeStock, CleanRows

\* Logging writes a number of units.
LEMMA RecordType ==
  ASSUME TableInv, NEW p \in Proc, NEW w \in Warehouse, NEW v \in Variant,
         NEW n \in Int, Record(p, w, v, n)
  PROVE  pend' \in [Proc -> [Shelf -> Int]]
  BY DEF TableInv, TablesType, Record, Shelf

\* Locks and entries that are let go are nobody's.
LEMMA ReleaseType ==
  ASSUME TableInv, NEW p \in Proc, Release(p)
  PROVE  /\ pend' \in [Proc -> [Shelf -> Int]]
         /\ holder' \in [Row -> Proc \cup {Nobody}]
  BY DEF TableInv, TablesType, Release, NoEntries

\* COMMIT publishes stocks that are not negative.
LEMMA CommitKeeps ==
  ASSUME TableInv, NEW p \in Proc, Commit(p)
  PROVE  TableInv'
<1>1. com' \in [Row -> Stock]
  BY SeenType DEF Commit
<1>2. log' \in [Shelf -> Int]
  BY DEF Commit, TableInv, TablesType
<1>3. draft' \in [Row -> Stock]
  BY DEF Commit, TableInv, TablesType
<1>4. TablesType'
  BY <1>1, <1>2, <1>3, ReleaseType DEF Commit, TablesType
<1>5. NoNegativeStock'
  BY SeenType DEF Commit, TableInv, NoNegativeStock
<1>6. CleanRows'
  BY DEF Commit, Release, Seen, TableInv, TablesType, CleanRows
<1> QED
  BY <1>4, <1>5, <1>6 DEF TableInv

\* ROLLBACK returns to the committed rows.
LEMMA RollbackKeeps ==
  ASSUME TableInv, NEW p \in Proc, Rollback(p)
  PROVE  TableInv'
<1>1. TablesType'
  BY ReleaseType DEF Rollback, TableInv, TablesType
<1>2. NoNegativeStock'
  BY DEF Rollback, TableInv, TablesType, NoNegativeStock
<1>3. CleanRows'
  BY DEF Rollback, Release, TableInv, TablesType, CleanRows
<1> QED
  BY <1>1, <1>2, <1>3 DEF TableInv

\* Reading changes no table.
LEMMA ReadKeeps ==
  ASSUME TableInv, UNCHANGED tables
  PROVE  TableInv'
  BY DEF tables, TableInv, TablesType, NoNegativeStock, CleanRows

-----------------------------------------------------------------------------
(* Steps.                                                                   *)

\* What is sent next is a statement.
LEMMA HeadType ==
  ASSUME ControlType, NEW p \in Proc, prog[p] # <<>>
  PROVE  Now(p) \in Statement /\ Tail(prog[p]) \in Seq(Statement)
  BY DEF ControlType, Now

\* On a shelf, it is for some units of a variant.
LEMMA ShelfHead ==
  ASSUME ControlType, NEW p \in Proc, NEW op \in ShelfOp, At(p, op)
  PROVE  /\ Now(p).w \in Warehouse /\ Now(p).v \in Variant
         /\ Now(p).n \in Nat \ {0} /\ prog[p] # <<>>
<1>1. Now(p) \in Statement /\ Now(p).op = op /\ prog[p] # <<>>
  BY HeadType DEF At, Now
<1>2. Now(p) \in [op : ShelfOp, w : Warehouse, v : Variant, n : Nat \ {0}]
  BY <1>1 DEF Statement, ShelfOp, LoopStatement, LoopOp
<1> QED
  BY <1>1, <1>2

\* A turn of a loop over the parents is a statement.
LEMMA LoopType ==
  ASSUME NEW op \in LoopOp, NEW s, s.w \in Warehouse, s.v \in Variant,
         s.n \in Nat \ {0}, NEW i \in Nat \ {0}, NEW k \in Int, NEW short \in Int
  PROVE  Loop(op, s, i, k, short) \in Seq(Statement)
  BY DEF Loop, LoopStatement, Statement

\* It is of a variant, for some units of it.
LEMMA LoopHead ==
  ASSUME ControlType, NEW p \in Proc, NEW op \in LoopOp, At(p, op)
  PROVE  /\ Now(p).w \in Warehouse /\ Now(p).v \in Variant
         /\ Now(p).n \in Nat \ {0} /\ Now(p).i \in Nat \ {0}
         /\ Now(p).k \in Int /\ Now(p).short \in Int /\ prog[p] # <<>>
<1>1. Now(p) \in Statement /\ Now(p).op = op /\ prog[p] # <<>>
  BY HeadType DEF At, Now
<1>2. Now(p) \in LoopStatement
  BY <1>1 DEF Statement, ShelfOp, LoopOp
<1> QED
  BY <1>1, <1>2 DEF LoopStatement

\* A program grows by statements.
LEMMA ThenType ==
  ASSUME ControlType, NEW p \in Proc, prog[p] # <<>>,
         NEW s \in Seq(Statement), Then(p, s)
  PROVE  /\ prog' \in [Proc -> Seq(Statement)]
         /\ UNCHANGED <<job, served, commits>>
<1>1. s \o Tail(prog[p]) \in Seq(Statement)
  BY HeadType
<1> QED
  BY <1>1 DEF Then, ControlType

\* A statement that only reads keeps the invariant.
LEMMA ReadStep ==
  ASSUME IInv, NEW p \in Proc, prog[p] # <<>>, NEW s \in Seq(Statement),
         Then(p, s), ReadsOnly
  PROVE  IInv'
  BY ThenType, ReadKeeps DEF IInv, ReadsOnly, docs, ControlType

\* So does one that writes.
LEMMA WriteStep ==
  ASSUME IInv, NEW p \in Proc, prog[p] # <<>>, NEW s \in Seq(Statement),
         Then(p, s), Written, UNCHANGED <<com, log, docs>>,
         pend' \in [Proc -> [Shelf -> Int]]
  PROVE  IInv'
  BY ThenType, WrittenKeeps DEF IInv, docs, ControlType

\* So does one that fails.
LEMMA AbortKeeps ==
  ASSUME IInv, NEW p \in Proc, Abort(p)
  PROVE  IInv'
<1>1. TableInv'
  BY RollbackKeeps DEF IInv, Abort
<1>2. ControlType'
  BY DEF IInv, Abort, ControlType, docs
<1> QED
  BY <1>1, <1>2 DEF IInv

\* The statements of a sale.
LEMMA SaleKeeps ==
  ASSUME IInv, NEW p \in Proc, Sale(p)
  PROVE  IInv'
<1> USE DEF IInv
<1>1. CASE SellDirect(p)
  <2>1. PICK available \in StockReads(p, Now(p).w, Now(p).v) :
          LET s == Now(p)
              direct == IF available < s.n THEN available ELSE s.n
          IN  Then(p, (IF direct > 0 THEN <<On("remove", s.w, s.v, direct)>>
                                     ELSE <<>>)
                      \o (IF s.n > direct
                            THEN Each("leaf", s.w, Leaves[s.v], s.n - direct)
                            ELSE <<>>))
    BY <1>1 DEF SellDirect
  <2> DEFINE s == Now(p)
             direct == IF available < s.n THEN available ELSE s.n
             a == IF direct > 0 THEN <<On("remove", s.w, s.v, direct)>> ELSE <<>>
             b == IF s.n > direct
                    THEN Each("leaf", s.w, Leaves[s.v], s.n - direct) ELSE <<>>
  <2>2. /\ s.w \in Warehouse /\ s.v \in Variant /\ s.n \in Nat \ {0}
        /\ prog[p] # <<>>
    BY <1>1, ShelfHead DEF SellDirect, ShelfOp
  <2>3. available \in Nat
    BY ReadType
  <2>4. a \in Seq(Statement)
    <3>1. direct > 0 => On("remove", s.w, s.v, direct) \in Statement
      BY <2>2, <2>3, OnType DEF ShelfOp
    <3> QED
      BY <3>1
  <2>5. b \in Seq(Statement)
    <3>1. s.n > direct => s.n - direct \in Nat \ {0}
      BY <2>2, <2>3
    <3>2. Leaves[s.v] \in Seq(Amount)
      BY <2>2, ServiceConstants
    <3>3. s.n > direct => Each("leaf", s.w, Leaves[s.v], s.n - direct) \in Seq(Statement)
      <4> HIDE DEF direct
      <4> QED
        BY <2>2, <3>1, <3>2, EachType DEF ShelfOp
    <3> QED
      BY <3>3
  <2>6. a \o b \in Seq(Statement)
    BY <2>4, <2>5
  <2> QED
    BY <1>1, <2>1, <2>2, <2>6, ReadStep DEF SellDirect
<1>2. CASE SellLeaf(p)
  <2> DEFINE s == Now(p)
             rest(c) == (IF c >= s.n THEN <<>> ELSE Loop("parent", s, 1, 0, s.n - c))
                          \o <<On("final", s.w, s.v, s.n)>>
  <2>1. PICK current \in StockReads(p, s.w, s.v) : Then(p, rest(current))
    BY <1>2 DEF SellLeaf
  <2>2. /\ s.w \in Warehouse /\ s.v \in Variant /\ s.n \in Nat \ {0}
        /\ prog[p] # <<>>
    BY <1>2, ShelfHead DEF SellLeaf, ShelfOp
  <2>3. current \in Nat
    BY ReadType
  <2>4. On("final", s.w, s.v, s.n) \in Statement
    BY <2>2, OnType DEF ShelfOp
  <2>5. Loop("parent", s, 1, 0, s.n - current) \in Seq(Statement)
    BY <2>2, <2>3, LoopType DEF LoopOp
  <2>6. rest(current) \in Seq(Statement)
    BY <2>4, <2>5
  <2> QED
    BY <1>2, <2>1, <2>2, <2>6, ReadStep DEF SellLeaf
<1>3. CASE TryParent(p)
  <2> DEFINE s == Now(p)
  <2>1. /\ s.w \in Warehouse /\ s.v \in Variant /\ s.n \in Nat \ {0}
        /\ s.i \in Nat \ {0} /\ s.k \in Int /\ s.short \in Int /\ prog[p] # <<>>
    BY <1>3, LoopHead DEF TryParent, LoopOp
  <2>2. \A stock \in Nat : Loop("break", s, s.i, stock, s.short) \in Seq(Statement)
    BY <2>1, LoopType DEF LoopOp
  <2>3. PICK next \in Seq(Statement) : Then(p, next)
    <3>1. CASE Then(p, <<>>)
      BY <3>1, <<>> \in Seq(Statement)
    <3>2. CASE \E stock \in StockReads(p, s.w, Parents[s.v][s.i]) :
                 Then(p, Loop("break", s, s.i, stock, s.short))
      <4>1. PICK stock \in StockReads(p, s.w, Parents[s.v][s.i]) :
              Then(p, Loop("break", s, s.i, stock, s.short))
        BY <3>2
      <4>2. stock \in Nat
        BY ReadType
      <4> QED
        BY <2>2, <4>1, <4>2
    <3> QED
      BY <1>3, <3>1, <3>2 DEF TryParent
  <2> QED
    BY <1>3, <2>1, <2>3, ReadStep DEF TryParent
<1>4. CASE BreakParent(p)
  <2> DEFINE s == Now(p)
             parent == Parents[s.v][s.i]
             next == Loop("parent", s, s.i + 1, 0, s.short)
             turn == Each("probe", s.w, Parts[parent], 1)
                       \o Loop("reread", s, s.i, s.k - 1, s.short)
  <2>1. /\ s.w \in Warehouse /\ s.v \in Variant /\ s.n \in Nat \ {0}
        /\ s.i \in Nat \ {0} /\ s.k \in Int /\ s.short \in Int /\ prog[p] # <<>>
    BY <1>4, LoopHead DEF BreakParent, LoopOp
  <2>2. next \in Seq(Statement)
    BY <2>1, LoopType DEF LoopOp
  <2>3. CASE Then(p, next) /\ ReadsOnly
    BY <2>1, <2>2, <2>3, ReadStep
  <2>4. CASE RemoveStock(p, s.w, parent, 1) /\ Then(p, next) /\ Unlogged
    <3>1. Written
      BY <2>4, RemoveWrites
    <3>2. pend' \in [Proc -> [Shelf -> Int]]
      BY <2>4 DEF Unlogged, TableInv, TablesType
    <3> QED
      BY <2>1, <2>2, <2>4, <3>1, <3>2, WriteStep DEF Unlogged
  <2>5. CASE /\ RemoveStock(p, s.w, parent, 1) /\ Removable(p, s.w, parent, 1) # {}
             /\ Then(p, turn) /\ Logged(p, s.w, parent, -1)
    <3>1. parent \in Variant
      BY <2>5 DEF Removable, Lots, Row
    <3>2. Parts[parent] \in Seq(Amount)
      BY <3>1, ServiceConstants
    <3>3. Each("probe", s.w, Parts[parent], 1) \in Seq(Statement)
      <4>1. "probe" \in ShelfOp /\ 1 \in Nat \ {0} /\ s.w \in Warehouse
        BY <2>1 DEF ShelfOp
      <4> HIDE DEF s, parent
      <4> QED
        BY <3>2, <4>1, EachType
    <3>4. Loop("reread", s, s.i, s.k - 1, s.short) \in Seq(Statement)
      BY <2>1, LoopType DEF LoopOp
    <3>5. turn \in Seq(Statement)
      BY <3>3, <3>4
    <3>6. Written
      BY <2>5, RemoveWrites
    <3>7. pend' \in [Proc -> [Shelf -> Int]]
      BY <2>1, <2>5, <3>1, RecordType DEF Logged
    <3> QED
      BY <2>1, <2>5, <3>5, <3>6, <3>7, WriteStep DEF Logged
  <2> QED
    BY <1>4, <2>3, <2>4, <2>5 DEF BreakParent
<1>5. CASE RereadLeaf(p)
  <2> DEFINE s == Now(p)
  <2>1. /\ s.w \in Warehouse /\ s.v \in Variant /\ s.n \in Nat \ {0}
        /\ s.i \in Nat \ {0} /\ s.k \in Int /\ s.short \in Int /\ prog[p] # <<>>
    BY <1>5, LoopHead DEF RereadLeaf, LoopOp
  <2>2. \A current \in Nat :
          Loop("break", s, s.i, s.k, s.n - current) \in Seq(Statement)
    BY <2>1, LoopType DEF LoopOp
  <2>3. PICK next \in Seq(Statement) : Then(p, next)
    BY <1>5, <2>2, ReadType DEF RereadLeaf
  <2> QED
    BY <1>5, <2>1, <2>3, ReadStep DEF RereadLeaf
<1>6. CASE FinalCheck(p)
  <2> DEFINE s == Now(p)
  <2>1. /\ s.w \in Warehouse /\ s.v \in Variant /\ s.n \in Nat \ {0}
        /\ prog[p] # <<>>
    BY <1>6, ShelfHead DEF FinalCheck, ShelfOp
  <2>2. <<On("remove", s.w, s.v, s.n)>> \in Seq(Statement)
    BY <2>1, OnType DEF ShelfOp
  <2>3. \/ Abort(p)
        \/ Then(p, <<On("remove", s.w, s.v, s.n)>>) /\ ReadsOnly
    BY <1>6 DEF FinalCheck
  <2> QED
    BY <2>1, <2>2, <2>3, ReadStep, AbortKeeps
<1>7. CASE Remove(p)
  <2> DEFINE s == Now(p)
  <2>1. /\ s.w \in Warehouse /\ s.v \in Variant /\ s.n \in Nat \ {0}
        /\ prog[p] # <<>>
    BY <1>7, ShelfHead DEF Remove, ShelfOp
  <2>2. Written
    BY <1>7, <2>1, RemoveWrites DEF Remove
  <2>3. pend' \in [Proc -> [Shelf -> Int]]
    BY <1>7, <2>1, RecordType DEF Remove, Logged
  <2>4. Then(p, <<>>) /\ UNCHANGED <<com, log, docs>>
    BY <1>7 DEF Remove, Logged
  <2>5. <<>> \in Seq(Statement)
    OBVIOUS
  <2> QED
    BY <2>1, <2>2, <2>3, <2>4, <2>5, WriteStep
<1> QED
  BY <1>1, <1>2, <1>3, <1>4, <1>5, <1>6, <1>7 DEF Sale

\* The last statement of its part of a program.
LEMMA ThenNothing ==
  ASSUME IInv, NEW p \in Proc, prog[p] # <<>>, Then(p, <<>>), Written,
         UNCHANGED <<com, log, docs>>, pend' \in [Proc -> [Shelf -> Int]]
  PROVE  IInv'
<1>1. <<>> \in Seq(Statement)
  OBVIOUS
<1> QED
  BY <1>1, WriteStep

\* The statements of a move.
LEMMA MoveKeeps ==
  ASSUME IInv, NEW p \in Proc, Move(p)
  PROVE  IInv'
<1> USE DEF IInv
<1>1. CASE Take(p)
  <2> DEFINE s == Now(p)
  <2>1. /\ s.w \in Warehouse /\ s.v \in Variant /\ s.n \in Nat \ {0}
        /\ prog[p] # <<>>
    BY <1>1, ShelfHead DEF Take, ShelfOp
  <2>2. CASE RemoveStock(p, s.w, s.v, s.n) /\ Logged(p, s.w, s.v, -s.n) /\ Then(p, <<>>)
    <3>1. Written
      BY <2>1, <2>2, RemoveWrites
    <3>2. pend' \in [Proc -> [Shelf -> Int]]
      BY <2>1, <2>2, RecordType DEF Logged
    <3> QED
      BY <2>1, <2>2, <3>1, <3>2, ThenNothing DEF Logged
  <2> QED
    BY <1>1, <2>2, AbortKeeps DEF Take
<1>2. CASE Probe(p)
  <2> DEFINE s == Now(p)
  <2>1. /\ s.w \in Warehouse /\ s.v \in Variant /\ s.n \in Nat \ {0}
        /\ prog[p] # <<>>
    BY <1>2, ShelfHead DEF Probe, ShelfOp
  <2>2. \A op \in {"add", "insert"} : <<On(op, s.w, s.v, s.n)>> \in Seq(Statement)
    BY <2>1, OnType DEF ShelfOp
  <2>3. PICK op \in {"add", "insert"} : Then(p, <<On(op, s.w, s.v, s.n)>>)
    BY <1>2 DEF Probe
  <2> QED
    BY <1>2, <2>1, <2>2, <2>3, ReadStep DEF Probe
<1>3. CASE Add(p)
  <2> DEFINE s == Now(p)
  <2>1. /\ s.w \in Warehouse /\ s.v \in Variant /\ s.n \in Nat \ {0}
        /\ prog[p] # <<>>
    BY <1>3, ShelfHead DEF Add, ShelfOp
  <2>2. Written
    BY <1>3, <2>1, AddWrites DEF Add
  <2>3. pend' \in [Proc -> [Shelf -> Int]]
    BY <1>3, <2>1, RecordType DEF Add, Logged
  <2> QED
    BY <1>3, <2>1, <2>2, <2>3, ThenNothing DEF Add, Logged
<1>4. CASE Insert(p)
  <2> DEFINE s == Now(p)
  <2>1. /\ s.w \in Warehouse /\ s.v \in Variant /\ s.n \in Nat \ {0}
        /\ prog[p] # <<>>
    BY <1>4, ShelfHead DEF Insert, ShelfOp
  <2>2. Written
    BY <1>4, <2>1, InsertWrites DEF Insert
  <2>3. pend' \in [Proc -> [Shelf -> Int]]
    BY <1>4, <2>1, RecordType DEF Insert, Logged
  <2> QED
    BY <1>4, <2>1, <2>2, <2>3, ThenNothing DEF Insert, Logged
<1>5. CASE Put(p)
  <2> DEFINE s == Now(p)
  <2>1. /\ s.w \in Warehouse /\ s.v \in Variant /\ s.n \in Nat \ {0}
        /\ prog[p] # <<>>
    BY <1>5, ShelfHead DEF Put, ShelfOp
  <2>2. CASE Then(p, <<On("insert", s.w, s.v, s.n)>>) /\ ReadsOnly
    <3>1. <<On("insert", s.w, s.v, s.n)>> \in Seq(Statement)
      BY <2>1, OnType DEF ShelfOp
    <3> QED
      BY <2>1, <2>2, <3>1, ReadStep
  <2>3. CASE AddStock(p, s.w, s.v, s.n) /\ Logged(p, s.w, s.v, s.n) /\ Then(p, <<>>)
    <3>1. Written
      BY <2>1, <2>3, AddWrites
    <3>2. pend' \in [Proc -> [Shelf -> Int]]
      BY <2>1, <2>3, RecordType DEF Logged
    <3> QED
      BY <2>1, <2>3, <3>1, <3>2, ThenNothing DEF Logged
  <2> QED
    BY <1>5, <2>2, <2>3 DEF Put
<1>6. CASE MoveProduct(p)
  <2> DEFINE s == Now(p)
             parts == Parts[s.u]
             rows == {i \in DOMAIN parts : parts[i].v = s.v}
             perLote == IF rows = {} THEN 1 ELSE parts[CHOOSE i \in rows : TRUE].n
             lotes(x) == (s.n - x + perLote - 1) \div perLote
             first(x) == IF s.u = s.v \/ x >= s.n THEN <<>>
                         ELSE <<On("take", s.w, s.u, lotes(x))>>
                                \o Each("probe", s.w, parts, lotes(x))
             last == IF s.v \in Composite /\ s.t \in Branch
                       THEN Each("probe", s.t, Parts[s.v], s.n)
                       ELSE <<On("put", s.t, s.v, s.n)>>
  <2>1. PICK x \in StockReads(p, s.w, s.v) :
          Then(p, first(x) \o <<On("take", s.w, s.v, s.n)>> \o last)
    BY <1>6 DEF MoveProduct
  <2>2. x \in Nat
    BY ReadType
  <2>3. /\ s.w \in Warehouse /\ s.v \in Variant /\ s.n \in Nat \ {0}
        /\ s.u \in Variant /\ s.t \in Warehouse /\ prog[p] # <<>>
    <3>1. s \in Statement /\ s.op = "product" /\ prog[p] # <<>>
      BY <1>6, HeadType DEF MoveProduct, At, Now
    <3> QED
      BY <3>1 DEF Statement, ShelfOp, LoopStatement, LoopOp
  <2>4. parts \in Seq(Amount) /\ Parts[s.v] \in Seq(Amount)
    BY <2>3, ServiceConstants
  <2>5. perLote \in Nat \ {0}
    <3>1. \A i \in DOMAIN parts : parts[i].n \in Nat \ {0}
      <4>1. \A i \in DOMAIN parts : parts[i] \in Amount
        BY <2>4
      <4> QED
        BY <4>1 DEF Amount
    <3>2. rows # {} => (CHOOSE i \in rows : TRUE) \in DOMAIN parts
      OBVIOUS
    <3> QED
      BY <3>1, <3>2
  <2>6. x < s.n => lotes(x) \in Nat \ {0}
    <3>1. x < s.n => s.n - x \in Nat \ {0}
      BY <2>2, <2>3
    <3> HIDE DEF perLote
    <3> QED
      BY <2>5, <3>1, Rounding
  <2>7. first(x) \in Seq(Statement)
    <3> HIDE DEF lotes, parts, s
    <3>1. x < s.n => On("take", s.w, s.u, lotes(x)) \in Statement
      BY <2>3, <2>6, OnType DEF ShelfOp
    <3>2. x < s.n => Each("probe", s.w, parts, lotes(x)) \in Seq(Statement)
      BY <2>3, <2>4, <2>6, EachType DEF ShelfOp
    <3>3. x >= s.n \/ x < s.n
      BY <2>2, <2>3
    <3> QED
      BY <3>1, <3>2, <3>3
  <2>8. <<On("take", s.w, s.v, s.n)>> \in Seq(Statement)
    BY <2>3, OnType DEF ShelfOp
  <2>9. last \in Seq(Statement)
    <3>1. <<On("put", s.t, s.v, s.n)>> \in Seq(Statement)
      BY <2>3, OnType DEF ShelfOp
    <3>2. \A r \in Seq(Amount) : Each("probe", s.t, r, s.n) \in Seq(Statement)
      BY <2>3, EachType DEF ShelfOp
    <3> QED
      BY <2>4, <3>1, <3>2
  <2>10. first(x) \o <<On("take", s.w, s.v, s.n)>> \o last \in Seq(Statement)
    <3> HIDE DEF first, last
    <3> QED
      BY <2>7, <2>8, <2>9
  <2> QED
    BY <1>6, <2>1, <2>3, <2>10, ReadStep DEF MoveProduct
<1> QED
  BY <1>1, <1>2, <1>3, <1>4, <1>5, <1>6 DEF Move

\* The statements that are no part of a transaction.
LEMMA RawKeeps ==
  ASSUME IInv, NEW p \in Proc, Raw(p)
  PROVE  IInv'
<1> USE DEF IInv
<1>1. CASE ReceivePurchase(p)
  <2> DEFINE s == Now(p)
  <2>1. /\ s.w \in Warehouse /\ s.v \in Variant /\ s.n \in Nat \ {0}
        /\ prog[p] # <<>>
    BY <1>1, ShelfHead DEF ReceivePurchase, ShelfOp
  <2>2. Each("receive", s.w, Parts[s.v], s.n) \in Seq(Statement)
    <3>1. Parts[s.v] \in Seq(Amount)
      BY <2>1, ServiceConstants
    <3> HIDE DEF s
    <3> QED
      BY <2>1, <3>1, EachType DEF ShelfOp
  <2>3. <<On("rawput", s.w, s.v, s.n)>> \in Seq(Statement)
    BY <2>1, OnType DEF ShelfOp
  <2> QED
    BY <1>1, <2>1, <2>2, <2>3, ReadStep DEF ReceivePurchase
<1>2. CASE RawPut(p)
  <2> DEFINE s == Now(p)
             rest == Ends \o <<On("log", s.w, s.v, s.n)>> \o Ends
  <2>1. /\ s.w \in Warehouse /\ s.v \in Variant /\ s.n \in Nat \ {0}
        /\ prog[p] # <<>>
    BY <1>2, ShelfHead DEF RawPut, ShelfOp
  <2>2. /\ <<On("log", s.w, s.v, s.n)>> \in Seq(Statement)
        /\ <<On("rawinsert", s.w, s.v, s.n)>> \in Seq(Statement)
    BY <2>1, OnType DEF ShelfOp
  <2>3. rest \in Seq(Statement)
    BY <2>2, EndsType
  <2>4. CASE Then(p, <<On("rawinsert", s.w, s.v, s.n)>> \o rest) /\ ReadsOnly
    <3>1. <<On("rawinsert", s.w, s.v, s.n)>> \o rest \in Seq(Statement)
      <4> HIDE DEF rest
      <4> QED
        BY <2>2, <2>3
    <3> QED
      BY <2>1, <2>4, <3>1, ReadStep
  <2>5. CASE AddStock(p, s.w, s.v, s.n) /\ Unlogged /\ Then(p, rest)
    <3>1. Written
      BY <2>1, <2>5, AddWrites
    <3>2. pend' \in [Proc -> [Shelf -> Int]]
      BY <2>5 DEF Unlogged, TableInv, TablesType
    <3> QED
      BY <2>1, <2>3, <2>5, <3>1, <3>2, WriteStep DEF Unlogged
  <2> QED
    BY <1>2, <2>4, <2>5 DEF RawPut
<1>3. CASE LogEntry(p)
  <2> DEFINE s == Now(p)
  <2>1. /\ s.w \in Warehouse /\ s.v \in Variant /\ s.n \in Nat \ {0}
        /\ prog[p] # <<>>
    BY <1>3, ShelfHead DEF LogEntry, ShelfOp
  <2>2. pend' \in [Proc -> [Shelf -> Int]]
    BY <1>3, <2>1, RecordType DEF LogEntry, Logged
  <2>3. Written
    BY <1>3 DEF LogEntry, Written, TableInv, TablesType, NoNegativeStock, CleanRows
  <2> QED
    BY <1>3, <2>1, <2>2, <2>3, ThenNothing DEF LogEntry, Logged
<1>4. CASE RawInsert(p)
  <2> DEFINE s == Now(p)
  <2>1. /\ s.w \in Warehouse /\ s.v \in Variant /\ s.n \in Nat \ {0}
        /\ prog[p] # <<>>
    BY <1>4, ShelfHead DEF RawInsert, ShelfOp
  <2>2. Written
    BY <1>4, <2>1, InsertWrites DEF RawInsert
  <2>3. pend' \in [Proc -> [Shelf -> Int]]
    BY <1>4 DEF RawInsert, Unlogged, TableInv, TablesType
  <2> QED
    BY <1>4, <2>1, <2>2, <2>3, ThenNothing DEF RawInsert, Unlogged
<1>5. CASE RawAdd(p)
  <2> DEFINE s == Now(p)
  <2>1. /\ s.w \in Warehouse /\ s.v \in Variant /\ s.n \in Nat \ {0}
        /\ prog[p] # <<>>
    BY <1>5, ShelfHead DEF RawAdd, ShelfOp
  <2>2. Written
    BY <1>5, <2>1, AddWrites DEF RawAdd
  <2>3. pend' \in [Proc -> [Shelf -> Int]]
    BY <1>5 DEF RawAdd, Unlogged, TableInv, TablesType
  <2> QED
    BY <1>5, <2>1, <2>2, <2>3, ThenNothing DEF RawAdd, Unlogged
<1>6. CASE RawRemove(p)
  <2> DEFINE s == Now(p)
  <2>1. /\ s.w \in Warehouse /\ s.v \in Variant /\ s.n \in Nat \ {0}
        /\ prog[p] # <<>>
    BY <1>6, ShelfHead DEF RawRemove, ShelfOp
  <2>2. Written
    BY <1>6, <2>1, RemoveWrites DEF RawRemove
  <2>3. pend' \in [Proc -> [Shelf -> Int]]
    BY <1>6 DEF RawRemove, Unlogged, TableInv, TablesType
  <2> QED
    BY <1>6, <2>1, <2>2, <2>3, ThenNothing DEF RawRemove, Unlogged
<1>7. CASE EditItem(p)
  <2> DEFINE s == Now(p)
  <2>1. /\ s.w \in Warehouse /\ s.v \in Variant /\ s.n \in Nat \ {0}
        /\ prog[p] # <<>>
    BY <1>7, ShelfHead DEF EditItem, ShelfOp
  <2>2. PICK R \in SUBSET Lots(p, s.w, s.v) : SetRows(p, R, LAMBDA r : Now(p).n)
    BY <1>7 DEF EditItem
  <2>3. R \in SUBSET Row
    BY DEF Lots
  <2>4. /\ draft' = [r \in Row |-> IF r \in R THEN Now(p).n ELSE draft[r]]
        /\ holder' = [r \in Row |-> IF r \in R THEN p ELSE holder[r]]
    BY <2>2 DEF SetRows
  <2>5. Written
    BY <2>1, <2>3, <2>4, SetWrites
  <2>6. pend' \in [Proc -> [Shelf -> Int]]
    BY <1>7 DEF EditItem, Unlogged, TableInv, TablesType
  <2> QED
    BY <1>7, <2>1, <2>5, <2>6, ThenNothing DEF EditItem, Unlogged
<1>8. CASE DeleteItem(p)
  <2> DEFINE s == Now(p)
  <2>1. /\ s.w \in Warehouse /\ s.v \in Variant /\ s.n \in Nat \ {0}
        /\ prog[p] # <<>>
    BY <1>8, ShelfHead DEF DeleteItem, ShelfOp
  <2>2. PICK R \in SUBSET Lots(p, s.w, s.v) : SetRows(p, R, LAMBDA r : Absent)
    BY <1>8 DEF DeleteItem
  <2>3. R \in SUBSET Row
    BY DEF Lots
  <2>4. /\ draft' = [r \in Row |-> IF r \in R THEN Absent ELSE draft[r]]
        /\ holder' = [r \in Row |-> IF r \in R THEN p ELSE holder[r]]
    BY <2>2 DEF SetRows
  <2>5. Written
    BY <2>1, <2>3, <2>4, SetWrites
  <2>6. pend' \in [Proc -> [Shelf -> Int]]
    BY <1>8 DEF DeleteItem, Unlogged, TableInv, TablesType
  <2> QED
    BY <1>8, <2>1, <2>5, <2>6, ThenNothing DEF DeleteItem, Unlogged
<1> QED
  BY <1>1, <1>2, <1>3, <1>4, <1>5, <1>6, <1>7, <1>8 DEF Raw

\* A COMMIT.
LEMMA CommittedKeeps ==
  ASSUME IInv, NEW p \in Proc, prog[p] # <<>>, Committed(p),
         applied' \in [Report -> BOOLEAN]
  PROVE  IInv'
<1>1. TableInv'
  BY CommitKeeps DEF IInv, Committed
<1>2. commits' \in [Job -> Nat]
  <2> DEFINE mine == job[p]
  <2>1. commits \in [Job -> Nat] /\ commits' = [commits EXCEPT ![mine] = @ + 1]
    BY DEF IInv, Committed, ControlType
  <2> HIDE DEF mine
  <2>2. CASE mine \in Job
    <3>1. commits[mine] + 1 \in Nat
      BY <2>1, <2>2
    <3> QED
      BY <2>1, <2>2, <3>1
  <2>3. CASE mine \notin Job
    <3>1. \A j \in Job : commits'[j] = commits[j]
      BY <2>1, <2>3
    <3> QED
      BY <2>1, <3>1
  <2> QED
    BY <2>2, <2>3
<1>3. prog' \in [Proc -> Seq(Statement)]
  BY HeadType DEF IInv, Committed, ControlType
<1>4. ControlType'
  BY <1>2, <1>3 DEF IInv, Committed, ControlType
<1> QED
  BY <1>1, <1>4 DEF IInv

\* The statements on requests and reports.
LEMMA DocumentKeeps ==
  ASSUME IInv, NEW p \in Proc, Document(p)
  PROVE  IInv'
<1> USE DEF IInv
<1> DEFINE s == Now(p)
<1>1. ASSUME At(p, "check") \/ At(p, "decide")
      PROVE  s \in [op : {"check", "decide"}, doc : Request, to : Decision]
  <2>1. s \in Statement /\ s.op \in {"check", "decide"}
    BY <1>1, HeadType DEF At, Now
  <2> QED
    BY <2>1 DEF Statement, ShelfOp, LoopStatement, LoopOp
<1>2. ASSUME At(p, "unapplied") \/ At(p, "mark")
      PROVE  s \in [op : {"unapplied", "mark"}, doc : Report]
  <2>1. s \in Statement /\ s.op \in {"unapplied", "mark"}
    BY <1>2, HeadType DEF At, Now
  <2> QED
    BY <2>1 DEF Statement, ShelfOp, LoopStatement, LoopOp
<1>3. CASE CheckRequest(p)
  <2> DEFINE t == RequestOf[s.doc]
             move == IF s.to = "approved" THEN Unpack(t.from, t) \o Ends ELSE <<>>
             next == move \o <<[s EXCEPT !.op = "decide"]>>
  <2>1. /\ s \in [op : {"check", "decide"}, doc : Request, to : Decision]
        /\ prog[p] # <<>>
    BY <1>1, <1>3 DEF CheckRequest, At
  <2>2. [s EXCEPT !.op = "decide"] \in Statement
    BY <2>1 DEF Statement
  <2>3. t \in Transfer
    BY <2>1, ServiceConstants
  <2>4. Unpack(t.from, t) \in Seq(Statement)
    BY <2>3, UnpackType DEF Transfer
  <2>5. next \in Seq(Statement)
    <3>1. move \in Seq(Statement)
      BY <2>4, EndsType
    <3> HIDE DEF move
    <3> QED
      BY <2>2, <3>1
  <2>6. Abort(p) \/ (Then(p, next) /\ ReadsOnly)
    BY <1>3 DEF CheckRequest
  <2> HIDE DEF next
  <2> QED
    BY <2>1, <2>5, <2>6, ReadStep, AbortKeeps
<1>4. CASE Decide(p)
  <2>1. /\ s \in [op : {"check", "decide"}, doc : Request, to : Decision]
        /\ prog[p] # <<>>
    BY <1>1, <1>4 DEF Decide, At
  <2>2. status' \in [Request -> Decision]
    BY <1>4, <2>1 DEF Decide, ControlType
  <2>3. <<>> \in Seq(Statement)
    OBVIOUS
  <2>4. ControlType'
    BY <1>4, <2>1, <2>2, <2>3, ThenType DEF Decide, ControlType
  <2> QED
    BY <1>4, <2>4, ReadKeeps DEF Decide
<1>5. CASE CheckReport(p)
  <2> DEFINE r == ReportOf[s.doc]
             delta == r.physical - r.stored
             post == IF delta > 0 THEN <<On("add", r.w, r.v, delta)>>
                     ELSE IF delta < 0 THEN <<On("remove", r.w, r.v, -delta)>>
                     ELSE <<>>
             next == post \o <<[s EXCEPT !.op = "mark"]>>
  <2>1. s \in [op : {"unapplied", "mark"}, doc : Report] /\ prog[p] # <<>>
    BY <1>2, <1>5 DEF CheckReport, At
  <2>2. [s EXCEPT !.op = "mark"] \in Statement
    BY <2>1 DEF Statement
  <2>3. r \in [w : Warehouse, v : Variant, stored : Nat, physical : Nat]
    BY <2>1, ServiceConstants
  <2>4. delta \in Int
    BY <2>3
  <2>5. post \in Seq(Statement)
    <3>1. delta > 0 => On("add", r.w, r.v, delta) \in Statement
      <4> HIDE DEF delta, r
      <4> QED
        BY <2>3, <2>4, OnType DEF ShelfOp
    <3>2. delta < 0 => On("remove", r.w, r.v, -delta) \in Statement
      <4> HIDE DEF delta, r
      <4>1. delta < 0 => -delta \in Nat \ {0}
        BY <2>4
      <4> QED
        BY <2>3, <4>1, OnType DEF ShelfOp
    <3> QED
      BY <3>1, <3>2
  <2>6. next \in Seq(Statement)
    <3> HIDE DEF post
    <3> QED
      BY <2>2, <2>5
  <2>7. Abort(p) \/ (Then(p, next) /\ ReadsOnly)
    BY <1>5 DEF CheckReport
  <2> HIDE DEF next
  <2> QED
    BY <2>1, <2>6, <2>7, ReadStep, AbortKeeps
<1>6. CASE MarkApplied(p)
  <2>1. prog[p] # <<>>
    BY <1>6 DEF MarkApplied, At
  <2>2. applied' \in [Report -> BOOLEAN]
    BY <1>6 DEF MarkApplied, ControlType
  <2> QED
    BY <1>6, <2>1, <2>2, CommittedKeeps DEF MarkApplied
<1> QED
  BY <1>3, <1>4, <1>5, <1>6 DEF Document

\* Every handler begins with a program.
LEMMA HandlerType ==
  ASSUME NEW j \in Job
  PROVE  Handler(j) \in Seq(Statement)
<1>1. j \in SaleJob \cup BulkJob \cup ShelfJob \cup MoveJob \cup DecideJob \cup AdjustJob
  BY ServiceConstants
<1>2. CASE j \in SaleJob \cup BulkJob
  <2>1. j.w \in Warehouse /\ j.items \in Seq(Amount) /\ j.kind \in {"sale", "bulk"}
    BY <1>2 DEF SaleJob, BulkJob
  <2>2. 1 \in Nat \ {0} /\ "sell" \in ShelfOp /\ "insert" \in ShelfOp
    BY DEF ShelfOp
  <2>3. /\ Each("sell", j.w, j.items, 1) \in Seq(Statement)
        /\ Each("insert", j.w, j.items, 1) \in Seq(Statement)
    BY <2>1, <2>2, EachType
  <2>4. /\ Each("sell", j.w, j.items, 1) \o Ends \in Seq(Statement)
        /\ Each("insert", j.w, j.items, 1) \o Ends \in Seq(Statement)
    BY <2>3, EndsType
  <2> QED
    BY <2>1, <2>4 DEF Handler
<1>3. CASE j \in MoveJob
  <2>1. Unpack(j.from, j) \o Ends \in Seq(Statement)
    BY <1>3, UnpackType, EndsType DEF MoveJob
  <2> QED
    BY <1>3, <2>1 DEF Handler, MoveJob
<1>4. CASE j \in DecideJob
  <2>1. [op |-> "check", doc |-> j.doc, to |-> j.status] \in Statement
    BY <1>4 DEF DecideJob, Statement
  <2> QED
    BY <1>4, <2>1 DEF Handler, DecideJob
<1>5. CASE j \in AdjustJob
  <2>1. [op |-> "unapplied", doc |-> j.doc] \in Statement
    BY <1>5 DEF AdjustJob, Statement
  <2> QED
    BY <1>5, <2>1 DEF Handler, AdjustJob
<1>6. CASE j \in ShelfJob
  <2>1. /\ j.w \in Warehouse /\ j.v \in Variant /\ j.n \in Nat \ {0}
        /\ j.kind \in {"receive", "lote", "addProduct", "addStock",
                       "removeStock", "edit", "erase"}
    BY <1>6 DEF ShelfJob
  <2>2. \A op \in ShelfOp : <<On(op, j.w, j.v, j.n)>> \in Seq(Statement)
    BY <2>1, OnType
  <2>3. Each("probe", j.w, Parts[j.v], j.n) \in Seq(Statement)
    BY <2>1, EachType, ServiceConstants DEF ShelfOp
  <2>4. \A op \in ShelfOp : <<On(op, j.w, j.v, j.n)>> \o Ends \in Seq(Statement)
    BY <2>2, EndsType
  <2>5. <<On("take", j.w, j.v, j.n)>> \o Each("probe", j.w, Parts[j.v], j.n) \o Ends
          \in Seq(Statement)
    BY <2>2, <2>3, EndsType DEF ShelfOp
  <2> QED
    BY <2>1, <2>2, <2>4, <2>5 DEF Handler, ShelfOp
<1> QED
  BY <1>1, <1>2, <1>3, <1>4, <1>5, <1>6

\* No request has come.
LEMMA InitIInv == Init => IInv
<1> SUFFICES ASSUME Init PROVE IInv
  OBVIOUS
<1> USE StockConstants, ServiceConstants
<1>1. TablesType
  BY DEF Init, TablesType, NoEntries, Stock
<1>2. NoNegativeStock /\ CleanRows
  BY DEF Init, NoNegativeStock, CleanRows
<1>3. ControlType
  BY DEF Init, ControlType, Decision
<1> QED
  BY <1>1, <1>2, <1>3 DEF IInv, TableInv

\* Every step keeps the invariant.
LEMMA NextIInv == IInv /\ [Next]_vars => IInv'
<1> SUFFICES ASSUME IInv, [Next]_vars PROVE IInv'
  OBVIOUS
<1>1. CASE UNCHANGED vars
  BY <1>1, ReadKeeps DEF vars, docs, IInv, ControlType
<1>2. ASSUME NEW p \in Proc, Receive(p) PROVE IInv'
  <2>1. PICK j \in Job : /\ prog' = [prog EXCEPT ![p] = Handler(j)]
                         /\ job' = [job EXCEPT ![p] = j]
    BY <1>2 DEF Receive
  <2>2. ControlType'
    BY <1>2, <2>1, HandlerType, ServiceConstants DEF Receive, IInv, ControlType, docs
  <2> QED
    BY <1>2, <2>2, ReadKeeps DEF Receive, IInv
<1>3. ASSUME NEW p \in Proc, Step(p) PROVE IInv'
  <2>1. CASE CommitJob(p)
    <3>1. applied' \in [Report -> BOOLEAN] /\ prog[p] # <<>>
      BY <2>1 DEF CommitJob, At, IInv, ControlType
    <3> QED
      BY <2>1, <3>1, CommittedKeeps DEF CommitJob
  <2> QED
    BY <1>3, <2>1, SaleKeeps, MoveKeeps, RawKeeps, DocumentKeeps, AbortKeeps
    DEF Step, DeadlockVictim
<1>4. ASSUME NEW p \in Proc, Fail(p) PROVE IInv'
  BY <1>4, AbortKeeps DEF Fail
<1> QED
  BY <1>1, <1>2, <1>3, <1>4 DEF Next, Rest

-----------------------------------------------------------------------------
\* Whatever the sessions do, and however many there are, the tables, the
\* programs of the handlers and the documents keep their types.
THEOREM TypeCorrect == Spec => []TypeOK
<1>1. IInv => TypeOK
  BY DEF IInv, TableInv, TypeOK
<1> QED
  BY <1>1, InitIInv, NextIInv, PTL DEF Spec

\* No interleaving of sales, moves, adjustments and failures drives a lot of
\* any warehouse below zero: the WHERE clause of removeStock is enough,
\* although no handler checks the stock in the statement that takes it.
THEOREM StockNeverNegative == Spec => []NoNegativeStock
<1>1. IInv => NoNegativeStock
  BY DEF IInv, TableInv
<1> QED
  BY <1>1, InitIInv, NextIInv, PTL DEF Spec

-----------------------------------------------------------------------------
(* Approvals: what a request has still to send, and what it has committed.  *)

\* The statements that decide nothing.
Plain == {x \in Statement : x.op \notin {"check", "decide"}}

\* A session serves the decision of request d.
Deciding(p, d) == job[p] \in Job /\ job[p].kind = "decide" /\ job[p].doc = d

\* A transaction of a decision on d has been committed.
Moved(d) == \E j \in Job : j.kind = "decide" /\ j.doc = d /\ commits[j] >= 1

\* An approval that is still to be written comes after a COMMIT that is still
\* to be sent, unless one was sent before.
Backed ==
  /\ \A p \in Proc : \A i \in DOMAIN prog[p] :
       /\ prog[p][i].op = "check" => Deciding(p, prog[p][i].doc)
       /\ prog[p][i].op = "decide" /\ prog[p][i].to = "approved" =>
            /\ Deciding(p, prog[p][i].doc)
            /\ \/ Moved(prog[p][i].doc)
               \/ \E k \in 1 .. (i - 1) : prog[p][k].op = "commit"
  /\ \A d \in Request : status[d] = "approved" => Moved(d)

\* A statement on a shelf decides nothing.
LEMMA OnPlain ==
  ASSUME NEW op \in ShelfOp, NEW w \in Warehouse, NEW v \in Variant,
         NEW n \in Nat \ {0}
  PROVE  <<On(op, w, v, n)>> \in Seq(Plain)
<1>1. On(op, w, v, n) \in Statement /\ On(op, w, v, n).op = op
  BY OnType DEF On
<1>2. On(op, w, v, n) \in Plain
  BY <1>1 DEF Plain, ShelfOp
<1> QED BY <1>2

\* The statements for the rows of a composition decide nothing.
LEMMA EachPlain ==
  ASSUME NEW op \in ShelfOp, NEW w \in Warehouse, NEW rows \in Seq(Amount),
         NEW n \in Nat \ {0}
  PROVE  Each(op, w, rows, n) \in Seq(Plain)
<1>1. ASSUME NEW i \in DOMAIN rows
      PROVE  On(op, w, rows[i].v, n * rows[i].n) \in Plain
  <2>1. rows[i] \in Amount OBVIOUS
  <2>2. rows[i].v \in Variant /\ n * rows[i].n \in Nat \ {0}
    BY <2>1, PositiveProduct DEF Amount
  <2> DEFINE m == n * rows[i].n
  <2> HIDE DEF m
  <2>3. On(op, w, rows[i].v, m) \in Statement /\ On(op, w, rows[i].v, m).op = op
    BY <2>2, OnType DEF On, m
  <2> QED BY <2>3 DEF Plain, ShelfOp, m
<1> QED
  BY <1>1 DEF Each

\* The loops over the parents decide nothing.
LEMMA LoopPlain ==
  ASSUME NEW op \in LoopOp, NEW s, s.w \in Warehouse, s.v \in Variant,
         s.n \in Nat \ {0}, NEW i \in Nat \ {0}, NEW k \in Int, NEW short \in Int
  PROVE  Loop(op, s, i, k, short) \in Seq(Plain)
  BY DEF Loop, LoopStatement, LoopOp, Statement, Plain

\* A COMMIT decides nothing.
LEMMA EndsPlain == Ends \in Seq(Plain)
  BY DEF Ends, Statement, Plain

\* The products to be moved decide nothing.
LEMMA UnpackPlain ==
  ASSUME NEW w \in Warehouse, NEW t, t.to \in Warehouse,
         t.products \in Seq(Product)
  PROVE  Unpack(w, t) \in Seq(Plain)
<1> DEFINE Line(i) == [op |-> "product", w |-> w, v |-> t.products[i].v,
                       n |-> t.products[i].n, u |-> t.products[i].u, t |-> t.to]
<1>1. \A i \in DOMAIN t.products : Line(i) \in Plain
  <2>1. \A i \in DOMAIN t.products : t.products[i] \in Product OBVIOUS
  <2> QED
    BY <2>1 DEF Product, Statement, Plain
<1>2. Unpack(w, t) = [i \in DOMAIN t.products |-> Line(i)]
  BY DEF Unpack
<1> HIDE DEF Line
<1>3. [i \in DOMAIN t.products |-> Line(i)] \in Seq(Plain)
  BY <1>1
<1> QED
  BY <1>2, <1>3

\* A statement that is no COMMIT, and sends none that decide.
Sends(p) ==
  /\ prog[p] # <<>> /\ Now(p).op # "commit"
  /\ \E s \in Seq(Plain) : Then(p, s)
  /\ status' = status

\* Where the statements are when the head of b gives way to a.
LEMMA InFront ==
  ASSUME NEW S, NEW a \in Seq(S), NEW b \in Seq(S), b # <<>>
  PROVE  /\ Len(a) \in Nat /\ Len(b) \in Nat \ {0}
         /\ DOMAIN (a \o Tail(b)) = 1 .. (Len(a) + Len(b) - 1)
         /\ \A k \in 1 .. Len(a) : (a \o Tail(b))[k] = a[k]
         /\ \A k \in 2 .. Len(b) : (a \o Tail(b))[k + Len(a) - 1] = b[k]
<1> DEFINE m == Len(a)  n == Len(b)
<1>1. m \in Nat /\ n \in Nat \ {0} OBVIOUS
<1>2. Tail(b) \in Seq(S) /\ Len(Tail(b)) = n - 1 OBVIOUS
<1>3. \A k \in 1 .. (n - 1) : Tail(b)[k] = b[k + 1] OBVIOUS
<1>4. DOMAIN (a \o Tail(b)) = 1 .. (m + n - 1)
  BY <1>1, <1>2
<1>5. \A k \in 1 .. m : (a \o Tail(b))[k] = a[k]
  BY <1>1, <1>2
<1>6. ASSUME NEW k \in 2 .. n PROVE (a \o Tail(b))[k + m - 1] = b[k]
  <2>1. k - 1 \in 1 .. (n - 1) /\ k + m - 1 = m + (k - 1) BY <1>1
  <2>2. (a \o Tail(b))[m + (k - 1)] = Tail(b)[k - 1] BY <1>1, <1>2, <2>1
  <2>3. Tail(b)[k - 1] = b[k] BY <1>3, <2>1
  <2> QED BY <2>1, <2>2, <2>3
<1> QED BY <1>1, <1>4, <1>5, <1>6

\* What they send goes in front of what is still to be sent.
LEMMA SendsBacks ==
  ASSUME IInv, Backed, NEW p \in Proc, Sends(p)
  PROVE  Backed'
<1>1. PICK s \in Seq(Plain) : Then(p, s) BY DEF Sends
<1>2. /\ prog' = [prog EXCEPT ![p] = s \o Tail(prog[p])]
      /\ job' = job /\ commits' = commits /\ status' = status
  BY <1>1 DEF Then, Sends
<1>3. prog \in [Proc -> Seq(Statement)] BY DEF IInv, ControlType
<1>4. \A d : Moved(d)' <=> Moved(d) BY <1>2 DEF Moved
<1>5. \A d, q : Deciding(q, d)' <=> Deciding(q, d) BY <1>2 DEF Deciding
<1>6. \A d \in Request : status'[d] = "approved" => Moved(d)'
  BY <1>2, <1>4 DEF Backed
<1>7. ASSUME NEW q \in Proc, NEW i \in DOMAIN prog'[q]
      PROVE  /\ prog'[q][i].op = "check" => Deciding(q, prog'[q][i].doc)
             /\ prog'[q][i].op = "decide" /\ prog'[q][i].to = "approved" =>
                  /\ Deciding(q, prog'[q][i].doc)
                  /\ \/ Moved(prog'[q][i].doc)
                     \/ \E k \in 1 .. (i - 1) : prog'[q][k].op = "commit"
  <2>1. CASE q # p
    <3>1. prog'[q] = prog[q] BY <1>2, <1>3, <2>1
    <3> QED BY <1>7, <3>1 DEF Backed
  <2>2. CASE q = p
    <3> DEFINE old == prog[p]  new == s \o Tail(old)  n == Len(s)
    <3>1. old \in Seq(Statement) /\ old # <<>> BY <1>3 DEF Sends
    <3>2. prog'[p] = new BY <1>2, <1>3
    <3>9. s \in Seq(Statement) BY DEF Plain
    <3>4. /\ n \in Nat /\ Len(old) \in Nat \ {0} /\ DOMAIN new = 1 .. (n + Len(old) - 1)
          /\ \A k \in 1 .. n : new[k] = s[k]
          /\ \A k \in 2 .. Len(old) : new[k + n - 1] = old[k]
      <4> HIDE DEF old
      <4> QED BY <3>1, <3>9, InFront
    <3>3. \A k \in 1 .. n : new[k] = s[k] /\ s[k] \in Plain
      BY <3>4
    <3>5. \A k \in 2 .. Len(old) : new[k + n - 1] = old[k]
      BY <3>4
    <3>6. old[1].op # "commit" BY DEF Sends, Now
    <3> HIDE DEF new, n, old
    <3>7. CASE i <= n
      <4>1. new[i] \in Plain BY <1>7, <2>2, <3>2, <3>3, <3>4, <3>7
      <4> QED BY <2>2, <3>2, <4>1 DEF Plain
    <3>8. CASE i > n
      <4> DEFINE k == i - n + 1
      <4>1. k \in 2 .. Len(old) /\ i = k + n - 1 BY <1>7, <2>2, <3>2, <3>4, <3>8
      <4>2. prog'[q][i] = old[k] BY <2>2, <3>2, <3>5, <4>1
      <4>3. k \in DOMAIN prog[p] BY <3>1, <4>1 DEF old
      <4>4. ASSUME NEW j \in 1 .. (k - 1), old[j].op = "commit"
            PROVE  \E m \in 1 .. (i - 1) : new[m].op = "commit"
        <5>1. j \in 2 .. Len(old)
          <6>1. j # 1 BY <3>6, <4>4
          <6> HIDE DEF k
          <6> QED BY <4>1, <3>4, <6>1
        <5>2. new[j + n - 1].op = "commit" BY <3>5, <4>4, <5>1
        <5>3. j + n - 1 \in 1 .. (i - 1) 
          <6> HIDE DEF k
          <6> QED BY <3>4, <4>1, <5>1
        <5> QED BY <5>2, <5>3
      <4>5. /\ old[k].op = "check" => Deciding(p, old[k].doc)
            /\ old[k].op = "decide" /\ old[k].to = "approved" =>
                 /\ Deciding(p, old[k].doc)
                 /\ \/ Moved(old[k].doc)
                    \/ \E j \in 1 .. (k - 1) : old[j].op = "commit"
        <5> HIDE DEF k
        <5> QED BY <4>3 DEF Backed, old
      <4> HIDE DEF k
      <4> QED BY <2>2, <3>2, <4>2, <4>4, <4>5
    <3> QED BY <1>7, <2>2, <3>2, <3>4, <3>7, <3>8
  <2> QED BY <2>1, <2>2
<1> QED BY <1>4, <1>5, <1>6, <1>7 DEF Backed

\* A request that is over sends nothing.
LEMMA AbortBacks ==
  ASSUME IInv, Backed, NEW p \in Proc, Abort(p)
  PROVE  Backed'
<1>1. prog \in [Proc -> Seq(Statement)] BY DEF IInv, ControlType
<1>2. /\ prog' = [prog EXCEPT ![p] = <<>>] /\ job' = [job EXCEPT ![p] = NoJob]
      /\ commits' = commits /\ status' = status
  BY DEF Abort, docs
<1>3. \A d : Moved(d)' <=> Moved(d) BY <1>2 DEF Moved
<1>4. \A d \in Request : status'[d] = "approved" => Moved(d)'
  BY <1>2, <1>3 DEF Backed
<1>5. prog'[p] = <<>> /\ \A q \in Proc \ {p} : prog'[q] = prog[q] BY <1>1, <1>2
<1>6. \A q \in Proc \ {p} : job'[q] = job[q]
  <2>1. job \in [Proc -> Job \cup {NoJob}] BY DEF IInv, ControlType
  <2> QED BY <1>2, <2>1
<1>7. \A d : \A q \in Proc \ {p} : Deciding(q, d)' <=> Deciding(q, d)
  BY <1>6 DEF Deciding
<1>8. DOMAIN prog'[p] = {} BY <1>5
<1> QED BY <1>3, <1>4, <1>5, <1>7, <1>8 DEF Backed

\* The steps of a sale decide nothing.
LEMMA SaleSends ==
  ASSUME IInv, NEW p \in Proc, Sale(p)
  PROVE  Sends(p) \/ Abort(p)
<1> USE DEF IInv
<1> DEFINE s == Now(p)
<1>0. <<>> \in Seq(Plain) OBVIOUS
<1>1. CASE SellDirect(p)
  <2>1. /\ s.w \in Warehouse /\ s.v \in Variant /\ s.n \in Nat \ {0}
        /\ prog[p] # <<>> /\ s.op = "sell"
    BY <1>1, ShelfHead DEF SellDirect, ShelfOp, At, Now
  <2>2. Leaves[s.v] \in Seq(Amount) BY <2>1, ServiceConstants
  <2>3. PICK available \in StockReads(p, s.w, s.v) :
          Then(p, (IF (IF available < s.n THEN available ELSE s.n) > 0
                     THEN <<On("remove", s.w, s.v, IF available < s.n THEN available ELSE s.n)>>
                     ELSE <<>>)
                  \o (IF s.n > (IF available < s.n THEN available ELSE s.n)
                        THEN Each("leaf", s.w, Leaves[s.v], s.n - (IF available < s.n THEN available ELSE s.n))
                        ELSE <<>>))
    BY <1>1 DEF SellDirect
  <2>4. available \in Nat BY ReadType
  <2> DEFINE direct == IF available < s.n THEN available ELSE s.n
             a == IF direct > 0 THEN <<On("remove", s.w, s.v, direct)>> ELSE <<>>
             b == IF s.n > direct THEN Each("leaf", s.w, Leaves[s.v], s.n - direct) ELSE <<>>
  <2>5. direct \in Nat /\ (s.n > direct => s.n - direct \in Nat \ {0}) BY <2>1, <2>4
  <2>6. a \in Seq(Plain)
    <3> HIDE DEF direct, s
    <3>1. direct > 0 => <<On("remove", s.w, s.v, direct)>> \in Seq(Plain)
      BY <2>1, <2>5, OnPlain DEF ShelfOp
    <3> QED BY <3>1, <1>0
  <2>7. b \in Seq(Plain)
    <3> HIDE DEF direct, s
    <3>1. s.n > direct => Each("leaf", s.w, Leaves[s.v], s.n - direct) \in Seq(Plain)
      BY <2>1, <2>2, <2>5, EachPlain DEF ShelfOp
    <3> QED BY <3>1, <1>0
  <2>8. a \o b \in Seq(Plain)
    <3> HIDE DEF a, b
    <3> QED BY <2>6, <2>7
  <2>9. Then(p, a \o b) BY <2>3
  <2> HIDE DEF a, b
  <2> QED BY <1>1, <2>1, <2>8, <2>9 DEF SellDirect, ReadsOnly, docs, Sends
<1>2. CASE SellLeaf(p)
  <2>1. /\ s.w \in Warehouse /\ s.v \in Variant /\ s.n \in Nat \ {0}
        /\ prog[p] # <<>> /\ s.op = "leaf"
    BY <1>2, ShelfHead DEF SellLeaf, ShelfOp, At, Now
  <2> DEFINE rest(c) == (IF c >= s.n THEN <<>> ELSE Loop("parent", s, 1, 0, s.n - c))
                          \o <<On("final", s.w, s.v, s.n)>>
  <2>2. PICK current \in StockReads(p, s.w, s.v) : Then(p, rest(current))
    BY <1>2 DEF SellLeaf
  <2>3. current \in Nat BY ReadType
  <2>4. <<On("final", s.w, s.v, s.n)>> \in Seq(Plain) BY <2>1, OnPlain DEF ShelfOp
  <2>5. Loop("parent", s, 1, 0, s.n - current) \in Seq(Plain)
    BY <2>1, <2>3, LoopPlain DEF LoopOp
  <2>6. rest(current) \in Seq(Plain) BY <1>0, <2>4, <2>5
  <2> HIDE DEF rest
  <2> QED BY <1>2, <2>1, <2>2, <2>6 DEF SellLeaf, ReadsOnly, docs, Sends
<1>3. CASE TryParent(p)
  <2>1. /\ s.w \in Warehouse /\ s.v \in Variant /\ s.n \in Nat \ {0}
        /\ s.i \in Nat \ {0} /\ s.k \in Int /\ s.short \in Int /\ prog[p] # <<>>
        /\ s.op = "parent"
    BY <1>3, LoopHead DEF TryParent, LoopOp, At, Now
  <2>2. \A stock \in Nat : Loop("break", s, s.i, stock, s.short) \in Seq(Plain)
    <3> SUFFICES ASSUME NEW stock \in Nat
                 PROVE  Loop("break", s, s.i, stock, s.short) \in Seq(Plain)
      OBVIOUS
    <3>1. "break" \in LoopOp /\ stock \in Int BY DEF LoopOp
    <3> HIDE DEF s
    <3> QED BY <2>1, <3>1, LoopPlain
  <2>3. \A stock \in StockReads(p, s.w, Parents[s.v][s.i]) : stock \in Nat BY ReadType
  <2>4. \E next \in Seq(Plain) : Then(p, next)
    BY <1>0, <1>3, <2>2, <2>3 DEF TryParent
  <2> QED BY <1>3, <2>1, <2>4 DEF TryParent, ReadsOnly, docs, Sends
<1>4. CASE BreakParent(p)
  <2> DEFINE parent == Parents[s.v][s.i]
             next == Loop("parent", s, s.i + 1, 0, s.short)
             turn == Each("probe", s.w, Parts[parent], 1)
                       \o Loop("reread", s, s.i, s.k - 1, s.short)
  <2>1. /\ s.w \in Warehouse /\ s.v \in Variant /\ s.n \in Nat \ {0}
        /\ s.i \in Nat \ {0} /\ s.k \in Int /\ s.short \in Int /\ prog[p] # <<>>
        /\ s.op = "break"
    BY <1>4, LoopHead DEF BreakParent, LoopOp, At, Now
  <2>2. next \in Seq(Plain)
    <3>1. "parent" \in LoopOp /\ s.i + 1 \in Nat \ {0} /\ 0 \in Int
      BY <2>1 DEF LoopOp
    <3> HIDE DEF s
    <3> QED BY <2>1, <3>1, LoopPlain
  <2>3. Removable(p, s.w, parent, 1) # {} => turn \in Seq(Plain)
    <3> SUFFICES ASSUME Removable(p, s.w, parent, 1) # {} PROVE turn \in Seq(Plain)
      OBVIOUS
    <3>1. parent \in Variant BY DEF Removable, Lots, Row
    <3>2. Parts[parent] \in Seq(Amount) BY <3>1, ServiceConstants
    <3>3. "probe" \in ShelfOp /\ 1 \in Nat \ {0} BY DEF ShelfOp
    <3>4. Each("probe", s.w, Parts[parent], 1) \in Seq(Plain)
      <4> HIDE DEF s, parent
      <4> QED BY <2>1, <3>2, <3>3, EachPlain
    <3>5. Loop("reread", s, s.i, s.k - 1, s.short) \in Seq(Plain)
      BY <2>1, LoopPlain DEF LoopOp
    <3> QED BY <3>4, <3>5
  <2>4. /\ status' = status
        /\ Then(p, next) \/ (Removable(p, s.w, parent, 1) # {} /\ Then(p, turn))
    BY <1>4 DEF BreakParent, ReadsOnly, Unlogged, Logged, docs
  <2> QED
    <3> HIDE DEF next, turn, parent
    <3> QED BY <2>1, <2>2, <2>3, <2>4 DEF Sends
<1>5. CASE RereadLeaf(p)
  <2>1. /\ s.w \in Warehouse /\ s.v \in Variant /\ s.n \in Nat \ {0}
        /\ s.i \in Nat \ {0} /\ s.k \in Int /\ s.short \in Int /\ prog[p] # <<>>
        /\ s.op = "reread"
    BY <1>5, LoopHead DEF RereadLeaf, LoopOp, At, Now
  <2>2. \A current \in Nat : Loop("break", s, s.i, s.k, s.n - current) \in Seq(Plain)
    <3>1. "break" \in LoopOp /\ \A current \in Nat : s.n - current \in Int
      BY <2>1 DEF LoopOp
    <3> HIDE DEF s
    <3> QED BY <2>1, <3>1, LoopPlain
  <2>3. \E next \in Seq(Plain) : Then(p, next)
    BY <1>5, <2>2, ReadType DEF RereadLeaf
  <2> QED BY <1>5, <2>1, <2>3 DEF RereadLeaf, ReadsOnly, docs, Sends
<1>6. CASE FinalCheck(p)
  <2>1. /\ s.w \in Warehouse /\ s.v \in Variant /\ s.n \in Nat \ {0}
        /\ prog[p] # <<>> /\ s.op = "final"
    BY <1>6, ShelfHead DEF FinalCheck, ShelfOp, At, Now
  <2>2. <<On("remove", s.w, s.v, s.n)>> \in Seq(Plain) BY <2>1, OnPlain DEF ShelfOp
  <2> QED BY <1>6, <2>1, <2>2 DEF FinalCheck, ReadsOnly, docs, Sends
<1>7. CASE Remove(p)
  <2>1. prog[p] # <<>> /\ s.op = "remove" BY <1>7 DEF Remove, At, Now
  <2> QED BY <1>0, <1>7, <2>1 DEF Remove, Logged, docs, Sends
<1> QED
  BY <1>1, <1>2, <1>3, <1>4, <1>5, <1>6, <1>7 DEF Sale

\* The steps of a move decide nothing.
LEMMA MoveSends ==
  ASSUME IInv, NEW p \in Proc, Move(p)
  PROVE  Sends(p) \/ Abort(p)
<1> USE DEF IInv
<1> DEFINE s == Now(p)
<1>0. <<>> \in Seq(Plain) OBVIOUS
<1>1. CASE Take(p)
  <2>1. prog[p] # <<>> /\ s.op = "take" BY <1>1 DEF Take, At, Now
  <2> QED BY <1>0, <1>1, <2>1 DEF Take, Logged, docs, Sends
<1>2. CASE Probe(p)
  <2>1. /\ s.w \in Warehouse /\ s.v \in Variant /\ s.n \in Nat \ {0}
        /\ prog[p] # <<>> /\ s.op = "probe"
    BY <1>2, ShelfHead DEF Probe, ShelfOp, At, Now
  <2>2. \A op \in {"add", "insert"} : <<On(op, s.w, s.v, s.n)>> \in Seq(Plain)
    BY <2>1, OnPlain DEF ShelfOp
  <2>3. PICK op \in {"add", "insert"} : Then(p, <<On(op, s.w, s.v, s.n)>>)
    BY <1>2 DEF Probe
  <2> QED BY <1>2, <2>1, <2>2, <2>3 DEF Probe, ReadsOnly, docs, Sends
<1>3. CASE Add(p)
  <2>1. prog[p] # <<>> /\ s.op = "add" BY <1>3 DEF Add, At, Now
  <2> QED BY <1>0, <1>3, <2>1 DEF Add, Logged, docs, Sends
<1>4. CASE Insert(p)
  <2>1. prog[p] # <<>> /\ s.op = "insert" BY <1>4 DEF Insert, At, Now
  <2> QED BY <1>0, <1>4, <2>1 DEF Insert, Logged, docs, Sends
<1>5. CASE Put(p)
  <2>1. /\ s.w \in Warehouse /\ s.v \in Variant /\ s.n \in Nat \ {0}
        /\ prog[p] # <<>> /\ s.op = "put"
    BY <1>5, ShelfHead DEF Put, ShelfOp, At, Now
  <2>2. <<On("insert", s.w, s.v, s.n)>> \in Seq(Plain) BY <2>1, OnPlain DEF ShelfOp
  <2> QED BY <1>0, <1>5, <2>1, <2>2 DEF Put, Logged, ReadsOnly, docs, Sends
<1>6. CASE MoveProduct(p)
  <2> DEFINE parts == Parts[s.u]
             rows == {i \in DOMAIN parts : parts[i].v = s.v}
             perLote == IF rows = {} THEN 1 ELSE parts[CHOOSE i \in rows : TRUE].n
             lotes(x) == (s.n - x + perLote - 1) \div perLote
             first(x) == IF s.u = s.v \/ x >= s.n THEN <<>>
                         ELSE <<On("take", s.w, s.u, lotes(x))>>
                                \o Each("probe", s.w, parts, lotes(x))
             last == IF s.v \in Composite /\ s.t \in Branch
                       THEN Each("probe", s.t, Parts[s.v], s.n)
                       ELSE <<On("put", s.t, s.v, s.n)>>
  <2>1. PICK x \in StockReads(p, s.w, s.v) :
          Then(p, first(x) \o <<On("take", s.w, s.v, s.n)>> \o last)
    BY <1>6 DEF MoveProduct
  <2>2. x \in Nat BY ReadType
  <2>3. /\ s.w \in Warehouse /\ s.v \in Variant /\ s.n \in Nat \ {0}
        /\ s.u \in Variant /\ s.t \in Warehouse /\ prog[p] # <<>> /\ s.op = "product"
    <3>1. s \in Statement /\ s.op = "product" /\ prog[p] # <<>>
      BY <1>6, HeadType DEF MoveProduct, At, Now
    <3> QED BY <3>1 DEF Statement, ShelfOp, LoopStatement, LoopOp
  <2>4. parts \in Seq(Amount) /\ Parts[s.v] \in Seq(Amount) BY <2>3, ServiceConstants
  <2>5. perLote \in Nat \ {0}
    <3>1. \A i \in DOMAIN parts : parts[i].n \in Nat \ {0}
      <4>1. \A i \in DOMAIN parts : parts[i] \in Amount BY <2>4
      <4> QED BY <4>1 DEF Amount
    <3>2. rows # {} => (CHOOSE i \in rows : TRUE) \in DOMAIN parts OBVIOUS
    <3> QED BY <3>1, <3>2
  <2>6. x < s.n => lotes(x) \in Nat \ {0}
    <3>1. x < s.n => s.n - x \in Nat \ {0} BY <2>2, <2>3
    <3> HIDE DEF perLote
    <3> QED BY <2>5, <3>1, Rounding
  <2>7. first(x) \in Seq(Plain)
    <3> HIDE DEF lotes, parts, s
    <3>1. x < s.n => <<On("take", s.w, s.u, lotes(x))>> \in Seq(Plain)
      BY <2>3, <2>6, OnPlain DEF ShelfOp
    <3>2. x < s.n => Each("probe", s.w, parts, lotes(x)) \in Seq(Plain)
      BY <2>3, <2>4, <2>6, EachPlain DEF ShelfOp
    <3>3. x >= s.n \/ x < s.n BY <2>2, <2>3
    <3> QED BY <1>0, <3>1, <3>2, <3>3
  <2>8. <<On("take", s.w, s.v, s.n)>> \in Seq(Plain) BY <2>3, OnPlain DEF ShelfOp
  <2>9. last \in Seq(Plain)
    <3>1. <<On("put", s.t, s.v, s.n)>> \in Seq(Plain) BY <2>3, OnPlain DEF ShelfOp
    <3>2. \A r \in Seq(Amount) : Each("probe", s.t, r, s.n) \in Seq(Plain)
      BY <2>3, EachPlain DEF ShelfOp
    <3> QED BY <2>4, <3>1, <3>2
  <2>10. first(x) \o <<On("take", s.w, s.v, s.n)>> \o last \in Seq(Plain)
    <3> HIDE DEF first, last
    <3> QED BY <2>7, <2>8, <2>9
  <2> HIDE DEF first, last
  <2> QED BY <1>6, <2>1, <2>3, <2>10 DEF MoveProduct, ReadsOnly, docs, Sends
<1> QED
  BY <1>1, <1>2, <1>3, <1>4, <1>5, <1>6 DEF Move

\* The endpoints of one row decide nothing.
LEMMA RawSends ==
  ASSUME IInv, NEW p \in Proc, Raw(p)
  PROVE  Sends(p)
<1> USE DEF IInv
<1> DEFINE s == Now(p)
<1>0. <<>> \in Seq(Plain) OBVIOUS
<1>1. CASE ReceivePurchase(p)
  <2>1. /\ s.w \in Warehouse /\ s.v \in Variant /\ s.n \in Nat \ {0}
        /\ prog[p] # <<>> /\ s.op = "receive"
    BY <1>1, ShelfHead DEF ReceivePurchase, ShelfOp, At, Now
  <2>2. Each("receive", s.w, Parts[s.v], s.n) \in Seq(Plain)
    <3>1. Parts[s.v] \in Seq(Amount) BY <2>1, ServiceConstants
    <3> HIDE DEF s
    <3> QED BY <2>1, <3>1, EachPlain DEF ShelfOp
  <2>3. <<On("rawput", s.w, s.v, s.n)>> \in Seq(Plain) BY <2>1, OnPlain DEF ShelfOp
  <2> QED BY <1>1, <2>1, <2>2, <2>3 DEF ReceivePurchase, ReadsOnly, docs, Sends
<1>2. CASE RawPut(p)
  <2>1. /\ s.w \in Warehouse /\ s.v \in Variant /\ s.n \in Nat \ {0}
        /\ prog[p] # <<>> /\ s.op = "rawput"
    BY <1>2, ShelfHead DEF RawPut, ShelfOp, At, Now
  <2> DEFINE rest == Ends \o <<On("log", s.w, s.v, s.n)>> \o Ends
             head == <<On("rawinsert", s.w, s.v, s.n)>>
  <2>2. <<On("log", s.w, s.v, s.n)>> \in Seq(Plain) /\ head \in Seq(Plain)
    BY <2>1, OnPlain DEF ShelfOp
  <2>3. rest \in Seq(Plain) BY <2>2, EndsPlain
  <2>4. head \o rest \in Seq(Plain)
    <3> HIDE DEF rest, head
    <3> QED BY <2>2, <2>3
  <2>5. status' = status /\ (Then(p, rest) \/ Then(p, head \o rest))
    BY <1>2 DEF RawPut, ReadsOnly, Unlogged, docs
  <2> HIDE DEF rest, head
  <2> QED BY <2>1, <2>3, <2>4, <2>5 DEF Sends
<1>3. CASE LogEntry(p)
  <2>1. prog[p] # <<>> /\ s.op = "log" BY <1>3 DEF LogEntry, At, Now
  <2> QED BY <1>0, <1>3, <2>1 DEF LogEntry, Logged, docs, Sends
<1>4. CASE RawInsert(p)
  <2>1. prog[p] # <<>> /\ s.op = "rawinsert" BY <1>4 DEF RawInsert, At, Now
  <2> QED BY <1>0, <1>4, <2>1 DEF RawInsert, Unlogged, docs, Sends
<1>5. CASE RawAdd(p)
  <2>1. prog[p] # <<>> /\ s.op = "rawadd" BY <1>5 DEF RawAdd, At, Now
  <2> QED BY <1>0, <1>5, <2>1 DEF RawAdd, Unlogged, docs, Sends
<1>6. CASE RawRemove(p)
  <2>1. prog[p] # <<>> /\ s.op = "rawremove" BY <1>6 DEF RawRemove, At, Now
  <2> QED BY <1>0, <1>6, <2>1 DEF RawRemove, Unlogged, docs, Sends
<1>7. CASE EditItem(p)
  <2>1. prog[p] # <<>> /\ s.op = "edit" BY <1>7 DEF EditItem, At, Now
  <2> QED BY <1>0, <1>7, <2>1 DEF EditItem, Unlogged, docs, Sends
<1>8. CASE DeleteItem(p)
  <2>1. prog[p] # <<>> /\ s.op = "erase" BY <1>8 DEF DeleteItem, At, Now
  <2> QED BY <1>0, <1>8, <2>1 DEF DeleteItem, Unlogged, docs, Sends
<1> QED
  BY <1>1, <1>2, <1>3, <1>4, <1>5, <1>6, <1>7, <1>8 DEF Raw

\* A COMMIT counts for the request being served: an approval behind it has
\* moved its products from now on.
LEMMA CommittedBacks ==
  ASSUME IInv, Backed, NEW p \in Proc, prog[p] # <<>>, Committed(p),
         Now(p).op \in {"commit", "mark"}
  PROVE  Backed'
<1> DEFINE After(d) == \E j \in Job : j.kind = "decide" /\ j.doc = d /\ commits'[j] >= 1
<1>0. \A d : Moved(d)' <=> After(d) BY DEF Moved
<1>1. /\ prog \in [Proc -> Seq(Statement)] /\ job \in [Proc -> Job \cup {NoJob}]
      /\ commits \in [Job -> Nat]
  BY DEF IInv, ControlType
<1>2. /\ prog' = [prog EXCEPT ![p] = Tail(prog[p])] /\ job' = job /\ status' = status
      /\ commits' = [commits EXCEPT ![job[p]] = @ + 1]
  BY DEF Committed
<1>3. \A j \in Job : commits'[j] >= commits[j] /\ commits'[j] \in Nat
  <2> DEFINE m == job[p]
  <2>1. \A j \in Job : commits'[j] = commits[j] \/ commits'[j] = commits[j] + 1
    <3> HIDE DEF m
    <3>1. commits' = [commits EXCEPT ![m] = @ + 1] BY <1>2 DEF m
    <3> QED BY <1>1, <3>1
  <2> QED BY <1>1, <2>1
<1>4. \A d : Moved(d) => After(d)
  <2> SUFFICES ASSUME NEW d, Moved(d) PROVE After(d) OBVIOUS
  <2>1. PICK j \in Job : j.kind = "decide" /\ j.doc = d /\ commits[j] >= 1 BY DEF Moved
  <2>2. commits'[j] >= 1
    <3>1. commits[j] \in Nat BY <1>1
    <3> QED BY <1>3, <2>1, <3>1
  <2> QED BY <2>1, <2>2
<1>5. \A d : Deciding(p, d) => After(d)
  <2> SUFFICES ASSUME NEW d, Deciding(p, d) PROVE After(d) OBVIOUS
  <2> DEFINE m == job[p]
  <2>1. m \in Job /\ m.kind = "decide" /\ m.doc = d BY DEF Deciding
  <2>2. commits' = [commits EXCEPT ![m] = @ + 1] BY <1>2
  <2> HIDE DEF m
  <2>3. commits[m] \in Nat BY <1>1, <2>1
  <2>4. commits'[m] = commits[m] + 1 BY <1>1, <2>1, <2>2
  <2> QED BY <2>1, <2>3, <2>4
<1>6. \A d, q : Deciding(q, d)' <=> Deciding(q, d) BY <1>2 DEF Deciding
<1>7. \A d \in Request : status'[d] = "approved" => After(d)
  BY <1>2, <1>4 DEF Backed
<1> HIDE DEF After
<1>8. ASSUME NEW q \in Proc, NEW i \in DOMAIN prog'[q]
      PROVE  /\ prog'[q][i].op = "check" => Deciding(q, prog'[q][i].doc)
             /\ prog'[q][i].op = "decide" /\ prog'[q][i].to = "approved" =>
                  /\ Deciding(q, prog'[q][i].doc)
                  /\ \/ After(prog'[q][i].doc)
                     \/ \E k \in 1 .. (i - 1) : prog'[q][k].op = "commit"
  <2>1. CASE q # p
    <3>1. prog'[q] = prog[q] BY <1>1, <1>2, <2>1
    <3> QED BY <1>4, <1>8, <3>1 DEF Backed
  <2>2. CASE q = p
    <3>1. prog[p] \in Seq(Statement) /\ prog'[p] = Tail(prog[p]) BY <1>1, <1>2
    <3>2. i + 1 \in DOMAIN prog[p] /\ prog'[p][i] = prog[p][i + 1]
      BY <1>8, <2>2, <3>1
    <3>3. /\ prog[p][i + 1].op = "check" => Deciding(p, prog[p][i + 1].doc)
          /\ prog[p][i + 1].op = "decide" /\ prog[p][i + 1].to = "approved" =>
               Deciding(p, prog[p][i + 1].doc)
      BY <3>2 DEF Backed
    <3> QED BY <1>5, <2>2, <3>2, <3>3
  <2> QED BY <2>1, <2>2
<1> QED BY <1>0, <1>6, <1>7, <1>8 DEF Backed

\* CheckRequest puts the decision behind the COMMIT of the move, and Decide
\* writes it when that was sent.
LEMMA DocumentBacks ==
  ASSUME IInv, Backed, NEW p \in Proc, Document(p)
  PROVE  Backed'
<1> DEFINE s == Now(p)
<1>0. /\ prog \in [Proc -> Seq(Statement)] /\ ControlType
  BY DEF IInv, ControlType
<1>1. CASE CheckRequest(p)
  <2> DEFINE t == RequestOf[s.doc]
             unpacked == Unpack(t.from, t)
             move == IF s.to = "approved" THEN unpacked \o Ends ELSE <<>>
             settles == [s EXCEPT !.op = "decide"]
             new == (move \o <<settles>>) \o Tail(prog[p])
  <2>1. /\ s \in [op : {"check", "decide"}, doc : Request, to : Decision]
        /\ s.op = "check" /\ prog[p] # <<>>
    <3>1. s \in Statement /\ s.op = "check" /\ prog[p] # <<>>
      BY <1>0, <1>1, HeadType DEF CheckRequest, At, Now
    <3> QED BY <3>1 DEF Statement, ShelfOp, LoopStatement, LoopOp
  <2>2. t \in Transfer BY <2>1, ServiceConstants
  <2>3. unpacked \in Seq(Plain) BY <2>2, UnpackPlain DEF Transfer
  <2>4. move \in Seq(Plain) BY <2>3, EndsPlain
  <2>5. s.to = "approved" => \E k \in 1 .. Len(move) : move[k].op = "commit"
    <3> SUFFICES ASSUME s.to = "approved" PROVE move[Len(unpacked) + 1].op = "commit" /\ Len(move) = Len(unpacked) + 1 /\ Len(unpacked) \in Nat
      OBVIOUS
    <3> HIDE DEF unpacked
    <3> QED BY <2>3 DEF Ends
  <2>6. Deciding(p, s.doc)
    <3>1. 1 \in DOMAIN prog[p] BY <1>0, <2>1
    <3> QED BY <2>1, <3>1 DEF Backed, Now
  <2>7. CASE Abort(p) BY <2>7, AbortBacks
  <2>8. CASE Then(p, move \o <<settles>>) /\ ReadsOnly
    <3>1. /\ prog' = [prog EXCEPT ![p] = new] /\ job' = job /\ commits' = commits
          /\ status' = status
      BY <2>8 DEF Then, ReadsOnly, docs
    <3>2. \A d : Moved(d)' <=> Moved(d) BY <3>1 DEF Moved
    <3>3. \A d, q : Deciding(q, d)' <=> Deciding(q, d) BY <3>1 DEF Deciding
    <3>4. \A d \in Request : status'[d] = "approved" => Moved(d)'
      BY <3>1, <3>2 DEF Backed
    <3>5. ASSUME NEW q \in Proc, NEW i \in DOMAIN prog'[q]
          PROVE  /\ prog'[q][i].op = "check" => Deciding(q, prog'[q][i].doc)
                 /\ prog'[q][i].op = "decide" /\ prog'[q][i].to = "approved" =>
                      /\ Deciding(q, prog'[q][i].doc)
                      /\ \/ Moved(prog'[q][i].doc)
                         \/ \E k \in 1 .. (i - 1) : prog'[q][k].op = "commit"
      <4>1. CASE q # p
        <5>1. prog'[q] = prog[q] BY <1>0, <3>1, <4>1
        <5> QED BY <3>5, <5>1 DEF Backed
      <4>2. CASE q = p
        <5> DEFINE old == prog[p]  n == Len(move)
        <5>1. old \in Seq(Statement) /\ old # <<>> /\ prog'[p] = new BY <1>0, <2>1, <3>1
        <5> HIDE DEF move, settles
        <5>2. /\ n \in Nat /\ Len(old) \in Nat \ {0} /\ DOMAIN new = 1 .. (n + Len(old))
              /\ \A k \in 1 .. n : new[k] = move[k] /\ new[k] \in Plain
              /\ new[n + 1] = settles
              /\ \A k \in 2 .. Len(old) : new[k + n] = old[k]
          <6> DEFINE front == move \o <<settles>>
          <6>1. /\ front \in Seq(Plain \cup {settles}) /\ Len(front) = n + 1
                /\ front[n + 1] = settles /\ \A k \in 1 .. n : front[k] = move[k]
                /\ n \in Nat /\ \A k \in 1 .. n : move[k] \in Plain
            <7> HIDE DEF s
            <7> QED BY <2>4
          <6> DEFINE All == Plain \cup {settles} \cup Statement
          <6>2. new = front \o Tail(old) OBVIOUS
          <6> HIDE DEF front, n, old, s, new
          <6>3. front \in Seq(All) /\ old \in Seq(All) BY <5>1, <6>1
          <6> HIDE DEF All
          <6>4. /\ Len(old) \in Nat \ {0}
                /\ DOMAIN (front \o Tail(old)) = 1 .. (Len(front) + Len(old) - 1)
                /\ \A k \in 1 .. Len(front) : (front \o Tail(old))[k] = front[k]
                /\ \A k \in 2 .. Len(old) : (front \o Tail(old))[k + Len(front) - 1] = old[k]
            BY <5>1, <6>3, InFront
          <6>5. /\ DOMAIN (front \o Tail(old)) = 1 .. (n + Len(old))
                /\ \A k \in 1 .. (n + 1) : (front \o Tail(old))[k] = front[k]
            BY <6>1, <6>4
          <6>6. \A k \in 2 .. Len(old) : (front \o Tail(old))[k + n] = old[k]
            <7>1. \A k \in 2 .. Len(old) : k + Len(front) - 1 = k + n BY <6>1
            <7> QED BY <6>4, <7>1
          <6>7. \A k \in 1 .. n : (front \o Tail(old))[k] = move[k] BY <6>1, <6>5
          <6>8. (front \o Tail(old))[n + 1] = settles BY <6>1, <6>5
          <6>9. \A k \in 1 .. n : new[k] = move[k] /\ new[k] \in Plain BY <6>1, <6>2, <6>7
          <6>10. new[n + 1] = settles BY <6>2, <6>8
          <6>11. \A k \in 2 .. Len(old) : new[k + n] = old[k] BY <6>2, <6>6
          <6>12. DOMAIN new = 1 .. (n + Len(old)) BY <6>2, <6>5
          <6>13. n \in Nat /\ Len(old) \in Nat \ {0} BY <6>1, <6>4
          <6> QED BY <6>9, <6>10, <6>11, <6>12, <6>13
        <5> HIDE DEF new, n, old
        <5>3. CASE i <= n
          <6>1. new[i] \in Plain BY <3>5, <4>2, <5>1, <5>2, <5>3
          <6> QED BY <4>2, <5>1, <6>1 DEF Plain
        <5>4. CASE i = n + 1
          <6>1. prog'[q][i] = settles BY <4>2, <5>1, <5>2, <5>4
          <6>2. settles.op = "decide" /\ settles.doc = s.doc /\ settles.to = s.to
            BY <2>1 DEF settles
          <6>3. s.to = "approved" => \E k \in 1 .. (i - 1) : new[k].op = "commit"
            BY <2>5, <5>2, <5>4 DEF n
          <6> QED BY <2>6, <4>2, <5>1, <6>1, <6>2, <6>3
        <5>5. CASE i > n + 1
          <6> DEFINE k == i - n
          <6>1. k \in 2 .. Len(old) /\ i = k + n BY <3>5, <4>2, <5>1, <5>2, <5>5
          <6>2. prog'[q][i] = old[k] BY <4>2, <5>1, <5>2, <6>1
          <6>3. k \in DOMAIN prog[p] BY <5>1, <6>1 DEF old
          <6>4. old[1].op # "commit" BY <2>1 DEF old, Now
          <6> HIDE DEF k
          <6>5. ASSUME NEW j \in 1 .. (k - 1), old[j].op = "commit"
                PROVE  \E m \in 1 .. (i - 1) : new[m].op = "commit"
            <7>1. j # 1 BY <6>4, <6>5
            <7>2. j \in 2 .. Len(old) BY <5>2, <6>1, <7>1
            <7>3. new[j + n].op = "commit" /\ j + n \in 1 .. (i - 1)
              BY <5>2, <6>1, <6>5, <7>2
            <7> QED BY <7>3
          <6>6. /\ old[k].op = "check" => Deciding(p, old[k].doc)
                /\ old[k].op = "decide" /\ old[k].to = "approved" =>
                     /\ Deciding(p, old[k].doc)
                     /\ \/ Moved(old[k].doc)
                        \/ \E j \in 1 .. (k - 1) : old[j].op = "commit"
            BY <6>3 DEF Backed, old
          <6> QED BY <4>2, <5>1, <6>2, <6>5, <6>6
        <5> QED BY <3>5, <4>2, <5>1, <5>2, <5>3, <5>4, <5>5
      <4> QED BY <4>1, <4>2
    <3> QED BY <3>2, <3>3, <3>4, <3>5 DEF Backed
  <2> QED BY <1>1, <2>7, <2>8 DEF CheckRequest
<1>2. CASE Decide(p)
  <2>1. /\ s \in [op : {"check", "decide"}, doc : Request, to : Decision]
        /\ s.op = "decide" /\ prog[p] # <<>>
    <3>1. s \in Statement /\ s.op = "decide" /\ prog[p] # <<>>
      BY <1>0, <1>2, HeadType DEF Decide, At, Now
    <3> QED BY <3>1 DEF Statement, ShelfOp, LoopStatement, LoopOp
  <2>2. /\ prog' = [prog EXCEPT ![p] = <<>> \o Tail(prog[p])] /\ job' = job
        /\ commits' = commits /\ status' = [status EXCEPT ![s.doc] = s.to]
    BY <1>2 DEF Decide, Then
  <2>3. s.to = "approved" => Moved(s.doc)
    <3>1. 1 \in DOMAIN prog[p] BY <1>0, <2>1
    <3>2. ~ \E k \in 1 .. (1 - 1) : prog[p][k].op = "commit" OBVIOUS
    <3> QED BY <2>1, <3>1, <3>2 DEF Backed, Now
  <2>4. \A d : Moved(d)' <=> Moved(d) BY <2>2 DEF Moved
  <2>5. \A d, q : Deciding(q, d)' <=> Deciding(q, d) BY <2>2 DEF Deciding
  <2>6. \A d \in Request : status'[d] = "approved" => Moved(d)'
    <3>1. \A d \in Request : status'[d] = status[d] \/ (d = s.doc /\ status'[d] = s.to)
      BY <2>2, <1>0 DEF ControlType
    <3> QED BY <2>3, <2>4, <3>1 DEF Backed
  <2>7. ASSUME NEW q \in Proc, NEW i \in DOMAIN prog'[q]
        PROVE  /\ prog'[q][i].op = "check" => Deciding(q, prog'[q][i].doc)
               /\ prog'[q][i].op = "decide" /\ prog'[q][i].to = "approved" =>
                    /\ Deciding(q, prog'[q][i].doc)
                    /\ \/ Moved(prog'[q][i].doc)
                       \/ \E k \in 1 .. (i - 1) : prog'[q][k].op = "commit"
    <3>1. CASE q # p
      <4>1. prog'[q] = prog[q] BY <1>0, <2>2, <3>1
      <4> QED BY <2>7, <4>1 DEF Backed
    <3>2. CASE q = p
      <4> DEFINE old == prog[p]
      <4>1. old \in Seq(Statement) /\ old # <<>> /\ prog'[p] = Tail(old) BY <1>0, <2>1, <2>2
      <4>2. /\ i \in Nat \ {0} /\ i + 1 \in DOMAIN old /\ prog'[p][i] = old[i + 1]
            /\ \A k \in 1 .. (i - 1) : prog'[p][k] = old[k + 1]
        BY <2>7, <3>2, <4>1
      <4>3. old[1].op # "commit" BY <2>1 DEF Now
      <4>4. /\ old[i + 1].op = "check" => Deciding(p, old[i + 1].doc)
            /\ old[i + 1].op = "decide" /\ old[i + 1].to = "approved" =>
                 /\ Deciding(p, old[i + 1].doc)
                 /\ \/ Moved(old[i + 1].doc)
                    \/ \E j \in 1 .. i : old[j].op = "commit"
        <5>1. (i + 1) - 1 = i BY <4>2
        <5> QED BY <4>2, <5>1 DEF Backed
      <4> HIDE DEF old
      <4>5. ASSUME NEW j \in 1 .. i, old[j].op = "commit"
            PROVE  \E k \in 1 .. (i - 1) : prog'[p][k].op = "commit"
        <5>1. j # 1 BY <4>3, <4>5
        <5>2. j - 1 \in 1 .. (i - 1) /\ (j - 1) + 1 = j BY <4>2, <5>1
        <5> QED BY <4>2, <4>5, <5>2
      <4> QED BY <3>2, <4>2, <4>4, <4>5
    <3> QED BY <3>1, <3>2
  <2> QED BY <2>4, <2>5, <2>6, <2>7 DEF Backed
<1>3. CASE CheckReport(p)
  <2> DEFINE r == ReportOf[s.doc]
             delta == r.physical - r.stored
             post == IF delta > 0 THEN <<On("add", r.w, r.v, delta)>>
                     ELSE IF delta < 0 THEN <<On("remove", r.w, r.v, -delta)>>
                     ELSE <<>>
             next == post \o <<[s EXCEPT !.op = "mark"]>>
  <2>1. s \in [op : {"unapplied", "mark"}, doc : Report] /\ prog[p] # <<>> /\ s.op = "unapplied"
    <3>1. s \in Statement /\ s.op = "unapplied" /\ prog[p] # <<>>
      BY <1>0, <1>3, HeadType DEF CheckReport, At, Now
    <3> QED BY <3>1 DEF Statement, ShelfOp, LoopStatement, LoopOp
  <2>2. [s EXCEPT !.op = "mark"] \in Plain
    <3>1. [s EXCEPT !.op = "mark"] \in [op : {"unapplied", "mark"}, doc : Report]
      BY <2>1
    <3>2. [op : {"unapplied", "mark"}, doc : Report] \subseteq Statement BY DEF Statement
    <3> HIDE DEF s
    <3> QED BY <2>1, <3>1, <3>2 DEF Plain
  <2>3. r \in [w : Warehouse, v : Variant, stored : Nat, physical : Nat]
    BY <2>1, ServiceConstants
  <2>4. delta \in Int BY <2>3
  <2>5. post \in Seq(Plain)
    <3> HIDE DEF delta, r
    <3>1. delta > 0 => <<On("add", r.w, r.v, delta)>> \in Seq(Plain)
      BY <2>3, <2>4, OnPlain DEF ShelfOp
    <3>2. delta < 0 => <<On("remove", r.w, r.v, -delta)>> \in Seq(Plain)
      <4>1. delta < 0 => -delta \in Nat \ {0} BY <2>4
      <4> QED BY <2>3, <4>1, OnPlain DEF ShelfOp
    <3>3. <<>> \in Seq(Plain) OBVIOUS
    <3> QED BY <3>1, <3>2, <3>3
  <2>6. next \in Seq(Plain)
    <3> HIDE DEF post
    <3> QED BY <2>2, <2>5
  <2>7. Abort(p) \/ (Then(p, next) /\ ReadsOnly) BY <1>3 DEF CheckReport
  <2> HIDE DEF next
  <2>8. Abort(p) \/ Sends(p) BY <2>1, <2>6, <2>7 DEF Sends, ReadsOnly, docs
  <2> QED BY <2>8, AbortBacks, SendsBacks
<1>4. CASE MarkApplied(p)
  <2>1. prog[p] # <<>> /\ Now(p).op = "mark" BY <1>4 DEF MarkApplied, At, Now
  <2> QED BY <1>4, <2>1, CommittedBacks DEF MarkApplied
<1> QED
  BY <1>1, <1>2, <1>3, <1>4 DEF Document

\* What a request begins with decides nothing, but for the check of a decision.
LEMMA HandlerBacks ==
  ASSUME NEW j \in Job
  PROVE  \/ Handler(j) \in Seq(Plain)
         \/ /\ j.kind = "decide"
            /\ Handler(j) = <<[op |-> "check", doc |-> j.doc, to |-> j.status]>>
<1>1. j \in SaleJob \cup BulkJob \cup ShelfJob \cup MoveJob \cup DecideJob \cup AdjustJob
  BY ServiceConstants
<1>2. CASE j \in SaleJob \cup BulkJob
  <2>1. j.w \in Warehouse /\ j.items \in Seq(Amount) /\ j.kind \in {"sale", "bulk"}
    BY <1>2 DEF SaleJob, BulkJob
  <2>2. 1 \in Nat \ {0} /\ "sell" \in ShelfOp /\ "insert" \in ShelfOp
    BY DEF ShelfOp
  <2>3. /\ Each("sell", j.w, j.items, 1) \in Seq(Plain)
        /\ Each("insert", j.w, j.items, 1) \in Seq(Plain)
    BY <2>1, <2>2, EachPlain
  <2>4. /\ Each("sell", j.w, j.items, 1) \o Ends \in Seq(Plain)
        /\ Each("insert", j.w, j.items, 1) \o Ends \in Seq(Plain)
    BY <2>3, EndsPlain
  <2> QED
    BY <2>1, <2>4 DEF Handler
<1>3. CASE j \in MoveJob
  <2>1. Unpack(j.from, j) \o Ends \in Seq(Plain)
    BY <1>3, UnpackPlain, EndsPlain DEF MoveJob
  <2> QED
    BY <1>3, <2>1 DEF Handler, MoveJob
<1>4. CASE j \in DecideJob
  BY <1>4 DEF Handler, DecideJob
<1>5. CASE j \in AdjustJob
  <2>1. [op |-> "unapplied", doc |-> j.doc] \in Plain
    BY <1>5 DEF AdjustJob, Statement, Plain
  <2> QED
    BY <1>5, <2>1 DEF Handler, AdjustJob
<1>6. CASE j \in ShelfJob
  <2>1. /\ j.w \in Warehouse /\ j.v \in Variant /\ j.n \in Nat \ {0}
        /\ j.kind \in {"receive", "lote", "addProduct", "addStock",
                       "removeStock", "edit", "erase"}
    BY <1>6 DEF ShelfJob
  <2>2. \A op \in ShelfOp : <<On(op, j.w, j.v, j.n)>> \in Seq(Plain)
    BY <2>1, OnPlain
  <2>3. Each("probe", j.w, Parts[j.v], j.n) \in Seq(Plain)
    BY <2>1, EachPlain, ServiceConstants DEF ShelfOp
  <2>4. \A op \in ShelfOp : <<On(op, j.w, j.v, j.n)>> \o Ends \in Seq(Plain)
    BY <2>2, EndsPlain
  <2>5. <<On("take", j.w, j.v, j.n)>> \o Each("probe", j.w, Parts[j.v], j.n) \o Ends
          \in Seq(Plain)
    BY <2>2, <2>3, EndsPlain DEF ShelfOp
  <2> QED
    BY <2>1, <2>2, <2>4, <2>5 DEF Handler, ShelfOp
<1> QED
  BY <1>1, <1>2, <1>3, <1>4, <1>5, <1>6

\* A new request has sent nothing yet.
LEMMA ReceiveBacks ==
  ASSUME IInv, Backed, NEW p \in Proc, Receive(p)
  PROVE  Backed'
<1>1. PICK j \in Job : /\ prog' = [prog EXCEPT ![p] = Handler(j)]
                       /\ job' = [job EXCEPT ![p] = j]
  BY DEF Receive
<1>2. /\ prog \in [Proc -> Seq(Statement)] /\ job \in [Proc -> Job \cup {NoJob}]
      /\ status' = status /\ commits' = commits
  BY DEF IInv, ControlType, Receive, docs
<1>3. \A d : Moved(d)' <=> Moved(d) BY <1>2 DEF Moved
<1>4. \A d \in Request : status'[d] = "approved" => Moved(d)'
  BY <1>2, <1>3 DEF Backed
<1>5. \A q \in Proc \ {p} : prog'[q] = prog[q] /\ job'[q] = job[q] BY <1>1, <1>2
<1>6. \A d : \A q \in Proc \ {p} : Deciding(q, d)' <=> Deciding(q, d)
  BY <1>5 DEF Deciding
<1>7. prog'[p] = Handler(j) /\ job'[p] = j BY <1>1, <1>2
<1>8. ASSUME NEW i \in DOMAIN prog'[p]
      PROVE  /\ prog'[p][i].op = "check" =>
                  job'[p] \in Job /\ job'[p].kind = "decide" /\ job'[p].doc = prog'[p][i].doc
             /\ prog'[p][i].op # "decide"
  <2>1. CASE Handler(j) \in Seq(Plain)
    <3>1. Handler(j)[i] \in Plain BY <1>7, <1>8, <2>1
    <3> QED BY <1>7, <3>1 DEF Plain
  <2>2. CASE /\ j.kind = "decide"
             /\ Handler(j) = <<[op |-> "check", doc |-> j.doc, to |-> j.status]>>
    <3>1. i = 1 BY <1>7, <1>8, <2>2
    <3>2. prog'[p][i] = [op |-> "check", doc |-> j.doc, to |-> j.status]
      BY <1>7, <2>2, <3>1
    <3> QED BY <1>7, <2>2, <3>2
  <2> QED BY <2>1, <2>2, HandlerBacks
<1> QED BY <1>3, <1>4, <1>5, <1>6, <1>8 DEF Backed, Deciding

\* Nothing is approved in the beginning.
LEMMA InitBacked == Init => Backed
<1> SUFFICES ASSUME Init PROVE Backed
  OBVIOUS
<1>1. \A p \in Proc : prog[p] = <<>> BY DEF Init
<1>2. \A d \in Request : status[d] = "pending" BY DEF Init
<1> QED BY <1>1, <1>2 DEF Backed

\* No step approves what was not moved.
LEMMA NextBacked == IInv /\ Backed /\ [Next]_vars => Backed'
<1> SUFFICES ASSUME IInv, Backed, [Next]_vars PROVE Backed'
  OBVIOUS
<1>1. CASE UNCHANGED vars
  BY <1>1 DEF vars, docs, Backed, Moved, Deciding
<1>2. ASSUME NEW p \in Proc, Step(p) PROVE Backed'
  <2>1. CASE CommitJob(p)
    <3>1. prog[p] # <<>> /\ Now(p).op = "commit" BY <2>1 DEF CommitJob, At, Now
    <3> QED BY <2>1, <3>1, CommittedBacks DEF CommitJob
  <2> QED
    BY <1>2, <2>1, SaleSends, MoveSends, RawSends, SendsBacks, AbortBacks, DocumentBacks
    DEF Step, DeadlockVictim
<1>3. ASSUME NEW p \in Proc, Fail(p) PROVE Backed'
  BY <1>3, AbortBacks DEF Fail
<1> QED
  BY <1>1, <1>2, <1>3, ReceiveBacks DEF Next, Rest

\* The COMMITs of the decisions on a request, added up, are at least those of
\* one of them.
LEMMA MovedCounts ==
  ASSUME IInv, IsFiniteSet(Job), NEW d, Moved(d)
  PROVE  ApprovalsMoved(d) >= 1
<1> DEFINE S == {j \in Job : j.kind = "decide" /\ j.doc = d}
<1>1. PICK j \in S : commits[j] >= 1 BY DEF Moved
<1>2. IsFiniteSet(S) BY FS_Subset
<1>3. \A y \in S : commits[y] \in Nat BY DEF IInv, ControlType
<1>4. commits[j] <= SumFunctionOnSet(commits, S)
  <2> HIDE DEF S
  <2> QED BY <1>1, <1>2, <1>3, SumCovers
<1>5. SumFunctionOnSet(commits, S) \in Nat
  <2> HIDE DEF S
  <2> QED BY <1>2, <1>3, SumNatural
<1>6. ApprovalsMoved(d) = SumFunctionOnSet(commits, S)
  BY DEF ApprovalsMoved, MapThenSumSet, SumFunctionOnSet, FoldFunctionOnSet
<1> QED
  <2>1. commits[j] \in Nat BY <1>1, <1>3
  <2> HIDE DEF S
  <2> QED BY <1>1, <1>4, <1>5, <1>6, <2>1

\* A transfer request that reads approved has moved its products, however many
\* decide it, fail and are rolled back between the move and the status: a
\* decision is only ever sent behind the COMMIT of the move.
THEOREM ApprovalFollowsMove == IsFiniteSet(Job) => (Spec => []ApprovedWasMoved)
<1> SUFFICES ASSUME IsFiniteSet(Job) PROVE Spec => []ApprovedWasMoved
  OBVIOUS
<1>1. IInv /\ Backed => ApprovedWasMoved
  BY MovedCounts DEF Backed, ApprovedWasMoved
<1> QED
  BY <1>1, InitIInv, NextIInv, InitBacked, NextBacked, PTL DEF Spec

-----------------------------------------------------------------------------
(* Sums over the statements of a program.                                   *)

\* The sum over two sets that have nothing in common.
LEMMA SumJoins ==
  ASSUME NEW A, IsFiniteSet(A), NEW B, IsFiniteSet(B), A \cap B = {},
         NEW f, \A x \in A \cup B : f[x] \in Int
  PROVE  SumFunctionOnSet(f, A \cup B) = SumFunctionOnSet(f, A) + SumFunctionOnSet(f, B)
<1> DEFINE T == {W \in SUBSET B : SumFunctionOnSet(f, A \cup W)
                                   = SumFunctionOnSet(f, A) + SumFunctionOnSet(f, W)}
           S == A \cup B
<1>0. IsFiniteSet(S) BY FS_Union
<1>1. {} \in T
  <2>1. A \cup {} = A OBVIOUS
  <2>2. SumFunctionOnSet(f, A) \in Int BY SumType
  <2> QED BY <2>1, <2>2, SumOfNone
<1>2. ASSUME NEW W \in SUBSET B, NEW x \in B \ W, W \in T PROVE W \cup {x} \in T
  <2>1. W \in SUBSET S /\ x \in S \ W OBVIOUS
  <2>2. A \cup W \in SUBSET S /\ x \in S \ (A \cup W) OBVIOUS
  <2>3. \A y \in S : f[y] \in Int OBVIOUS
  <2>4. SumFunctionOnSet(f, A \cup W) = SumFunctionOnSet(f, A) + SumFunctionOnSet(f, W)
    BY <1>2
  <2>5. (A \cup W) \cup {x} = A \cup (W \cup {x}) OBVIOUS
  <2>6. SumFunctionOnSet(f, A) \in Int BY SumType
  <2> HIDE DEF T, S
  <2>7. /\ SumFunctionOnSet(f, W) \in Int
        /\ SumFunctionOnSet(f, W \cup {x}) = f[x] + SumFunctionOnSet(f, W)
    BY ONLY <1>0, <2>1, <2>3, SumGrows
  <2>8. SumFunctionOnSet(f, (A \cup W) \cup {x}) = f[x] + SumFunctionOnSet(f, A \cup W)
    BY ONLY <1>0, <2>2, <2>3, SumGrows
  <2>9. f[x] \in Int BY <2>1, <2>3
  <2>10. SumFunctionOnSet(f, A \cup (W \cup {x}))
           = f[x] + (SumFunctionOnSet(f, A) + SumFunctionOnSet(f, W))
    BY ONLY <2>4, <2>5, <2>8
  <2>11. SumFunctionOnSet(f, A \cup (W \cup {x}))
           = SumFunctionOnSet(f, A) + SumFunctionOnSet(f, W \cup {x})
    <3>1. \A a, b, c \in Int : a + (b + c) = b + (a + c) OBVIOUS
    <3>2. SumFunctionOnSet(f, W) \in Int BY ONLY <2>7
    <3>3. f[x] + (SumFunctionOnSet(f, A) + SumFunctionOnSet(f, W))
            = SumFunctionOnSet(f, A) + (f[x] + SumFunctionOnSet(f, W))
      BY ONLY <2>6, <2>9, <3>1, <3>2
    <3> QED BY ONLY <2>7, <2>10, <3>3
  <2> QED BY <2>11 DEF T
<1> HIDE DEF T
<1>3. B \in T BY <1>1, <1>2, SubsetInduction
<1> QED BY <1>3 DEF T

\* The sum over the places of a set, counted from further on.
LEMMA SumShifts ==
  ASSUME NEW m \in Nat, NEW N, IsFiniteSet(N), N \subseteq Nat, NEW f, NEW g,
         \A i \in N : f[i] \in Int /\ g[m + i] = f[i]
  PROVE  SumFunctionOnSet(g, {m + i : i \in N}) = SumFunctionOnSet(f, N)
<1> DEFINE Further(W) == {m + i : i \in W}
           T == {W \in SUBSET N :
                   /\ IsFiniteSet(Further(W))
                   /\ SumFunctionOnSet(g, Further(W)) = SumFunctionOnSet(f, W)}
<1>1. {} \in T
  <2>1. Further({}) = {} OBVIOUS
  <2> QED BY <2>1, SumOfNone, FS_EmptySet
<1>2. ASSUME NEW W \in SUBSET N, NEW x \in N \ W, W \in T
      PROVE  W \cup {x} \in T
  <2> DEFINE S == Further(W) \cup {m + x}
  <2>1. Further(W) \in SUBSET S /\ m + x \in S \ Further(W) OBVIOUS
  <2>2. Further(W \cup {x}) = Further(W) \cup {m + x} OBVIOUS
  <2>3. \A y \in S : g[y] \in Int OBVIOUS
  <2>4. IsFiniteSet(Further(W)) /\ SumFunctionOnSet(g, Further(W)) = SumFunctionOnSet(f, W)
    BY <1>2
  <2>9. IsFiniteSet(S) BY <2>4, FS_AddElement
  <2>5. g[m + x] = f[x] OBVIOUS
  <2>6. \A y \in N : f[y] \in Int OBVIOUS
  <2> HIDE DEF T, S, Further
  <2>7. SumFunctionOnSet(f, W \cup {x}) = f[x] + SumFunctionOnSet(f, W)
    BY ONLY <2>6, W \in SUBSET N, x \in N \ W, IsFiniteSet(N), SumGrows
  <2>8. SumFunctionOnSet(g, Further(W) \cup {m + x})
          = g[m + x] + SumFunctionOnSet(g, Further(W))
    BY ONLY <2>9, <2>1, <2>3, SumGrows
  <2> QED BY <2>2, <2>4, <2>5, <2>7, <2>8, <2>9 DEF T, S
<1> HIDE DEF T
<1>3. N \in T BY <1>1, <1>2, SubsetInduction
<1> QED BY <1>3 DEF T

\* The units of a leaf that a statement takes from the shelves, below zero, or
\* puts there; in the end, of all that it is replaced by.
Effect(s, leaf) ==
  CASE s.op \in {"sell", "leaf", "final", "remove", "take"} -> -(s.n * Weight(s.v, leaf))
    [] s.op \in {"probe", "add", "put"} -> s.n * Weight(s.v, leaf)
    [] OTHER -> 0

\* What the statements of a program will have put there.
Owed(q, leaf) ==
  SumFunctionOnSet([i \in DOMAIN q |-> Effect(q[i], leaf)], DOMAIN q)

\* A pack holds no less than nothing.
LEMMA WeightType ==
  ASSUME NEW v \in Variant, NEW leaf
  PROVE  Weight(v, leaf) \in Nat
<1> DEFINE rows == {i \in DOMAIN Leaves[v] : Leaves[v][i].v = leaf}
           f == [i \in rows |-> Leaves[v][i].n]
<1>1. Leaves[v] \in Seq(Amount) BY ServiceConstants
<1>2. IsFiniteSet(DOMAIN Leaves[v])
  <2>1. DOMAIN Leaves[v] = 1 .. Len(Leaves[v]) /\ Len(Leaves[v]) \in Nat BY <1>1
  <2> QED BY <2>1, FS_Interval
<1>3. IsFiniteSet(rows) BY <1>2, FS_Subset
<1>4. \A i \in rows : f[i] \in Nat
  <2>1. \A i \in DOMAIN Leaves[v] : Leaves[v][i] \in Amount BY <1>1
  <2> QED BY <2>1 DEF Amount
<1>5. DOMAIN f = rows OBVIOUS
<1>6. Weight(v, leaf) = SumFunctionOnSet(f, rows) BY <1>5 DEF Weight, SumFunction
<1> HIDE DEF f, rows
<1> QED BY <1>3, <1>4, <1>6, SumNatural

\* A product of two integers is one.
LEMMA TimesType == ASSUME NEW a \in Int, NEW b \in Int PROVE a * b \in Int /\ -(a * b) \in Int
OBVIOUS

\* A product of naturals is one.
LEMMA TimesNatural == ASSUME NEW a \in Nat, NEW b \in Nat PROVE a * b \in Nat
OBVIOUS

\* What a statement does to a leaf is a number of units.
LEMMA EffectType ==
  ASSUME NEW s \in Statement, NEW leaf
  PROVE  Effect(s, leaf) \in Int
<1> DEFINE takes == {"sell", "leaf", "final", "remove", "take"}
           puts == {"probe", "add", "put"}
<1>1. CASE s.op \in takes \cup puts
  <2>1. s.v \in Variant /\ s.n \in Nat
    BY <1>1 DEF Statement, ShelfOp, LoopStatement, LoopOp
  <2>2. Weight(s.v, leaf) \in Nat BY <2>1, WeightType
  <2>3. s.n * Weight(s.v, leaf) \in Int /\ -(s.n * Weight(s.v, leaf)) \in Int
    BY <2>1, <2>2, TimesType
  <2> QED BY <1>1, <2>3 DEF Effect
<1>2. CASE s.op \notin takes \cup puts BY <1>2 DEF Effect
<1> QED BY <1>1, <1>2

\* So is what a program does.
LEMMA OwedType ==
  ASSUME NEW q \in Seq(Statement), NEW leaf
  PROVE  Owed(q, leaf) \in Int
<1> DEFINE f == [i \in DOMAIN q |-> Effect(q[i], leaf)]
<1>1. \A i \in DOMAIN q : f[i] \in Int
  <2>1. \A i \in DOMAIN q : q[i] \in Statement OBVIOUS
  <2> QED BY <2>1, EffectType
<1>2. IsFiniteSet(DOMAIN q)
  <2>1. DOMAIN q = 1 .. Len(q) /\ Len(q) \in Nat OBVIOUS
  <2> QED BY <2>1, FS_Interval
<1> HIDE DEF f
<1>3. SumFunctionOnSet(f, DOMAIN q) \in Int BY <1>1, <1>2, SumType
<1> QED BY <1>3 DEF Owed, f

\* Nothing is left to do by nothing.
LEMMA OwedNone == ASSUME NEW leaf PROVE Owed(<<>>, leaf) = 0
<1>1. DOMAIN <<>> = {} OBVIOUS
<1> QED BY <1>1, SumOfNone DEF Owed

\* By one statement, its own effect.
LEMMA OwedOne ==
  ASSUME NEW s \in Statement, NEW leaf
  PROVE  Owed(<<s>>, leaf) = Effect(s, leaf)
<1> DEFINE q == <<s>>
           f == [i \in DOMAIN q |-> Effect(q[i], leaf)]
<1>1. DOMAIN q = {1} /\ q[1] = s OBVIOUS
<1>2. f[1] = Effect(s, leaf) BY <1>1
<1>3. Effect(s, leaf) \in Int BY EffectType
<1>4. IsFiniteSet({1}) BY FS_Singleton
<1>5. {1} \ {1} = {} OBVIOUS
<1> HIDE DEF f
<1>6. SumFunctionOnSet(f, {1}) = f[1] + SumFunctionOnSet(f, {1} \ {1})
  BY <1>2, <1>3, <1>4, SumSplits
<1>7. SumFunctionOnSet(f, {1}) = Effect(s, leaf) BY <1>2, <1>3, <1>5, <1>6, SumOfNone
<1> QED BY <1>1, <1>7 DEF Owed, f

\* By one program and another behind it, what both do.
LEMMA OwedBoth ==
  ASSUME NEW a \in Seq(Statement), NEW b \in Seq(Statement), NEW leaf
  PROVE  Owed(a \o b, leaf) = Owed(a, leaf) + Owed(b, leaf)
<1> DEFINE m == Len(a)  n == Len(b)  c == a \o b
           fa == [i \in DOMAIN a |-> Effect(a[i], leaf)]
           fb == [i \in DOMAIN b |-> Effect(b[i], leaf)]
           fc == [i \in DOMAIN c |-> Effect(c[i], leaf)]
<1>1. m \in Nat /\ n \in Nat /\ DOMAIN a = 1 .. m /\ DOMAIN b = 1 .. n OBVIOUS
<1>2. DOMAIN c = 1 .. (m + n) OBVIOUS
<1>3. \A i \in 1 .. m : c[i] = a[i] OBVIOUS
<1>4. \A i \in 1 .. n : c[m + i] = b[i] OBVIOUS
<1>5. \A i \in 1 .. m : Effect(a[i], leaf) \in Int
  <2>1. \A i \in 1 .. m : a[i] \in Statement OBVIOUS
  <2> QED BY <2>1, EffectType
<1>6. \A i \in 1 .. n : Effect(b[i], leaf) \in Int
  <2>1. \A i \in 1 .. n : b[i] \in Statement OBVIOUS
  <2> QED BY <2>1, EffectType
<1> HIDE DEF m, n, c
<1>7. \A i \in 1 .. m : fc[i] = fa[i] /\ fa[i] \in Int BY <1>1, <1>2, <1>3, <1>5
<1>8. \A i \in 1 .. n : fc[m + i] = fb[i] /\ fb[i] \in Int
  <2>1. \A i \in 1 .. n : m + i \in 1 .. (m + n) BY <1>1
  <2> QED BY <1>1, <1>2, <1>4, <1>6, <2>1
<1>9. SumFunctionOnSet(fc, (m + 1) .. (m + n)) = SumFunctionOnSet(fb, 1 .. n)
  <2> HIDE DEF fa, fb, fc
  <2> DEFINE N == 1 .. n
  <2>1. m \in Nat /\ N \subseteq Nat /\ IsFiniteSet(N) BY <1>1, FS_Interval
  <2>2. \A i \in N : fb[i] \in Int /\ fc[m + i] = fb[i] BY <1>8
  <2>3. {m + i : i \in N} = (m + 1) .. (m + n)
    <3>1. \A y \in (m + 1) .. (m + n) : y - m \in N /\ y = m + (y - m) BY <1>1
    <3>2. \A i \in N : m + i \in (m + 1) .. (m + n) BY <1>1
    <3> HIDE DEF N
    <3> QED BY <3>1, <3>2
  <2> HIDE DEF N
  <2>4. SumFunctionOnSet(fc, {m + i : i \in N}) = SumFunctionOnSet(fb, N)
    BY ONLY <2>1, <2>2, SumShifts
  <2> QED BY <2>3, <2>4 DEF N
<1>10. SumFunctionOnSet(fc, 1 .. m) = SumFunctionOnSet(fa, 1 .. m)
  <2> HIDE DEF fa, fb, fc
  <2>1. IsFiniteSet(1 .. m) BY <1>1, FS_Interval
  <2>2. \A i \in 1 .. m : fc[i] \in Int /\ fc[i] = fa[i] BY <1>7
  <2> QED BY <2>1, <2>2, SumSame
<1>11. 1 .. (m + n) = (1 .. m) \cup ((m + 1) .. (m + n)) BY <1>1
<1>12. (1 .. m) \cap ((m + 1) .. (m + n)) = {} BY <1>1
<1>13. \A y \in (1 .. m) \cup ((m + 1) .. (m + n)) : fc[y] \in Int
  <2>1. \A y \in (m + 1) .. (m + n) : y - m \in 1 .. n /\ y = m + (y - m) BY <1>1
  <2> HIDE DEF fa, fb, fc
  <2> QED BY <1>7, <1>8, <2>1
<1>14. SumFunctionOnSet(fc, 1 .. (m + n))
         = SumFunctionOnSet(fc, 1 .. m) + SumFunctionOnSet(fc, (m + 1) .. (m + n))
  <2> HIDE DEF fa, fb, fc
  <2>1. IsFiniteSet(1 .. m) /\ IsFiniteSet((m + 1) .. (m + n)) BY <1>1, FS_Interval
  <2>2. SumFunctionOnSet(fc, (1 .. m) \cup ((m + 1) .. (m + n)))
         = SumFunctionOnSet(fc, 1 .. m) + SumFunctionOnSet(fc, (m + 1) .. (m + n))
    BY ONLY <1>12, <1>13, <2>1, SumJoins
  <2> QED BY ONLY <1>11, <2>2
<1> QED BY <1>1, <1>2, <1>9, <1>10, <1>14 DEF Owed, c

\* By what is left when the head has been sent.
LEMMA OwedTail ==
  ASSUME NEW q \in Seq(Statement), q # <<>>, NEW leaf
  PROVE  Owed(q, leaf) = Effect(q[1], leaf) + Owed(Tail(q), leaf)
<1>1. q[1] \in Statement /\ Tail(q) \in Seq(Statement) OBVIOUS
<1>2. <<q[1]>> \in Seq(Statement) BY <1>1
<1>3. q = <<q[1]>> \o Tail(q)
  <2> DEFINE r == <<q[1]>> \o Tail(q)
  <2>1. Len(q) \in Nat \ {0} /\ Len(Tail(q)) = Len(q) - 1
        /\ \A k \in 1 .. (Len(q) - 1) : Tail(q)[k] = q[k + 1] OBVIOUS
  <2>2. r \in Seq(Statement) /\ Len(r) = Len(q) BY <1>1, <2>1
  <2>3. \A k \in 1 .. Len(q) : r[k] = q[k]
    <3>1. r[1] = q[1] BY <1>1
    <3>2. ASSUME NEW k \in 2 .. Len(q) PROVE r[k] = q[k]
      <4>1. k - 1 \in 1 .. (Len(q) - 1) /\ k = 1 + (k - 1) BY <2>1
      <4>2. r[k] = Tail(q)[k - 1] BY <1>1, <2>1, <4>1
      <4> QED BY <2>1, <4>1, <4>2
    <3> QED BY <2>1, <3>1, <3>2
  <2> HIDE DEF r
  <2>4. DOMAIN r = 1 .. Len(r) /\ DOMAIN q = 1 .. Len(q) BY <2>2
  <2>5. r = q BY <2>2, <2>3, <2>4
  <2> QED BY <2>5 DEF r
<1>4. Owed(<<q[1]>> \o Tail(q), leaf) = Owed(<<q[1]>>, leaf) + Owed(Tail(q), leaf)
  BY <1>1, <1>2, OwedBoth
<1> QED BY <1>1, <1>3, <1>4, OwedOne

\* A line of a composition counts no less than nothing.
LEMMA LineType ==
  ASSUME NEW rows \in Seq(Amount), NEW leaf, NEW i \in DOMAIN rows
  PROVE  /\ rows[i].v \in Variant /\ rows[i].n \in Nat \ {0}
         /\ Weight(rows[i].v, leaf) \in Nat
         /\ rows[i].n * Weight(rows[i].v, leaf) \in Nat
<1>1. rows[i] \in Amount OBVIOUS
<1>2. rows[i].v \in Variant /\ rows[i].n \in Nat \ {0} BY <1>1 DEF Amount
<1>3. Weight(rows[i].v, leaf) \in Nat BY <1>2, WeightType
<1> QED BY <1>2, <1>3, TimesNatural

\* So do all of them.
LEMMA MadeType ==
  ASSUME NEW rows \in Seq(Amount), NEW leaf
  PROVE  Made(rows, leaf) \in Nat
<1> DEFINE f == [i \in DOMAIN rows |-> rows[i].n * Weight(rows[i].v, leaf)]
<1>1. \A i \in DOMAIN rows : f[i] \in Nat BY LineType
<1>2. IsFiniteSet(DOMAIN rows)
  <2>1. DOMAIN rows = 1 .. Len(rows) /\ Len(rows) \in Nat OBVIOUS
  <2> QED BY <2>1, FS_Interval
<1>3. DOMAIN f = DOMAIN rows OBVIOUS
<1>4. Made(rows, leaf) = SumFunctionOnSet(f, DOMAIN rows) BY <1>3 DEF Made, SumFunction
<1> HIDE DEF f
<1> QED BY <1>1, <1>2, <1>4, SumNatural

Takes == {"sell", "leaf", "final", "remove", "take"}
Puts == {"probe", "add", "put"}

\* What the statements for a composition do is what it is made of, n times.
LEMMA EachOwes ==
  ASSUME NEW op \in Takes \cup Puts, NEW w, NEW rows \in Seq(Amount),
         NEW n \in Nat \ {0}, NEW leaf
  PROVE  Owed(Each(op, w, rows, n), leaf) =
           IF op \in Takes THEN -(n * Made(rows, leaf)) ELSE n * Made(rows, leaf)
<1> DEFINE f == [i \in DOMAIN rows |-> rows[i].n * Weight(rows[i].v, leaf)]
           q == Each(op, w, rows, n)
           g == [i \in DOMAIN q |-> Effect(q[i], leaf)]
           k == IF op \in Takes THEN -n ELSE n
<1>1. DOMAIN q = DOMAIN rows BY DEF Each
<1>2. k \in Int OBVIOUS
<1>3. ASSUME NEW i \in DOMAIN rows
      PROVE  f[i] \in Int /\ g[i] = k * f[i]
  <2> DEFINE a == rows[i].n  b == Weight(rows[i].v, leaf)
  <2>1. a \in Nat \ {0} /\ b \in Nat /\ a * b \in Nat BY LineType
  <2>2. q[i] = [op |-> op, w |-> w, v |-> rows[i].v, n |-> n * a] BY DEF Each, On
  <2>3. q[i].op = op /\ q[i].v = rows[i].v /\ q[i].n = n * a BY <2>2
  <2>4. Effect(q[i], leaf) = IF op \in Takes THEN -((n * a) * b) ELSE (n * a) * b
    <3> HIDE DEF q, a, b
    <3>1. CASE op \in Takes BY <2>3, <3>1 DEF Effect, Takes, b
    <3>2. CASE op \in Puts BY <2>3, <3>2 DEF Effect, Takes, Puts, b
    <3> QED BY <3>1, <3>2
  <2>5. g[i] = Effect(q[i], leaf) /\ f[i] = a * b BY <1>1
  <2>6. \A x, y, z \in Int : (x * y) * z = x * (y * z) /\ -(x * (y * z)) = (-x) * (y * z) OBVIOUS
  <2> HIDE DEF q, a, b, f, g
  <2>7. (n * a) * b = n * (a * b) /\ -(n * (a * b)) = (-n) * (a * b) BY <2>1, <2>6
  <2> QED BY <2>1, <2>4, <2>5, <2>7
<1>4. IsFiniteSet(DOMAIN rows)
  <2>1. DOMAIN rows = 1 .. Len(rows) /\ Len(rows) \in Nat OBVIOUS
  <2> QED BY <2>1, FS_Interval
<1>5. DOMAIN f = DOMAIN rows OBVIOUS
<1>6. Made(rows, leaf) = SumFunctionOnSet(f, DOMAIN rows) BY <1>5 DEF Made, SumFunction
<1>7. Owed(q, leaf) = SumFunctionOnSet(g, DOMAIN rows) BY <1>1 DEF Owed
<1> HIDE DEF f, g, q
<1>8. SumFunctionOnSet(g, DOMAIN rows) = k * SumFunctionOnSet(f, DOMAIN rows)
  <2>1. \A i \in DOMAIN rows : f[i] \in Int /\ g[i] = k * f[i] BY <1>3
  <2> HIDE DEF k
  <2> QED BY ONLY <1>2, <1>4, <2>1, SumScaled
<1>9. Made(rows, leaf) \in Int BY MadeType
<1>10. \A x, y \in Int : (-x) * y = -(x * y) OBVIOUS
<1>11. (-n) * Made(rows, leaf) = -(n * Made(rows, leaf)) BY <1>9, <1>10
<1> QED BY <1>6, <1>7, <1>8, <1>11 DEF q

-----------------------------------------------------------------------------
(* Shops with one row on every shelf.                                       *)

\* The row of a shelf.
Place(w, v) ==
  CHOOSE r \in Row : r[1] = w /\ r[2] = v /\ Opening[r] # Absent

\* The place of a row is the one row of its shelf.
LEMMA PlaceIs ==
  ASSUME OneRowEach, NEW w \in Warehouse, NEW v \in Variant
  PROVE  /\ Place(w, v) \in Row /\ Place(w, v)[1] = w /\ Place(w, v)[2] = v
         /\ Opening[Place(w, v)] # Absent
         /\ \A r \in Row : r[1] = w /\ r[2] = v /\ Opening[r] # Absent => r = Place(w, v)
<1>1. PICK l \in Lot : \A m \in Lot : Opening[<<w, v, m>>] # Absent <=> m = l
  BY DEF OneRowEach
<1>2. <<w, v, l>> \in Row /\ Opening[<<w, v, l>>] # Absent BY <1>1 DEF Row
<1>3. \E r \in Row : r[1] = w /\ r[2] = v /\ Opening[r] # Absent
  <2>1. <<w, v, l>>[1] = w /\ <<w, v, l>>[2] = v OBVIOUS
  <2> QED BY <1>2, <2>1
<1>4. ASSUME NEW r \in Row, r[1] = w, r[2] = v, Opening[r] # Absent
      PROVE  r = <<w, v, l>>
  <2>1. r = <<r[1], r[2], r[3]>> /\ r[3] \in Lot BY DEF Row
  <2> QED BY <1>1, <1>4, <2>1
<1>5. /\ Place(w, v) \in Row /\ Place(w, v)[1] = w /\ Place(w, v)[2] = v
      /\ Opening[Place(w, v)] # Absent
  BY <1>3 DEF Place
<1> QED BY <1>4, <1>5

\* No request of the shop adds a row or takes one away.
RowsStay ==
  \A r \in Row : /\ com[r] = Absent <=> Opening[r] = Absent
                 /\ draft[r] = Absent <=> Opening[r] = Absent

\* So every session finds the row of a shelf, and no other.
LEMMA LotsIs ==
  ASSUME IInv, OneRowEach, RowsStay, NEW p \in Proc,
         NEW w \in Warehouse, NEW v \in Variant
  PROVE  /\ Lots(p, w, v) = {Place(w, v)} /\ Place(w, v) \in Row
         /\ Seen(p, Place(w, v)) \in Nat
<1>1. \A r \in Row : Seen(p, r) = Absent <=> Opening[r] = Absent BY DEF RowsStay, Seen
<1>2. Lots(p, w, v) = {Place(w, v)} BY <1>1, PlaceIs DEF Lots
<1>3. Place(w, v) \in Row /\ Seen(p, Place(w, v)) # Absent BY <1>1, PlaceIs
<1> QED BY <1>2, <1>3, SeenType DEF IInv

\* And reads what is in it.
LEMMA ReadIs ==
  ASSUME IInv, OneRowEach, RowsStay, NEW p \in Proc,
         NEW w \in Warehouse, NEW v \in Variant
  PROVE  StockReads(p, w, v) = {Seen(p, Place(w, v))}
BY LotsIs DEF StockReads

\* A session changes by k units what is on a shelf.
Shifts(p, w, v, k) ==
  LET r == Place(w, v) IN
    /\ holder[r] \in {p, Nobody}
    /\ draft' = [draft EXCEPT ![r] = Seen(p, r) + k]
    /\ holder' = [holder EXCEPT ![r] = p]

Still == UNCHANGED <<draft, holder>>

\* An UPDATE of the row of a shelf.
LEMMA SetPlace ==
  ASSUME IInv, OneRowEach, NEW p \in Proc, NEW w \in Warehouse, NEW v \in Variant,
         NEW k \in Int, NEW R, R = {Place(w, v)},
         Blockers(p, R) = {},
         draft' = [r \in Row |-> IF r \in R THEN Seen(p, r) + k ELSE draft[r]],
         holder' = [r \in Row |-> IF r \in R THEN p ELSE holder[r]]
  PROVE  Shifts(p, w, v, k)
<1> DEFINE r == Place(w, v)
<1>1. r \in Row BY PlaceIs
<1>2. holder[r] \in {p, Nobody} BY DEF Blockers
<1>3. draft \in [Row -> Stock] /\ holder \in [Row -> Proc \cup {Nobody}]
  BY DEF IInv, TableInv, TablesType
<1> HIDE DEF r
<1>4. R = {r} BY DEF r
<1>5. draft' = [draft EXCEPT ![r] = Seen(p, r) + k] BY <1>1, <1>3, <1>4
<1>6. holder' = [holder EXCEPT ![r] = p] BY <1>1, <1>3, <1>4
<1> QED BY <1>2, <1>5, <1>6 DEF Shifts, r

\* removeStock, of n units where there are as many.
LEMMA Removed ==
  ASSUME IInv, OneRowEach, RowsStay, NEW p \in Proc,
         NEW w \in Warehouse, NEW v \in Variant, NEW n \in Nat,
         RemoveStock(p, w, v, n)
  PROVE  IF Removable(p, w, v, n) = {} THEN Still ELSE Shifts(p, w, v, -n)
<1> DEFINE R == Removable(p, w, v, n)
<1>1. R \subseteq {Place(w, v)} BY LotsIs DEF Removable
<1>2. /\ Blockers(p, R) = {}
      /\ draft' = [r \in Row |-> IF r \in R THEN Seen(p, r) - n ELSE draft[r]]
      /\ holder' = [r \in Row |-> IF r \in R THEN p ELSE holder[r]]
  BY DEF RemoveStock, SetRows
<1>3. CASE R = {}
  <2>1. draft \in [Row -> Stock] /\ holder \in [Row -> Proc \cup {Nobody}]
    BY DEF IInv, TableInv, TablesType
  <2> HIDE DEF R
  <2>2. draft' = draft /\ holder' = holder BY <1>2, <1>3, <2>1
  <2> QED BY <1>3, <2>2 DEF Still, R
<1>4. CASE R # {}
  <2>1. R = {Place(w, v)} BY <1>1, <1>4
  <2>2. \A r \in R : Seen(p, r) \in Nat BY <2>1, LotsIs
  <2>3. draft' = [r \in Row |-> IF r \in R THEN Seen(p, r) + (-n) ELSE draft[r]]
    <3> HIDE DEF R
    <3>1. \A r \in R : Seen(p, r) - n = Seen(p, r) + (-n) BY <2>2
    <3> QED BY <1>2, <3>1
  <2> HIDE DEF R
  <2>4. -n \in Int OBVIOUS
  <2>5. Shifts(p, w, v, -n) BY <1>2, <2>1, <2>3, <2>4, SetPlace
  <2> QED BY <1>4, <2>5 DEF R
<1> QED BY <1>3, <1>4

\* addStock.
LEMMA Added ==
  ASSUME IInv, OneRowEach, RowsStay, NEW p \in Proc,
         NEW w \in Warehouse, NEW v \in Variant, NEW n \in Nat,
         AddStock(p, w, v, n)
  PROVE  Shifts(p, w, v, n)
<1> DEFINE R == Lots(p, w, v)
<1>1. R = {Place(w, v)} BY LotsIs
<1>2. /\ Blockers(p, R) = {}
      /\ draft' = [r \in Row |-> IF r \in R THEN Seen(p, r) + n ELSE draft[r]]
      /\ holder' = [r \in Row |-> IF r \in R THEN p ELSE holder[r]]
  BY DEF AddStock, SetRows
<1> HIDE DEF R
<1> QED BY <1>1, <1>2, SetPlace

-----------------------------------------------------------------------------
(* What the statements of a sale and of a move do to the shelves.           *)

\* The statements that move stock, and the loops that look for some.
Moving == {x \in Statement : x.op \in Takes \cup Puts \cup LoopOp}

\* All of them but a removeStock whose row count nobody looks at.
Checked == {x \in Moving : x.op # "remove"}

\* What moves stock is a statement.
LEMMA MovingStatements ==
  /\ Seq(Moving) \subseteq Seq(Statement) /\ <<>> \in Seq(Moving)
  /\ Seq(Checked) \subseteq Seq(Moving) /\ <<>> \in Seq(Checked)
<1>1. Moving \subseteq Statement BY DEF Moving
<1>2. ASSUME NEW q \in Seq(Moving) PROVE q \in Seq(Statement)
  <2>1. Len(q) \in Nat /\ DOMAIN q = 1 .. Len(q) /\ \A i \in 1 .. Len(q) : q[i] \in Moving
    OBVIOUS
  <2>2. q \in [1 .. Len(q) -> Statement] BY <1>1, <2>1
  <2> QED BY <2>1, <2>2
<1>3. ASSUME NEW q \in Seq(Checked) PROVE q \in Seq(Moving)
  <2>1. Len(q) \in Nat /\ DOMAIN q = 1 .. Len(q) /\ \A i \in 1 .. Len(q) : q[i] \in Checked
    OBVIOUS
  <2>2. q \in [1 .. Len(q) -> Moving] BY <2>1 DEF Checked
  <2> QED BY <2>1, <2>2
<1> QED BY <1>2, <1>3

\* A statement on a shelf, and what it owes.
LEMMA OnMoving ==
  ASSUME NEW op \in Takes \cup Puts, NEW w \in Warehouse, NEW v \in Variant,
         NEW n \in Nat \ {0}
  PROVE  /\ On(op, w, v, n) \in Statement
         /\ <<On(op, w, v, n)>> \in Seq(Moving)
         /\ op # "remove" => <<On(op, w, v, n)>> \in Seq(Checked)
         /\ \A leaf : Owed(<<On(op, w, v, n)>>, leaf) =
              IF op \in Takes THEN -(n * Weight(v, leaf)) ELSE n * Weight(v, leaf)
<1> DEFINE s == On(op, w, v, n)
<1>1. op \in ShelfOp BY DEF Takes, Puts, ShelfOp
<1>2. s \in Statement BY <1>1, OnType
<1>3. s.op = op /\ s.v = v /\ s.n = n BY DEF On
<1>4. s \in Moving BY <1>2, <1>3 DEF Moving
<1>5. \A leaf : Effect(s, leaf) =
              IF op \in Takes THEN -(n * Weight(v, leaf)) ELSE n * Weight(v, leaf)
  <2> HIDE DEF s
  <2>1. CASE op \in Takes BY <1>3, <2>1 DEF Effect, Takes
  <2>2. CASE op \in Puts BY <1>3, <2>2 DEF Effect, Takes, Puts
  <2> QED BY <2>1, <2>2
<1>6. \A leaf : Owed(<<s>>, leaf) = Effect(s, leaf)
  <2> HIDE DEF s
  <2> QED BY <1>2, OwedOne
<1>7. <<s>> \in Seq(Moving)
  <2> HIDE DEF s
  <2> QED BY <1>4
<1>9. op # "remove" => <<s>> \in Seq(Checked)
  <2>1. op # "remove" => s \in Checked BY <1>3, <1>4 DEF Checked
  <2> HIDE DEF s
  <2> QED BY <2>1
<1> HIDE DEF s
<1>8. \A leaf : Owed(<<s>>, leaf) =
        IF op \in Takes THEN -(n * Weight(v, leaf)) ELSE n * Weight(v, leaf)
  BY <1>5, <1>6
<1> QED BY <1>2, <1>7, <1>8, <1>9 DEF s

\* The statements on the rows of a composition.
LEMMA EachMoving ==
  ASSUME NEW op \in Takes \cup Puts, NEW w \in Warehouse, NEW rows \in Seq(Amount),
         NEW n \in Nat \ {0}
  PROVE  /\ Each(op, w, rows, n) \in Seq(Moving)
         /\ Each(op, w, rows, n) \in Seq(Statement)
         /\ op # "remove" => Each(op, w, rows, n) \in Seq(Checked)
<1>1. ASSUME NEW i \in DOMAIN rows 
      PROVE  /\ On(op, w, rows[i].v, n * rows[i].n) \in Moving
             /\ op # "remove" => On(op, w, rows[i].v, n * rows[i].n) \in Checked
  <2>1. rows[i].v \in Variant /\ rows[i].n \in Nat \ {0} BY LineType
  <2> DEFINE m == n * rows[i].n
  <2>2. m \in Nat \ {0} BY <2>1, PositiveProduct
  <2> HIDE DEF m
  <2>3. On(op, w, rows[i].v, m) \in Statement BY <2>1, <2>2, OnMoving
  <2>4. On(op, w, rows[i].v, m).op = op BY DEF On
  <2> QED BY <2>3, <2>4 DEF Moving, Checked, m
<1>2. /\ Each(op, w, rows, n) \in Seq(Moving)
      /\ op # "remove" => Each(op, w, rows, n) \in Seq(Checked)
  <2> DEFINE f(i) == On(op, w, rows[i].v, n * rows[i].n)
  <2>1. Each(op, w, rows, n) = [i \in DOMAIN rows |-> f(i)] BY DEF Each
  <2>2. Len(rows) \in Nat /\ DOMAIN rows = 1 .. Len(rows) OBVIOUS
  <2>3. \A i \in DOMAIN rows : f(i) \in Moving /\ (op # "remove" => f(i) \in Checked)
    BY <1>1
  <2> HIDE DEF f
  <2> QED BY <2>1, <2>2, <2>3
<1> QED BY <1>2, MovingStatements

\* The turn of a loop owes nothing.
LEMMA LoopMoving ==
  ASSUME NEW op \in LoopOp, NEW s, s.w \in Warehouse, s.v \in Variant,
         s.n \in Nat \ {0}, NEW i \in Nat \ {0}, NEW k \in Int, NEW short \in Int
  PROVE  /\ Loop(op, s, i, k, short) \in Seq(Moving)
         /\ Loop(op, s, i, k, short) \in Seq(Checked)
         /\ \A leaf : Owed(Loop(op, s, i, k, short), leaf) = 0
<1> DEFINE x == [op |-> op, w |-> s.w, v |-> s.v, n |-> s.n, i |-> i, k |-> k, short |-> short]
<1>1. x \in Statement BY DEF Statement, LoopStatement
<1>2. x.op = op OBVIOUS
<1>3. Loop(op, s, i, k, short) = <<x>> BY DEF Loop
<1> HIDE DEF x
<1>4. x \in Moving /\ x \in Checked BY <1>1, <1>2 DEF Moving, Checked, LoopOp
<1>5. \A leaf : Effect(x, leaf) = 0 BY <1>2 DEF Effect, LoopOp
<1>6. \A leaf : Owed(<<x>>, leaf) = 0 BY <1>1, <1>5, OwedOne
<1> QED BY <1>3, <1>4, <1>6

\* The statement that is sent leaves to be done what it should have done.
Covers(p, s) ==
  PacksAddUp => \A leaf \in Leaf : Owed(s, leaf) = Effect(Now(p), leaf)

\* At least so much, what it did to a shelf included.
Balances(p, s, v, k) ==
  PacksAddUp => \A leaf \in Leaf :
                  k * Weight(v, leaf) + Owed(s, leaf) >= Effect(Now(p), leaf)

\* It changes one shelf, and logs no more than it puts there.
Writes(p, w, v, k, m) ==
  /\ m <= k
  /\ Shifts(p, w, v, k) \/ (k = 0 /\ Still)
  /\ pend' = [pend EXCEPT ![p][<<w, v>>] = @ + m]

\* Just so much, and logged.
Exact(p, s, v, k, m) ==
  /\ m = k
  /\ PacksAddUp => \A leaf \in Leaf :
                     k * Weight(v, leaf) + Owed(s, leaf) = Effect(Now(p), leaf)

\* A removeStock that finds its row short takes nothing, and is logged.
Misses(p) ==
  At(p, "remove") /\ Removable(p, Now(p).w, Now(p).v, Now(p).n) = {}

\* It comes behind a test that the row has enough.
Tested(p, s) ==
  \/ s \in Seq(Checked)
  \/ \E t \in Seq(Checked), w \in Warehouse, v \in Variant, n \in Nat \ {0} :
       s = <<On("remove", w, v, n)>> \o t /\ Seen(p, Place(w, v)) >= n

\* One statement of a request, other than a COMMIT and the reading of a document.
Does(p) ==
  /\ prog[p] # <<>> /\ Now(p).op \notin {"check", "decide", "commit"}
  /\ UNCHANGED <<com, log>>
  /\ \E s \in Seq(Moving) :
       /\ Then(p, s)
       /\ \/ Still /\ UNCHANGED pend /\ Covers(p, s) /\ Tested(p, s)
          \/ \E w \in Warehouse, v \in Variant, k \in Int, m \in Int :
               /\ Writes(p, w, v, k, m) /\ Balances(p, s, v, k)
               /\ s \in Seq(Checked) /\ (Exact(p, s, v, k, m) \/ Misses(p))

\* What a statement on a shelf should do.
LEMMA HeadEffect ==
  ASSUME ControlType, NEW p \in Proc, NEW op \in Takes \cup Puts, At(p, op)
  PROVE  /\ Now(p).w \in Warehouse /\ Now(p).v \in Variant
         /\ Now(p).n \in Nat \ {0} /\ prog[p] # <<>>
         /\ Now(p).op \notin {"check", "decide", "commit"}
         /\ \A leaf : /\ Weight(Now(p).v, leaf) \in Nat
                      /\ Effect(Now(p), leaf) =
                           IF op \in Takes THEN -(Now(p).n * Weight(Now(p).v, leaf))
                                           ELSE Now(p).n * Weight(Now(p).v, leaf)
<1>1. op \in ShelfOp BY DEF Takes, Puts, ShelfOp
<1>2. /\ Now(p).w \in Warehouse /\ Now(p).v \in Variant
      /\ Now(p).n \in Nat \ {0} /\ prog[p] # <<>>
  BY <1>1, ShelfHead
<1>3. Now(p).op = op BY DEF At, Now
<1>4. \A leaf : Weight(Now(p).v, leaf) \in Nat BY <1>2, WeightType
<1>5. CASE op \in Takes BY <1>2, <1>3, <1>4, <1>5 DEF Effect, Takes
<1>6. CASE op \in Puts BY <1>2, <1>3, <1>4, <1>6 DEF Effect, Takes, Puts
<1> QED BY <1>5, <1>6

\* A turn of a loop does nothing yet.
LEMMA LoopEffect ==
  ASSUME ControlType, NEW p \in Proc, NEW op \in LoopOp, At(p, op)
  PROVE  /\ Now(p).w \in Warehouse /\ Now(p).v \in Variant
         /\ Now(p).n \in Nat \ {0} /\ Now(p).i \in Nat \ {0}
         /\ Now(p).k \in Int /\ Now(p).short \in Int /\ prog[p] # <<>>
         /\ Now(p).op \notin {"check", "decide", "commit"}
         /\ \A leaf : Effect(Now(p), leaf) = 0
<1>1. Now(p).op = op BY DEF At, Now
<1>2. \A leaf : Effect(Now(p), leaf) = 0 BY <1>1 DEF Effect, LoopOp
<1>3. Now(p).op \notin {"check", "decide", "commit"} BY <1>1 DEF LoopOp
<1> QED BY <1>2, <1>3, LoopHead

\* A statement that reads.
LEMMA ReadDoes ==
  ASSUME NEW p \in Proc, prog[p] # <<>>, Now(p).op \notin {"check", "decide", "commit"},
         NEW s \in Seq(Moving), Then(p, s), Covers(p, s), Tested(p, s), ReadsOnly
  PROVE  Does(p)
<1>1. Still /\ UNCHANGED pend /\ UNCHANGED <<com, log>> BY DEF ReadsOnly, tables, Still
<1> QED BY <1>1 DEF Does

\* A statement that writes a shelf and logs it.
LEMMA WriteDoes ==
  ASSUME NEW p \in Proc, prog[p] # <<>>, Now(p).op \notin {"check", "decide", "commit"},
         NEW s \in Seq(Checked), Then(p, s),
         NEW w \in Warehouse, NEW v \in Variant, NEW k \in Int, NEW m \in Int, m <= k,
         Shifts(p, w, v, k) \/ (k = 0 /\ Still), Balances(p, s, v, k), Logged(p, w, v, m),
         Exact(p, s, v, k, m) \/ Misses(p)
  PROVE  Does(p)
<1>1. UNCHANGED <<com, log>> BY DEF Logged
<1>2. Writes(p, w, v, k, m) BY DEF Writes, Logged, Record
<1>3. s \in Seq(Moving) BY MovingStatements
<1> QED BY <1>1, <1>2, <1>3 DEF Does

\* What is shared out adds up to the whole.
LEMMA Shares ==
  ASSUME NEW a \in Int, NEW b \in Int, NEW c \in Int
  PROVE  a * c + b * c = (a + b) * c /\ -(a * c) + -(b * c) = -((a + b) * c)
OBVIOUS

\* consumeStockForSale: what is taken from the shelf and what is taken as its
\* leaves is what was ordered.
LEMMA SellDirectDoes ==
  ASSUME IInv, OneRowEach, RowsStay, NEW p \in Proc, SellDirect(p)
  PROVE  Does(p)
<1> DEFINE s == Now(p)
<1>1. PICK available \in StockReads(p, s.w, s.v) :
        LET direct == IF available < s.n THEN available ELSE s.n
        IN  Then(p, (IF direct > 0 THEN <<On("remove", s.w, s.v, direct)>>
                                   ELSE <<>>)
                    \o (IF s.n > direct
                          THEN Each("leaf", s.w, Leaves[s.v], s.n - direct)
                          ELSE <<>>))
  BY DEF SellDirect
<1> DEFINE direct == IF available < s.n THEN available ELSE s.n
           rest == s.n - direct
           a == IF direct > 0 THEN <<On("remove", s.w, s.v, direct)>> ELSE <<>>
           b == IF rest > 0 THEN Each("leaf", s.w, Leaves[s.v], rest) ELSE <<>>
<1>2. /\ s.w \in Warehouse /\ s.v \in Variant /\ s.n \in Nat \ {0}
      /\ prog[p] # <<>> /\ s.op \notin {"check", "decide", "commit"}
      /\ \A leaf : Weight(s.v, leaf) \in Nat /\ Effect(s, leaf) = -(s.n * Weight(s.v, leaf))
  <2>1. At(p, "sell") /\ "sell" \in Takes \cup Puts /\ "sell" \in Takes
    BY DEF SellDirect, Takes
  <2>2. ControlType BY DEF IInv
  <2> HIDE DEF s
  <2> QED BY <2>1, <2>2, HeadEffect DEF s
<1>3. available \in Nat BY ReadType DEF IInv
<1>12. available = Seen(p, Place(s.w, s.v)) BY <1>2, ReadIs
<1>4. direct <= available /\ direct \in Nat /\ rest \in Nat /\ direct + rest = s.n /\ (s.n > direct <=> rest > 0)
  BY <1>2, <1>3
<1>5. Then(p, a \o b) BY <1>1, <1>4
<1>6. Leaves[s.v] \in Seq(Amount) BY <1>2, ServiceConstants
<1> HIDE DEF s, direct, rest
<1>7. /\ a \in Seq(Moving) /\ \A leaf : Owed(a, leaf) = -(direct * Weight(s.v, leaf))
      /\ IF direct > 0 THEN a = <<On("remove", s.w, s.v, direct)>> ELSE a = <<>>
  <2>1. CASE direct > 0
    <3>1. direct \in Nat \ {0} /\ "remove" \in Takes BY <1>4, <2>1 DEF Takes
    <3> QED BY <1>2, <2>1, <3>1, OnMoving
  <2>2. CASE direct = 0
    <3>1. a = <<>> BY <2>2
    <3>2. \A x \in Nat : -(0 * x) = 0 OBVIOUS
    <3> QED BY <1>2, <2>2, <3>1, <3>2, OwedNone, MovingStatements
  <2> QED BY <1>4, <2>1, <2>2
<1>8. /\ b \in Seq(Moving) /\ \A leaf : Owed(b, leaf) = -(rest * Made(Leaves[s.v], leaf))
      /\ b \in Seq(Checked)
  <2>1. CASE rest > 0
    <3>1. rest \in Nat \ {0} /\ "leaf" \in Takes BY <1>4, <2>1 DEF Takes
    <3>2. b = Each("leaf", s.w, Leaves[s.v], rest) BY <2>1
    <3>3. b \in Seq(Moving) /\ b \in Seq(Checked) BY <1>2, <1>6, <3>1, <3>2, EachMoving
    <3> QED BY <1>2, <1>6, <3>1, <3>2, <3>3, EachOwes
  <2>2. CASE rest = 0
    <3>1. b = <<>> BY <2>2
    <3>2. \A x \in Nat : -(0 * x) = 0 OBVIOUS
    <3> QED BY <1>6, <2>2, <3>1, <3>2, OwedNone, MovingStatements, MadeType
  <2> QED BY <1>4, <2>1, <2>2
<1> HIDE DEF a, b
<1>9. a \o b \in Seq(Moving) BY <1>7, <1>8
<1>10. Covers(p, a \o b)
  <2>1. ASSUME PacksAddUp, NEW leaf \in Leaf PROVE Owed(a \o b, leaf) = Effect(s, leaf)
    <3>1. Made(Leaves[s.v], leaf) = Weight(s.v, leaf) BY <1>2, <2>1 DEF PacksAddUp
    <3>2. Owed(a \o b, leaf) = Owed(a, leaf) + Owed(b, leaf)
      BY <1>7, <1>8, MovingStatements, OwedBoth
    <3>3. -(direct * Weight(s.v, leaf)) + -(rest * Weight(s.v, leaf))
            = -(s.n * Weight(s.v, leaf))
      <4>1. direct \in Int /\ rest \in Int /\ Weight(s.v, leaf) \in Int BY <1>2, <1>4
      <4> QED BY <1>4, <4>1, Shares
    <3> QED BY <1>2, <1>7, <1>8, <3>1, <3>2, <3>3
  <2> QED BY <2>1 DEF Covers, s
<1>11. ReadsOnly BY DEF SellDirect
<1>13. Tested(p, a \o b)
  <2>1. CASE direct > 0
    <3>1. direct \in Nat \ {0} /\ Seen(p, Place(s.w, s.v)) >= direct
      BY <1>3, <1>4, <1>12, <2>1
    <3> QED BY <1>2, <1>7, <1>8, <2>1, <3>1 DEF Tested
  <2>2. CASE ~(direct > 0) BY <1>7, <1>8, <2>2 DEF Tested
  <2> QED BY <2>1, <2>2
<1> QED BY <1>2, <1>5, <1>9, <1>10, <1>11, <1>13, ReadDoes DEF s

\* A leaf that is short of stock looks for its parents, and is taken last.
LEMMA SellLeafDoes ==
  ASSUME IInv, NEW p \in Proc, SellLeaf(p)
  PROVE  Does(p)
<1> DEFINE s == Now(p)
           loop(c) == IF c >= s.n THEN <<>> ELSE Loop("parent", s, 1, 0, s.n - c)
           last == <<On("final", s.w, s.v, s.n)>>
<1>1. PICK current \in StockReads(p, s.w, s.v) : Then(p, loop(current) \o last)
  BY DEF SellLeaf
<1>2. /\ s.w \in Warehouse /\ s.v \in Variant /\ s.n \in Nat \ {0}
      /\ prog[p] # <<>> /\ s.op \notin {"check", "decide", "commit"}
      /\ \A leaf : Weight(s.v, leaf) \in Nat /\ Effect(s, leaf) = -(s.n * Weight(s.v, leaf))
  <2>1. At(p, "leaf") /\ "leaf" \in Takes \cup Puts /\ "leaf" \in Takes
    BY DEF SellLeaf, Takes
  <2>2. ControlType BY DEF IInv
  <2> HIDE DEF s
  <2> QED BY <2>1, <2>2, HeadEffect DEF s
<1>3. current \in Nat BY ReadType DEF IInv
<1> HIDE DEF s
<1>4. loop(current) \in Seq(Checked) /\ \A leaf : Owed(loop(current), leaf) = 0
  <2>1. s.n - current \in Int /\ "parent" \in LoopOp BY <1>2, <1>3 DEF LoopOp
  <2>2. /\ Loop("parent", s, 1, 0, s.n - current) \in Seq(Checked)
        /\ \A leaf : Owed(Loop("parent", s, 1, 0, s.n - current), leaf) = 0
    BY <1>2, <2>1, LoopMoving
  <2> QED BY <2>2, OwedNone, MovingStatements
<1>5. last \in Seq(Checked) /\ \A leaf : Owed(last, leaf) = -(s.n * Weight(s.v, leaf))
  <2>1. "final" \in Takes BY DEF Takes
  <2> QED BY <1>2, <2>1, OnMoving
<1> DEFINE a == loop(current)
<1> HIDE DEF loop, last, a
<1>6. a \in Seq(Checked) /\ \A leaf : Owed(a, leaf) = 0 BY <1>4 DEF a
<1>7. a \o last \in Seq(Checked) /\ a \o last \in Seq(Moving)
  <2>1. a \o last \in Seq(Checked) BY <1>5, <1>6
  <2> QED BY <2>1, MovingStatements
<1>8. Covers(p, a \o last)
  <2>1. ASSUME NEW leaf \in Leaf PROVE Owed(a \o last, leaf) = Effect(s, leaf)
    <3>1. Owed(a \o last, leaf) = Owed(a, leaf) + Owed(last, leaf)
      BY <1>5, <1>6, MovingStatements, OwedBoth
    <3>2. Effect(s, leaf) \in Int BY <1>2, TimesType
    <3> QED BY <1>2, <1>5, <1>6, <3>1, <3>2
  <2> QED BY <2>1 DEF Covers, s
<1>9. ReadsOnly /\ Then(p, a \o last) BY <1>1 DEF SellLeaf, a
<1>10. Tested(p, a \o last) BY <1>7 DEF Tested
<1> QED BY <1>2, <1>7, <1>8, <1>9, <1>10, ReadDoes DEF s

\* A turn of a loop that looks for stock sends nothing or another turn.
LEMMA LoopDoes ==
  ASSUME IInv, NEW p \in Proc, NEW op \in LoopOp, At(p, op), ReadsOnly,
         NEW s \in Seq(Checked), Then(p, s), \A leaf : Owed(s, leaf) = 0
  PROVE  Does(p)
<1>1. ControlType BY DEF IInv
<1>2. prog[p] # <<>> /\ Now(p).op \notin {"check", "decide", "commit"}
      /\ \A leaf : Effect(Now(p), leaf) = 0
  BY <1>1, LoopEffect
<1>3. Covers(p, s) /\ Tested(p, s) BY <1>2 DEF Covers, Tested
<1>4. s \in Seq(Moving) BY MovingStatements
<1> QED BY <1>2, <1>3, <1>4, ReadDoes

\* The next parent is looked at, or none is.
LEMMA TryParentDoes ==
  ASSUME IInv, NEW p \in Proc, TryParent(p)
  PROVE  Does(p)
<1> DEFINE s == Now(p)
<1>1. At(p, "parent") /\ "parent" \in LoopOp /\ "break" \in LoopOp /\ ReadsOnly
  BY DEF TryParent, LoopOp
<1>2. /\ s.w \in Warehouse /\ s.v \in Variant /\ s.n \in Nat \ {0}
      /\ s.i \in Nat \ {0} /\ s.k \in Int /\ s.short \in Int
  BY <1>1, LoopEffect DEF IInv
<1>3. CASE Then(p, <<>>)
  BY <1>1, <1>3, OwedNone, MovingStatements, LoopDoes
<1>4. CASE \E stock \in StockReads(p, s.w, Parents[s.v][s.i]) :
             Then(p, Loop("break", s, s.i, stock, s.short))
  <2>1. PICK stock \in StockReads(p, s.w, Parents[s.v][s.i]) :
          Then(p, Loop("break", s, s.i, stock, s.short))
    BY <1>4
  <2>2. stock \in Int BY ReadType DEF IInv
  <2> HIDE DEF s
  <2>3. /\ Loop("break", s, s.i, stock, s.short) \in Seq(Checked)
        /\ \A leaf : Owed(Loop("break", s, s.i, stock, s.short), leaf) = 0
    BY <1>1, <1>2, <2>2, LoopMoving
  <2> QED BY <1>1, <2>1, <2>3, LoopDoes
<1> QED BY <1>3, <1>4 DEF TryParent

\* The turn ends with a new look at the leaf.
LEMMA RereadLeafDoes ==
  ASSUME IInv, NEW p \in Proc, RereadLeaf(p)
  PROVE  Does(p)
<1> DEFINE s == Now(p)
<1>1. At(p, "reread") /\ "reread" \in LoopOp /\ "break" \in LoopOp /\ ReadsOnly
  BY DEF RereadLeaf, LoopOp
<1>2. /\ s.w \in Warehouse /\ s.v \in Variant /\ s.n \in Nat \ {0}
      /\ s.i \in Nat \ {0} /\ s.k \in Int /\ s.short \in Int
  BY <1>1, LoopEffect DEF IInv
<1>3. PICK current \in StockReads(p, s.w, s.v) :
        Then(p, Loop("break", s, s.i, s.k, s.n - current))
  BY DEF RereadLeaf
<1>4. s.n - current \in Int
  <2>1. current \in Nat BY ReadType DEF IInv
  <2> QED BY <1>2, <2>1
<1> HIDE DEF s
<1>5. /\ Loop("break", s, s.i, s.k, s.n - current) \in Seq(Checked)
      /\ \A leaf : Owed(Loop("break", s, s.i, s.k, s.n - current), leaf) = 0
  BY <1>1, <1>2, <1>4, LoopMoving
<1> QED BY <1>1, <1>3, <1>5, LoopDoes

\* A parent that is broken up leaves what it was made of.
LEMMA BreakParentDoes ==
  ASSUME IInv, OneRowEach, RowsStay, NEW p \in Proc, BreakParent(p)
  PROVE  Does(p)
<1> DEFINE s == Now(p)
           parent == Parents[s.v][s.i]
           next == Loop("parent", s, s.i + 1, 0, s.short)
           parts == Each("probe", s.w, Parts[parent], 1)
           turn == Loop("reread", s, s.i, s.k - 1, s.short)
<1>1. At(p, "break") /\ "break" \in LoopOp /\ "parent" \in LoopOp /\ "reread" \in LoopOp
  BY DEF BreakParent, LoopOp
<1>2. /\ s.w \in Warehouse /\ s.v \in Variant /\ s.n \in Nat \ {0}
      /\ s.i \in Nat \ {0} /\ s.k \in Int /\ s.short \in Int /\ prog[p] # <<>>
      /\ s.op \notin {"check", "decide", "commit"} /\ \A leaf : Effect(s, leaf) = 0
  BY <1>1, LoopEffect DEF IInv
<1>3. next \in Seq(Checked) /\ next \in Seq(Moving) /\ \A leaf : Owed(next, leaf) = 0
  <2>1. s.i + 1 \in Nat \ {0} BY <1>2
  <2> HIDE DEF s
  <2> QED BY <1>1, <1>2, <2>1, LoopMoving
<1>4. CASE Then(p, next) /\ ReadsOnly
  <2> HIDE DEF next
  <2> QED BY <1>1, <1>3, <1>4, LoopDoes
<1>5. CASE /\ RemoveStock(p, s.w, parent, 1) /\ Removable(p, s.w, parent, 1) = {}
           /\ Then(p, next) /\ Unlogged
  <2>1. draft \in [Row -> Stock] /\ holder \in [Row -> Proc \cup {Nobody}]
    BY DEF IInv, TableInv, TablesType
  <2>2. Still BY <1>5, <2>1 DEF RemoveStock, SetRows, Still
  <2>3. UNCHANGED <<com, log, pend>> BY <1>5 DEF Unlogged
  <2>4. Covers(p, next) /\ Tested(p, next)
    <3> HIDE DEF next
    <3> QED BY <1>2, <1>3 DEF Covers, Tested
  <2> HIDE DEF next
  <2> QED BY <1>2, <1>3, <1>5, <2>2, <2>3, <2>4 DEF Does
<1>6. CASE /\ RemoveStock(p, s.w, parent, 1) /\ Removable(p, s.w, parent, 1) # {}
           /\ Parts[parent] # <<>>
           /\ Then(p, parts \o turn) /\ Logged(p, s.w, parent, -1)
  <2>1. parent \in Variant
    <3>1. PICK r \in Removable(p, s.w, parent, 1) : TRUE BY <1>6
    <3>2. r \in Row /\ r[2] = parent BY DEF Removable, Lots
    <3> HIDE DEF parent
    <3> QED BY <3>2 DEF Row
  <2>2. Parts[parent] \in Seq(Amount) BY <2>1, ServiceConstants
  <2>3. turn \in Seq(Checked) /\ \A leaf : Owed(turn, leaf) = 0
    <3>1. s.k - 1 \in Int BY <1>2
    <3> HIDE DEF s
    <3> QED BY <1>1, <1>2, <3>1, LoopMoving
  <2> HIDE DEF s, parent
  <2>4. /\ parts \in Seq(Checked)
        /\ \A leaf : Owed(parts, leaf) = 1 * Made(Parts[parent], leaf)
    <3>1. "probe" \in Puts /\ "probe" \notin Takes /\ 1 \in Nat \ {0} BY DEF Takes, Puts
    <3> QED BY <1>2, <2>2, <3>1, EachMoving, EachOwes
  <2> HIDE DEF parts, turn
  <2>5. parts \o turn \in Seq(Checked) BY <2>3, <2>4
  <2>6. Shifts(p, s.w, parent, -1)
    <3>1. 1 \in Nat /\ s.w \in Warehouse BY <1>2
    <3> QED BY <1>6, <2>1, <3>1, Removed
  <2>7. Balances(p, parts \o turn, parent, -1) /\ Exact(p, parts \o turn, parent, -1, -1)
    <3>1. ASSUME PacksAddUp, NEW leaf \in Leaf
          PROVE  (-1) * Weight(parent, leaf) + Owed(parts \o turn, leaf) = Effect(s, leaf)
      <4>1. Made(Parts[parent], leaf) = Weight(parent, leaf)
        BY <1>6, <2>1, <3>1 DEF PacksAddUp
      <4>2. Owed(parts \o turn, leaf) = Owed(parts, leaf) + Owed(turn, leaf)
        BY <2>3, <2>4, MovingStatements, OwedBoth
      <4>3. Weight(parent, leaf) \in Nat BY <2>1, WeightType
      <4>4. \A x \in Nat : (-1) * x + (1 * x + 0) = 0 OBVIOUS
      <4>5. Owed(parts \o turn, leaf) = 1 * Weight(parent, leaf) + 0
        BY <2>3, <2>4, <4>1, <4>2
      <4>6. (-1) * Weight(parent, leaf) + (1 * Weight(parent, leaf) + 0) = 0
        BY <4>3, <4>4
      <4> QED BY <1>2, <4>5, <4>6
    <3> QED BY <1>2, <3>1 DEF Balances, Exact, s
  <2>8. -1 \in Int /\ -1 <= -1 OBVIOUS
  <2>9. Then(p, parts \o turn) /\ Logged(p, s.w, parent, -1) BY <1>6
  <2>10. prog[p] # <<>> /\ Now(p).op \notin {"check", "decide", "commit"} /\ s.w \in Warehouse
    BY <1>2 DEF s
  <2> QED BY ONLY <2>1, <2>5, <2>6, <2>7, <2>8, <2>9, <2>10, p \in Proc, WriteDoes
<1> QED BY <1>4, <1>5, <1>6 DEF BreakParent

\* The check at the end lets the leaf be taken, or ends the request.
LEMMA FinalCheckDoes ==
  ASSUME IInv, OneRowEach, RowsStay, NEW p \in Proc, FinalCheck(p)
  PROVE  Does(p) \/ Abort(p)
<1> DEFINE s == Now(p)
           last == <<On("remove", s.w, s.v, s.n)>>
<1>1. At(p, "final") /\ "final" \in Takes /\ "remove" \in Takes BY DEF FinalCheck, Takes
<1>2. /\ s.w \in Warehouse /\ s.v \in Variant /\ s.n \in Nat \ {0}
      /\ prog[p] # <<>> /\ s.op \notin {"check", "decide", "commit"}
      /\ \A leaf : Weight(s.v, leaf) \in Nat /\ Effect(s, leaf) = -(s.n * Weight(s.v, leaf))
  BY <1>1, HeadEffect DEF IInv
<1>3. \/ Abort(p)
      \/ /\ Then(p, last) /\ ReadsOnly
         /\ Seen(p, Place(s.w, s.v)) >= s.n
  <2>1. PICK current \in StockReads(p, s.w, s.v) :
          IF current < s.n THEN Abort(p) ELSE Then(p, last) /\ ReadsOnly
    BY DEF FinalCheck
  <2>2. current \in Nat BY ReadType DEF IInv
  <2> HIDE DEF s
  <2>3. current = Seen(p, Place(s.w, s.v)) BY <1>2, <2>1, ReadIs
  <2> HIDE DEF last
  <2>4. current < s.n \/ current >= s.n BY <1>2, <2>2
  <2> QED BY <2>1, <2>3, <2>4, <1>2, <2>2
<1> HIDE DEF s
<1>4. last \in Seq(Moving) /\ \A leaf : Owed(last, leaf) = -(s.n * Weight(s.v, leaf))
  BY <1>1, <1>2, OnMoving
<1>6. Seen(p, Place(s.w, s.v)) >= s.n => Tested(p, last)
  <2>1. last \o <<>> = last OBVIOUS
  <2> QED BY <1>2, <2>1, MovingStatements DEF Tested
<1> HIDE DEF last
<1>5. Covers(p, last) BY <1>2, <1>4 DEF Covers, s
<1> QED BY <1>2, <1>3, <1>4, <1>5, <1>6, ReadDoes DEF s

\* removeStock, checked or not, and its entry.
LEMMA TakenDoes ==
  ASSUME IInv, OneRowEach, RowsStay, NEW p \in Proc, NEW op \in Takes, At(p, op),
         RemoveStock(p, Now(p).w, Now(p).v, Now(p).n),
         Logged(p, Now(p).w, Now(p).v, -Now(p).n), Then(p, <<>>),
         Removable(p, Now(p).w, Now(p).v, Now(p).n) # {} \/ Misses(p)
  PROVE  Does(p)
<1> DEFINE s == Now(p)
<1>1. /\ s.w \in Warehouse /\ s.v \in Variant /\ s.n \in Nat \ {0}
      /\ prog[p] # <<>> /\ s.op \notin {"check", "decide", "commit"}
      /\ \A leaf : Weight(s.v, leaf) \in Nat /\ Effect(s, leaf) = -(s.n * Weight(s.v, leaf))
  BY HeadEffect DEF IInv
<1>2. (Still /\ Misses(p)) \/ Shifts(p, s.w, s.v, -s.n)
  BY <1>1, Removed
<1>3. \A leaf : Owed(<<>>, leaf) = 0 BY OwedNone
<1>4. <<>> \in Seq(Checked) BY MovingStatements
<1>5. /\ s.w \in Warehouse /\ s.v \in Variant /\ -s.n \in Int /\ 0 \in Int
      /\ -s.n <= 0 /\ -s.n <= -s.n
  BY <1>1
<1>6. \A x \in Nat \ {0}, y \in Nat : 0 * y + 0 >= -(x * y) /\ (-x) * y + 0 >= -(x * y)
  OBVIOUS
<1>7. Balances(p, <<>>, s.v, 0) /\ Balances(p, <<>>, s.v, -s.n)
  BY <1>1, <1>3, <1>6 DEF Balances
<1>8. Logged(p, s.w, s.v, -s.n) /\ Then(p, <<>>) OBVIOUS
<1>11. Exact(p, <<>>, s.v, -s.n, -s.n)
  <2>1. \A x \in Nat \ {0}, y \in Nat : (-x) * y + 0 = -(x * y) OBVIOUS
  <2> QED BY <1>1, <1>3, <2>1 DEF Exact
<1>9. CASE Still /\ Misses(p)
  BY ONLY <1>1, <1>4, <1>5, <1>7, <1>8, <1>9, p \in Proc, WriteDoes
<1>10. CASE Shifts(p, s.w, s.v, -s.n)
  BY ONLY <1>1, <1>4, <1>5, <1>7, <1>8, <1>10, <1>11, p \in Proc, WriteDoes
<1> QED BY <1>2, <1>9, <1>10

\* Every statement of a sale.
LEMMA SaleDoes ==
  ASSUME IInv, OneRowEach, RowsStay, NEW p \in Proc, Sale(p)
  PROVE  Does(p) \/ Abort(p)
<1>1. CASE Remove(p)
  <2>1. "remove" \in Takes /\ At(p, "remove") BY <1>1 DEF Remove, Takes
  <2>2. Removable(p, Now(p).w, Now(p).v, Now(p).n) # {} \/ Misses(p) BY <2>1 DEF Misses
  <2> QED BY <1>1, <2>1, <2>2, TakenDoes DEF Remove
<1> QED
  BY <1>1, SellDirectDoes, SellLeafDoes, TryParentDoes, BreakParentDoes,
     RereadLeafDoes, FinalCheckDoes DEF Sale

\* What a request of the shop has still to send: no row is added or taken away,
\* a product names what it can be taken from, a document is read first, and
\* nothing that moves stock comes behind the COMMIT.
Planned ==
  \A p \in Proc : \A i \in DOMAIN prog[p] :
    /\ prog[p][i].op \in Takes \cup Puts \cup LoopOp \cup {"product", "check", "decide", "commit"}
    /\ prog[p][i].op = "product" /\ PacksAddUp =>
         prog[p][i].u = prog[p][i].v \/ Parts[prog[p][i].u] # <<>>
    /\ prog[p][i].op = "commit" =>
         \A k \in DOMAIN prog[p] : k > i => prog[p][k].op = "decide"
    /\ prog[p][i].op = "check" => DOMAIN prog[p] = {1}

\* The same of the statement that is sent now.
LEMMA PlannedHead ==
  ASSUME Planned, ControlType, NEW p \in Proc, prog[p] # <<>>
  PROVE  /\ Now(p).op \in Takes \cup Puts \cup LoopOp \cup {"product", "check", "decide", "commit"}
         /\ Now(p).op = "product" /\ PacksAddUp =>
              Now(p).u = Now(p).v \/ Parts[Now(p).u] # <<>>
         /\ Now(p).op = "commit" => \A k \in DOMAIN prog[p] : k > 1 => prog[p][k].op = "decide"
         /\ Now(p).op = "check" => DOMAIN prog[p] = {1}
<1>1. 1 \in DOMAIN prog[p]
  <2>1. prog[p] \in Seq(Statement) BY DEF ControlType
  <2> QED BY <2>1
<1> QED BY <1>1 DEF Planned, Now

\* A shelf that is to be filled is looked at first.
LEMMA ProbeDoes ==
  ASSUME IInv, OneRowEach, RowsStay, NEW p \in Proc, Probe(p)
  PROVE  Does(p)
<1> DEFINE s == Now(p)
<1>1. At(p, "probe") /\ "probe" \in Puts /\ "probe" \notin Takes
      /\ "add" \in Puts /\ "add" \notin Takes /\ ReadsOnly
  BY DEF Probe, Takes, Puts
<1>2. /\ s.w \in Warehouse /\ s.v \in Variant /\ s.n \in Nat \ {0}
      /\ prog[p] # <<>> /\ s.op \notin {"check", "decide", "commit"}
      /\ \A leaf : Weight(s.v, leaf) \in Nat /\ Effect(s, leaf) = s.n * Weight(s.v, leaf)
  BY <1>1, HeadEffect DEF IInv
<1>3. Lots(p, s.w, s.v) # {}
  <2>1. s.w \in Warehouse /\ s.v \in Variant BY <1>2
  <2> HIDE DEF s
  <2> QED BY <2>1, LotsIs
<1>4. Then(p, <<On("add", s.w, s.v, s.n)>>) BY <1>3 DEF Probe
<1> DEFINE a == <<On("add", s.w, s.v, s.n)>>
<1> HIDE DEF s
<1>5. a \in Seq(Moving) /\ a \in Seq(Checked) /\ \A leaf : Owed(a, leaf) = s.n * Weight(s.v, leaf)
  BY <1>1, <1>2, OnMoving
<1> HIDE DEF a
<1>6. Covers(p, a) /\ Tested(p, a) BY <1>2, <1>5 DEF Covers, Tested, s
<1>7. Then(p, a) BY <1>4 DEF a
<1> QED BY <1>1, <1>2, <1>5, <1>6, <1>7, ReadDoes DEF s

\* addStock, and its entry.
LEMMA AddedDoes ==
  ASSUME IInv, OneRowEach, RowsStay, NEW p \in Proc, NEW op \in Puts, At(p, op),
         AddStock(p, Now(p).w, Now(p).v, Now(p).n),
         Logged(p, Now(p).w, Now(p).v, Now(p).n), Then(p, <<>>)
  PROVE  Does(p)
<1> DEFINE s == Now(p)
<1>0. op \notin Takes BY DEF Takes, Puts
<1>1. /\ s.w \in Warehouse /\ s.v \in Variant /\ s.n \in Nat \ {0}
      /\ prog[p] # <<>> /\ s.op \notin {"check", "decide", "commit"}
      /\ \A leaf : Weight(s.v, leaf) \in Nat /\ Effect(s, leaf) = s.n * Weight(s.v, leaf)
  BY <1>0, HeadEffect DEF IInv
<1>2. Shifts(p, s.w, s.v, s.n)
  BY <1>1, Added
<1>3. \A leaf : Owed(<<>>, leaf) = 0 BY OwedNone
<1>4. <<>> \in Seq(Checked) BY MovingStatements
<1>5. s.w \in Warehouse /\ s.v \in Variant /\ s.n \in Int /\ s.n <= s.n
  BY <1>1
<1>6. \A x \in Nat \ {0}, y \in Nat : x * y + 0 >= x * y /\ x * y + 0 = x * y OBVIOUS
<1>7. Balances(p, <<>>, s.v, s.n) /\ Exact(p, <<>>, s.v, s.n, s.n)
  BY <1>1, <1>3, <1>6 DEF Balances, Exact
<1>8. Logged(p, s.w, s.v, s.n) /\ Then(p, <<>>) OBVIOUS
<1> QED BY ONLY <1>1, <1>2, <1>4, <1>5, <1>7, <1>8, p \in Proc, WriteDoes

\* The shelf of the destination has its row, so that stock is added to it.
LEMMA PutDoes ==
  ASSUME IInv, OneRowEach, RowsStay, NEW p \in Proc, Put(p)
  PROVE  Does(p)
<1>1. At(p, "put") /\ "put" \in Puts /\ "put" \notin Takes BY DEF Put, Takes, Puts
<1>2. Now(p).w \in Warehouse /\ Now(p).v \in Variant BY <1>1, HeadEffect DEF IInv
<1>3. Lots(p, Now(p).w, Now(p).v) # {} BY <1>2, LotsIs
<1> QED BY <1>1, <1>3, AddedDoes DEF Put

\* A pack that is broken, product by product: what it is made of is put back.
LEMMA MoveProductDoes ==
  ASSUME IInv, Planned, NEW p \in Proc, MoveProduct(p)
  PROVE  Does(p)
<1> DEFINE s == Now(p)
           parts == Parts[s.u]
           rows == {i \in DOMAIN parts : parts[i].v = s.v}
           perLote == IF rows = {} THEN 1 ELSE parts[CHOOSE i \in rows : TRUE].n
           lotes(standalone) == (s.n - standalone + perLote - 1) \div perLote
           first(standalone) ==
             IF s.u = s.v \/ standalone >= s.n THEN <<>>
             ELSE <<On("take", s.w, s.u, lotes(standalone))>>
                    \o Each("probe", s.w, parts, lotes(standalone))
           out == <<On("take", s.w, s.v, s.n)>>
           last == IF s.v \in Composite /\ s.t \in Branch
                     THEN Each("probe", s.t, Parts[s.v], s.n)
                     ELSE <<On("put", s.t, s.v, s.n)>>
<1>1. PICK standalone \in StockReads(p, s.w, s.v) : Then(p, first(standalone) \o out \o last)
  BY DEF MoveProduct
<1>2. ReadsOnly /\ prog[p] # <<>> /\ s.op = "product" BY DEF MoveProduct, At, Now
<1>3. /\ s.w \in Warehouse /\ s.v \in Variant /\ s.n \in Nat \ {0}
      /\ s.u \in Variant /\ s.t \in Warehouse
  <2>1. s \in Statement BY <1>2, HeadType DEF IInv
  <2> HIDE DEF s
  <2> QED BY <1>2, <2>1 DEF Statement, ShelfOp, LoopStatement, LoopOp
<1>4. PacksAddUp => s.u = s.v \/ Parts[s.u] # <<>> BY <1>2, PlannedHead DEF IInv
<1>5. \A leaf : Effect(s, leaf) = 0 BY <1>2 DEF Effect
<1>6. standalone \in Nat BY ReadType DEF IInv
<1>7. parts \in Seq(Amount) /\ Parts[s.v] \in Seq(Amount) BY <1>3, ServiceConstants
<1>8. \A leaf : Weight(s.v, leaf) \in Nat /\ Weight(s.u, leaf) \in Nat BY <1>3, WeightType
<1>9. "take" \in Takes /\ "put" \in Puts /\ "put" \notin Takes
      /\ "probe" \in Puts /\ "probe" \notin Takes
  BY DEF Takes, Puts
<1>10. standalone < s.n => lotes(standalone) \in Nat \ {0}
  <2>1. perLote \in Nat \ {0}
    <3>1. CASE rows = {} BY <3>1
    <3>2. CASE rows # {}
      <4>1. (CHOOSE i \in rows : TRUE) \in DOMAIN parts BY <3>2
      <4>2. parts[CHOOSE i \in rows : TRUE].n \in Nat \ {0} BY <1>7, <4>1, LineType
      <4> QED BY <3>2, <4>2
    <3> QED BY <3>1, <3>2
  <2> HIDE DEF perLote, s
  <2>2. ASSUME standalone < s.n PROVE lotes(standalone) \in Nat \ {0}
    <3>1. s.n - standalone \in Nat \ {0} BY <1>3, <1>6, <2>2
    <3> QED BY <2>1, <3>1, Rounding
  <2> QED BY <2>2
<1> DEFINE n == lotes(standalone)
           a == <<On("take", s.w, s.u, n)>>
           b == Each("probe", s.w, parts, n)
           c == first(standalone)
<1>11. c = IF s.u = s.v \/ standalone >= s.n THEN <<>> ELSE a \o b OBVIOUS
<1>12. standalone < s.n => n \in Nat \ {0} BY <1>10
<1>13. Then(p, c \o out \o last) BY <1>1
<1> HIDE DEF s, n, first, parts
<1>14. /\ c \in Seq(Checked)
       /\ PacksAddUp => \A leaf \in Leaf : Owed(c, leaf) = 0
  <2>1. CASE s.u = s.v \/ standalone >= s.n
    BY <1>11, <2>1, OwedNone, MovingStatements
  <2>2. CASE ~(s.u = s.v \/ standalone >= s.n)
    <3>1. n \in Nat \ {0} BY <1>3, <1>6, <1>12, <2>2
    <3>2. a \in Seq(Checked) /\ \A leaf : Owed(a, leaf) = -(n * Weight(s.u, leaf))
      BY <1>3, <1>9, <3>1, OnMoving
    <3>3. b \in Seq(Checked) /\ \A leaf : Owed(b, leaf) = n * Made(parts, leaf)
      <4>1. "probe" \in Takes \cup Puts /\ "probe" \notin Takes BY <1>9
      <4>2. parts \in Seq(Amount) BY <1>7
      <4>3. b \in Seq(Checked) BY <1>3, <3>1, <4>1, <4>2, EachMoving
      <4>4. \A leaf : Owed(b, leaf) = n * Made(parts, leaf)
        BY ONLY <3>1, <4>1, <4>2, EachOwes
      <4> QED BY <4>3, <4>4
    <3>4. ASSUME PacksAddUp, NEW leaf \in Leaf PROVE Owed(a \o b, leaf) = 0
      <4>1. Made(parts, leaf) = Weight(s.u, leaf)
        BY <1>3, <1>4, <2>2, <3>4 DEF PacksAddUp, parts
      <4> HIDE DEF a, b
      <4>2. Owed(a \o b, leaf) = Owed(a, leaf) + Owed(b, leaf)
        BY <3>2, <3>3, MovingStatements, OwedBoth
      <4>3. \A x \in Int, y \in Int : -(x * y) + x * y = 0 OBVIOUS
      <4>4. -(n * Weight(s.u, leaf)) + n * Weight(s.u, leaf) = 0 BY <1>8, <3>1, <4>3
      <4> QED BY <3>2, <3>3, <4>1, <4>2, <4>4
    <3> HIDE DEF a, b
    <3>5. a \o b \in Seq(Checked) BY <3>2, <3>3
    <3> QED BY <1>11, <2>2, <3>4, <3>5
  <2> QED BY <2>1, <2>2
<1>15. out \in Seq(Checked) /\ \A leaf : Owed(out, leaf) = -(s.n * Weight(s.v, leaf))
  BY <1>3, <1>9, OnMoving
<1>16. /\ last \in Seq(Checked)
       /\ PacksAddUp => \A leaf \in Leaf : Owed(last, leaf) = s.n * Weight(s.v, leaf)
  <2>1. CASE s.v \in Composite /\ s.t \in Branch
    <3>1. last = Each("probe", s.t, Parts[s.v], s.n) BY <2>1
    <3>2. last \in Seq(Checked) /\ \A leaf : Owed(last, leaf) = s.n * Made(Parts[s.v], leaf)
      <4>1. "probe" \in Takes \cup Puts /\ "probe" \notin Takes BY <1>9
      <4>2. Parts[s.v] \in Seq(Amount) /\ s.n \in Nat \ {0} BY <1>3, <1>7
      <4>3. last \in Seq(Checked) BY <1>3, <3>1, <4>1, <4>2, EachMoving
      <4>4. \A leaf : Owed(last, leaf) = s.n * Made(Parts[s.v], leaf)
        BY ONLY <3>1, <4>1, <4>2, EachOwes
      <4> QED BY <4>3, <4>4
    <3>3. PacksAddUp => \A leaf \in Leaf : Made(Parts[s.v], leaf) = Weight(s.v, leaf)
      BY <1>3, <2>1 DEF PacksAddUp
    <3> HIDE DEF last
    <3> QED BY <3>2, <3>3
  <2>2. CASE ~(s.v \in Composite /\ s.t \in Branch)
    <3>1. last = <<On("put", s.t, s.v, s.n)>> BY <2>2
    <3> HIDE DEF last
    <3> QED BY <1>3, <1>9, <3>1, OnMoving
  <2> QED BY <2>1, <2>2
<1> HIDE DEF c, out, last
<1>17. c \o out \in Seq(Checked) BY <1>14, <1>15
<1>18. c \o out \o last \in Seq(Checked) /\ c \o out \o last \in Seq(Moving)
  <2>1. c \o out \o last \in Seq(Checked) BY <1>16, <1>17
  <2> QED BY <2>1, MovingStatements
<1>19. Covers(p, c \o out \o last)
  <2>1. ASSUME PacksAddUp, NEW leaf \in Leaf PROVE Owed(c \o out \o last, leaf) = Effect(s, leaf)
    <3>1. Owed(c \o out, leaf) = Owed(c, leaf) + Owed(out, leaf)
      BY <1>14, <1>15, MovingStatements, OwedBoth
    <3>2. Owed(c \o out \o last, leaf) = Owed(c \o out, leaf) + Owed(last, leaf)
      BY <1>16, <1>17, MovingStatements, OwedBoth
    <3>3. Owed(c, leaf) = 0 /\ Owed(out, leaf) = -(s.n * Weight(s.v, leaf))
          /\ Owed(last, leaf) = s.n * Weight(s.v, leaf)
      BY <1>14, <1>15, <1>16, <2>1
    <3>4. \A x \in Int, y \in Int : (0 + -(x * y)) + x * y = 0 OBVIOUS
    <3>5. (0 + -(s.n * Weight(s.v, leaf))) + s.n * Weight(s.v, leaf) = 0
      BY <1>3, <1>8, <3>4
    <3> QED BY <1>5, <3>1, <3>2, <3>3, <3>5
  <2> QED BY <2>1 DEF Covers, s
<1>20. Now(p).op \notin {"check", "decide", "commit"} BY <1>2 DEF s
<1>21. Tested(p, c \o out \o last) BY <1>18 DEF Tested
<1> QED BY ONLY <1>2, <1>13, <1>18, <1>19, <1>20, <1>21, p \in Proc, ReadDoes

\* Every statement of a move.
LEMMA MoveDoes ==
  ASSUME IInv, OneRowEach, RowsStay, Planned, NEW p \in Proc, Move(p)
  PROVE  Does(p) \/ Abort(p)
<1>0. ControlType BY DEF IInv
<1>1. CASE Take(p)
  <2>1. "take" \in Takes /\ At(p, "take") BY <1>1 DEF Take, Takes
  <2>2. CASE Removable(p, Now(p).w, Now(p).v, Now(p).n) = {} BY <1>1, <2>2 DEF Take
  <2>3. CASE Removable(p, Now(p).w, Now(p).v, Now(p).n) # {}
    BY <1>1, <2>1, <2>3, TakenDoes DEF Take
  <2> QED BY <2>2, <2>3
<1>2. CASE Add(p)
  <2>1. "add" \in Puts /\ At(p, "add") BY <1>2 DEF Add, Puts
  <2> QED BY <1>2, <2>1, AddedDoes DEF Add
<1>3. CASE Insert(p)
  <2>1. prog[p] # <<>> /\ Now(p).op = "insert" BY <1>3 DEF Insert, At, Now
  <2> QED BY <1>0, <2>1, PlannedHead DEF Takes, Puts, LoopOp
<1> QED
  BY <1>1, <1>2, <1>3, ProbeDoes, PutDoes, MoveProductDoes DEF Move

\* The other statements are not of this shop.
LEMMA RawNever ==
  ASSUME IInv, Planned, NEW p \in Proc
  PROVE  ~Raw(p) /\ ~CheckReport(p) /\ ~MarkApplied(p)
<1>1. \A op : At(p, op) => prog[p] # <<>> /\ Now(p).op = op BY DEF At, Now
<1>2. \A op : At(p, op) =>
        op \in Takes \cup Puts \cup LoopOp \cup {"product", "check", "decide", "commit"}
  BY <1>1, PlannedHead DEF IInv
<1>3. \A op \in {"receive", "rawput", "log", "rawinsert", "rawadd", "rawremove", "edit",
                 "erase", "unapplied", "mark"} : ~At(p, op)
  BY <1>2 DEF Takes, Puts, LoopOp
<1> QED
  BY <1>3 DEF Raw, ReceivePurchase, RawPut, LogEntry, RawInsert, RawAdd, RawRemove,
              EditItem, DeleteItem, CheckReport, MarkApplied

-----------------------------------------------------------------------------
(* What the shop keeps: rows, programs, and entries of the log.             *)

\* A session that has written anything has a COMMIT to send.
Holding ==
  \A p \in Proc :
    \/ \E i \in DOMAIN prog[p] : prog[p][i].op = "commit"
    \/ /\ \A r \in Row : holder[r] # p
       /\ \A s \in Shelf : pend[p][s] = 0
       /\ \A i \in DOMAIN prog[p] : prog[p][i].op \in {"check", "decide"}

\* What it logged as put on a shelf, it put there.
Entered ==
  \A p \in Proc, w \in Warehouse, v \in Variant :
    Seen(p, Place(w, v)) - com[Place(w, v)] >= pend[p][<<w, v>>]

\* And so has everyone who committed.
Explained ==
  \A w \in Warehouse, v \in Variant :
    com[Place(w, v)] >= Opening[Place(w, v)] + log[<<w, v>>]

LogInv == RowsStay /\ Planned /\ Holding /\ Entered /\ Explained

\* What a statement sends is of the shop, as what it is sent in front of.
LEMMA SendsPlanned ==
  ASSUME IInv, Planned, NEW p \in Proc, prog[p] # <<>>,
         NEW s \in Seq(Moving), Then(p, s)
  PROVE  /\ Planned'
         /\ \A i \in DOMAIN prog[p] : i > 1 /\ prog[p][i].op = "commit" =>
              \E k \in DOMAIN prog'[p] : prog'[p][k].op = "commit"
<1> DEFINE old == prog[p]  new == s \o Tail(old)  n == Len(s)
<1>1. prog \in [Proc -> Seq(Statement)] BY DEF IInv, ControlType
<1>2. prog' = [prog EXCEPT ![p] = new] BY DEF Then
<1>3. prog'[p] = new /\ \A q \in Proc \ {p} : prog'[q] = prog[q] BY <1>1, <1>2
<1>4. s \in Seq(Statement) /\ old \in Seq(Statement) /\ old # <<>>
  BY <1>1, MovingStatements
<1>5. /\ n \in Nat /\ Len(old) \in Nat \ {0} /\ DOMAIN new = 1 .. (n + Len(old) - 1)
      /\ \A k \in 1 .. n : new[k] = s[k]
      /\ \A k \in 2 .. Len(old) : new[k + n - 1] = old[k]
  <2> HIDE DEF old
  <2> QED BY <1>4, InFront
<1>6. DOMAIN old = 1 .. Len(old) /\ \A k \in 1 .. n : s[k] \in Moving BY <1>4
<1> HIDE DEF new, n, old
<1>7. ASSUME NEW i \in DOMAIN new, i > n
      PROVE  /\ i - n + 1 \in DOMAIN old /\ i - n + 1 > 1 /\ new[i] = old[i - n + 1]
             /\ \A k \in DOMAIN new : k > i => /\ k - n + 1 \in DOMAIN old
                                               /\ k - n + 1 > i - n + 1
                                               /\ new[k] = old[k - n + 1]
  <2>1. ASSUME NEW k \in DOMAIN new, k > n
        PROVE  k - n + 1 \in DOMAIN old /\ k - n + 1 > 1 /\ new[k] = old[k - n + 1]
    <3>1. k - n + 1 \in 2 .. Len(old) /\ k = (k - n + 1) + n - 1 BY <1>5, <2>1
    <3>2. new[(k - n + 1) + n - 1] = old[k - n + 1] BY <1>5, <3>1
    <3> QED BY <1>5, <1>6, <3>1, <3>2
  <2>2. ASSUME NEW k \in DOMAIN new, k > i PROVE k > n /\ k - n + 1 > i - n + 1
    BY <1>5, <1>7, <2>2
  <2> QED BY <1>7, <2>1, <2>2
<1>8. ASSUME NEW q \in Proc, NEW i \in DOMAIN prog'[q]
      PROVE  /\ prog'[q][i].op \in Takes \cup Puts \cup LoopOp
                                     \cup {"product", "check", "decide", "commit"}
             /\ prog'[q][i].op = "product" /\ PacksAddUp =>
                  prog'[q][i].u = prog'[q][i].v \/ Parts[prog'[q][i].u] # <<>>
             /\ prog'[q][i].op = "commit" =>
                  \A k \in DOMAIN prog'[q] : k > i => prog'[q][k].op = "decide"
             /\ prog'[q][i].op = "check" => DOMAIN prog'[q] = {1}
  <2>1. CASE q # p
    <3>1. prog'[q] = prog[q] BY <1>3, <2>1
    <3> QED BY <1>8, <3>1 DEF Planned
  <2>2. CASE q = p /\ i <= n
    <3>1. i \in 1 .. n BY <1>3, <1>5, <1>8, <2>2
    <3>2. new[i] \in Moving BY <1>5, <1>6, <3>1
    <3>3. new[i].op \in Takes \cup Puts \cup LoopOp BY <3>2 DEF Moving
    <3>4. new[i].op \notin {"product", "check", "commit"}
      BY <3>3 DEF Takes, Puts, LoopOp
    <3> QED BY <1>3, <2>2, <3>3, <3>4
  <2>3. CASE q = p /\ i > n
    <3> DEFINE j == i - n + 1
    <3>1. /\ j \in DOMAIN old /\ j > 1 /\ new[i] = old[j]
          /\ \A k \in DOMAIN new : k > i => /\ k - n + 1 \in DOMAIN old /\ k - n + 1 > j
                                            /\ new[k] = old[k - n + 1]
      BY <1>3, <1>7, <1>8, <2>3
    <3> HIDE DEF j
    <3>2. /\ old[j].op \in Takes \cup Puts \cup LoopOp
                             \cup {"product", "check", "decide", "commit"}
          /\ old[j].op = "product" /\ PacksAddUp =>
               old[j].u = old[j].v \/ Parts[old[j].u] # <<>>
          /\ old[j].op = "commit" => \A k \in DOMAIN old : k > j => old[k].op = "decide"
          /\ old[j].op = "check" => DOMAIN old = {1}
      BY <3>1 DEF Planned, old
    <3>3. old[j].op # "check" BY <3>1, <3>2
    <3> QED BY <1>3, <2>3, <3>1, <3>2, <3>3
  <2>4. q = p => i > n \/ i <= n
    <3>1. q = p => i \in Nat BY <1>3, <1>5, <1>8
    <3> QED BY <1>5, <3>1
  <2> QED BY <2>1, <2>2, <2>3, <2>4
<1>9. ASSUME NEW i \in DOMAIN old, i > 1, old[i].op = "commit"
      PROVE  \E k \in DOMAIN new : new[k].op = "commit"
  <2>1. i \in 2 .. Len(old) BY <1>5, <1>6, <1>9
  <2>2. new[i + n - 1] = old[i] BY <1>5, <2>1
  <2>3. i + n - 1 \in DOMAIN new BY <1>5, <2>1
  <2> QED BY <1>9, <2>2, <2>3
<1>10. Planned' BY <1>8 DEF Planned
<1> QED BY <1>3, <1>9, <1>10 DEF old

\* What a session changes, the others do not see.
LEMMA OthersSee ==
  ASSUME IInv, OneRowEach, NEW p \in Proc, Does(p), NEW q \in Proc \ {p}
  PROVE  /\ \A r \in Row : /\ holder'[r] = q <=> holder[r] = q
                           /\ Seen(q, r)' = Seen(q, r)
         /\ pend'[q] = pend[q]
         /\ prog'[q] = prog[q] /\ job'[q] = job[q]
<1>1. /\ holder \in [Row -> Proc \cup {Nobody}] /\ draft \in [Row -> Stock]
      /\ pend \in [Proc -> [Shelf -> Int]] /\ prog \in [Proc -> Seq(Statement)]
  BY DEF IInv, TableInv, TablesType, ControlType
<1>2. com' = com /\ prog'[q] = prog[q] /\ job' = job BY <1>1 DEF Does, Then
<1>3. CASE Still /\ UNCHANGED pend
  BY <1>2, <1>3 DEF Still, Seen
<1>4. CASE \E w \in Warehouse, v \in Variant, k \in Int, m \in Int : Writes(p, w, v, k, m)
  <2>1. PICK w \in Warehouse, v \in Variant, k \in Int, m \in Int : Writes(p, w, v, k, m)
    BY <1>4
  <2>2. pend'[q] = pend[q] BY <1>1, <2>1 DEF Writes
  <2>3. CASE Still BY <1>2, <2>2, <2>3 DEF Still, Seen
  <2>4. CASE Shifts(p, w, v, k)
    <3> DEFINE x == Place(w, v)
    <3>1. x \in Row BY PlaceIs
    <3> HIDE DEF x
    <3>2. /\ holder[x] \in {p, Nobody} /\ holder' = [holder EXCEPT ![x] = p]
          /\ draft' = [draft EXCEPT ![x] = Seen(p, x) + k]
      BY <2>4 DEF Shifts, x
    <3>3. q # Nobody BY StockConstants
    <3>4. ASSUME NEW r \in Row
          PROVE  /\ holder'[r] = q <=> holder[r] = q
                 /\ Seen(q, r)' = Seen(q, r)
      <4>1. CASE r = x BY <1>1, <1>2, <3>1, <3>2, <3>3, <4>1 DEF Seen
      <4>2. CASE r # x BY <1>1, <1>2, <3>1, <3>2, <4>2 DEF Seen
      <4> QED BY <4>1, <4>2
    <3> QED BY <1>2, <2>2, <3>4
  <2> QED BY <2>1, <2>3, <2>4 DEF Writes
<1> QED BY <1>3, <1>4 DEF Does

\* What it sees itself, on the shelf it changed.
LEMMA ShiftSees ==
  ASSUME IInv, OneRowEach, RowsStay, NEW p \in Proc, NEW w \in Warehouse, NEW v \in Variant,
         NEW k \in Int, Shifts(p, w, v, k), com' = com
  PROVE  /\ Place(w, v) \in Row
         /\ Seen(p, Place(w, v)) \in Nat /\ com[Place(w, v)] \in Nat
         /\ Seen(p, Place(w, v))' = Seen(p, Place(w, v)) + k
         /\ draft'[Place(w, v)] \in Int
         /\ \A r \in Row \ {Place(w, v)} : /\ Seen(p, r)' = Seen(p, r)
                                           /\ draft'[r] = draft[r] /\ holder'[r] = holder[r]
<1> DEFINE x == Place(w, v)
<1>1. x \in Row /\ Opening[x] # Absent BY PlaceIs
<1>2. Seen(p, x) \in Nat BY LotsIs
<1>3. /\ holder \in [Row -> Proc \cup {Nobody}] /\ draft \in [Row -> Stock]
  BY DEF IInv, TableInv, TablesType
<1>4. /\ holder' = [holder EXCEPT ![x] = p]
      /\ draft' = [draft EXCEPT ![x] = Seen(p, x) + k]
  BY DEF Shifts
<1>5. com[x] \in Nat
  <2>1. com[x] # Absent BY <1>1 DEF RowsStay
  <2>2. com[x] \in Stock /\ com[x] >= 0
    BY <1>1, <2>1 DEF IInv, TableInv, TablesType, NoNegativeStock
  <2> QED BY <2>1, <2>2 DEF Stock
<1> HIDE DEF x
<1>6. draft'[x] = Seen(p, x) + k /\ holder'[x] = p BY <1>1, <1>3, <1>4
<1>7. Seen(p, x)' = Seen(p, x) + k BY <1>6 DEF Seen
<1>8. ASSUME NEW r \in Row, r # x
      PROVE  Seen(p, r)' = Seen(p, r) /\ draft'[r] = draft[r] /\ holder'[r] = holder[r]
  BY <1>3, <1>4, <1>8 DEF Seen
<1>9. draft'[x] \in Int BY <1>2, <1>6
<1> QED BY <1>1, <1>2, <1>5, <1>7, <1>8, <1>9 DEF x

\* The shop stays what it is through a statement that moves stock.
LEMMA DoesLogs ==
  ASSUME IInv, OneRowEach, LogInv, NEW p \in Proc, Does(p)
  PROVE  LogInv'
<1> USE DEF LogInv
<1>1. PICK s \in Seq(Moving) :
        /\ Then(p, s)
        /\ \/ Still /\ UNCHANGED pend
           \/ \E w \in Warehouse, v \in Variant, k \in Int, m \in Int : Writes(p, w, v, k, m)
  BY DEF Does
<1>2. /\ com' = com /\ log' = log /\ prog[p] # <<>>
      /\ Now(p).op \notin {"check", "decide", "commit"}
  BY DEF Does
<1>3. /\ holder \in [Row -> Proc \cup {Nobody}] /\ draft \in [Row -> Stock]
      /\ pend \in [Proc -> [Shelf -> Int]] /\ com \in [Row -> Stock]
      /\ log \in [Shelf -> Int]
  BY DEF IInv, TableInv, TablesType
<1>4. /\ Planned'
      /\ \A i \in DOMAIN prog[p] : i > 1 /\ prog[p][i].op = "commit" =>
           \E k \in DOMAIN prog'[p] : prog'[p][k].op = "commit"
  BY <1>1, <1>2, SendsPlanned
<1>5. \E k \in DOMAIN prog'[p] : prog'[p][k].op = "commit"
  <2>1. 1 \in DOMAIN prog[p] /\ \A i \in DOMAIN prog[p] : i # 1 => i > 1
    <3>1. prog[p] \in Seq(Statement) BY DEF IInv, ControlType
    <3> QED BY <1>2, <3>1
  <2>2. \E i \in DOMAIN prog[p] : prog[p][i].op = "commit"
    BY <1>2, <2>1 DEF Holding, Now
  <2>3. prog[p][1].op # "commit" BY <1>2 DEF Now
  <2> QED BY <1>4, <2>1, <2>2, <2>3
<1>6. Holding'
  <2>1. ASSUME NEW q \in Proc \ {p}
        PROVE  \/ \E i \in DOMAIN prog'[q] : prog'[q][i].op = "commit"
               \/ /\ \A r \in Row : holder'[r] # q
                  /\ \A x \in Shelf : pend'[q][x] = 0
                  /\ \A i \in DOMAIN prog'[q] : prog'[q][i].op \in {"check", "decide"}
    BY OthersSee DEF Holding
  <2> QED BY <1>5, <2>1 DEF Holding
<1>7. Explained' BY <1>2 DEF Explained
<1>8. CASE Still /\ UNCHANGED pend
  <2>1. RowsStay' BY <1>2, <1>8 DEF RowsStay, Still
  <2>2. Entered' BY <1>2, <1>8 DEF Entered, Still, Seen
  <2> QED BY <1>4, <1>6, <1>7, <2>1, <2>2
<1>9. ASSUME NEW w \in Warehouse, NEW v \in Variant, NEW k \in Int, NEW m \in Int,
             Writes(p, w, v, k, m)
      PROVE  LogInv'
  <2> DEFINE x == Place(w, v)
  <2>0. \A a \in Warehouse, b \in Variant :
          /\ Place(a, b) \in Row /\ Place(a, b)[1] = a /\ Place(a, b)[2] = b
          /\ <<a, b>> \in Shelf
    BY PlaceIs DEF Shelf
  <2>1. RowsStay'
    <3>1. CASE Still BY <1>2, <3>1 DEF RowsStay, Still
    <3>2. CASE Shifts(p, w, v, k)
      <4>1. /\ x \in Row /\ draft'[x] \in Int
            /\ \A r \in Row \ {x} : draft'[r] = draft[r]
        BY <1>2, <3>2, ShiftSees
      <4>2. Opening[x] # Absent BY PlaceIs
      <4> QED BY <1>2, <4>1, <4>2, StockConstants DEF RowsStay
    <3> QED BY <1>9, <3>1, <3>2 DEF Writes
  <2>2. ASSUME NEW q \in Proc, NEW a \in Warehouse, NEW b \in Variant
        PROVE  Seen(q, Place(a, b))' - com'[Place(a, b)] >= pend'[q][<<a, b>>]
    <3>1. Place(a, b) \in Row /\ <<a, b>> \in Shelf BY <2>0
    <3>2. CASE q # p
      <4>1. Seen(q, Place(a, b))' = Seen(q, Place(a, b)) /\ pend'[q] = pend[q]
        BY <3>1, <3>2, OthersSee
      <4> QED BY <1>2, <4>1 DEF Entered
    <3>3. CASE q = p
      <4> DEFINE y == Place(a, b)
      <4>1. /\ Seen(p, y) \in Nat /\ com[y] \in Int /\ pend[p][<<a, b>>] \in Int
            /\ Seen(p, y) - com[y] >= pend[p][<<a, b>>]
        <5>1. Seen(p, y) \in Nat BY LotsIs
        <5>2. com[y] # Absent BY <3>1, PlaceIs DEF RowsStay
        <5>3. com[y] \in Int BY <1>3, <3>1, <5>2 DEF Stock
        <5> QED BY <1>3, <3>1, <5>1, <5>3 DEF Entered
      <4>2. CASE <<a, b>> # <<w, v>>
        <5>1. y # x
          <6>1. y[1] = a /\ y[2] = b /\ x[1] = w /\ x[2] = v BY <2>0
          <6> HIDE DEF x, y
          <6> QED BY <4>2, <6>1
        <5>2. Seen(p, y)' = Seen(p, y)
          <6>1. CASE Still BY <1>2, <6>1 DEF Still, Seen
          <6>2. CASE Shifts(p, w, v, k) BY <1>2, <3>1, <5>1, <6>2, ShiftSees
          <6> QED BY <1>9, <6>1, <6>2 DEF Writes
        <5>3. pend'[p][<<a, b>>] = pend[p][<<a, b>>]
          BY <1>3, <1>9, <3>1, <4>2 DEF Writes
        <5> QED BY <1>2, <3>3, <4>1, <5>2, <5>3
      <4>3. CASE <<a, b>> = <<w, v>>
        <5>1. pend'[p][<<w, v>>] = pend[p][<<w, v>>] + m /\ m <= k
          BY <1>3, <1>9, <3>1, <4>3 DEF Writes
        <5>2. Seen(p, x)' = Seen(p, x) + k
          <6>1. CASE Still /\ k = 0
            <7>1. Seen(p, x)' = Seen(p, x) BY <1>2, <6>1 DEF Still, Seen
            <7> QED BY <4>1, <4>3, <6>1, <7>1
          <6>2. CASE Shifts(p, w, v, k) BY <1>2, <6>2, ShiftSees
          <6> QED BY <1>9, <6>1, <6>2 DEF Writes
        <5>3. a = w /\ b = v BY <4>3
        <5> HIDE DEF x, y
        <5>4. x = y BY <5>3 DEF x, y
        <5>5. \A f, g, h, i, j \in Int : f - g >= h /\ i <= j => (f + j) - g >= h + i
          OBVIOUS
        <5>6. (Seen(p, x) + k) - com[x] >= pend[p][<<w, v>>] + m
          BY <4>1, <5>1, <5>3, <5>4, <5>5
        <5> QED BY <1>2, <3>3, <5>1, <5>2, <5>3, <5>4, <5>6 DEF y
      <4> QED BY <4>2, <4>3
    <3> QED BY <3>2, <3>3
  <2>3. Entered' BY <2>2 DEF Entered
  <2> QED BY <1>4, <1>6, <1>7, <2>1, <2>3
<1> QED BY <1>1, <1>8, <1>9

-----------------------------------------------------------------------------
(* Programs of the shop.                                                    *)

\* A statement in front of the COMMIT.
Working(x) ==
  /\ x.op \in Takes \cup Puts \cup LoopOp \cup {"product"}
  /\ x.op = "product" /\ PacksAddUp => x.u = x.v \/ Parts[x.u] # <<>>

OfShop(q) ==
  \A i \in DOMAIN q :
    /\ q[i].op \in Takes \cup Puts \cup LoopOp \cup {"product", "check", "decide", "commit"}
    /\ q[i].op = "product" /\ PacksAddUp => q[i].u = q[i].v \/ Parts[q[i].u] # <<>>
    /\ q[i].op = "commit" => \A k \in DOMAIN q : k > i => q[k].op = "decide"
    /\ q[i].op = "check" => DOMAIN q = {1}

\* It writes nothing, or has a COMMIT to send.
Ready(q) ==
  \/ \E i \in DOMAIN q : q[i].op = "commit"
  \/ \A i \in DOMAIN q : q[i].op \in {"check", "decide"}

\* The programs of all sessions are those of the shop.
LEMMA PlannedAll == Planned <=> \A p \in Proc : OfShop(prog[p])
BY DEF Planned, OfShop

\* Where the statements are when b follows a.
LEMMA Behind ==
  ASSUME NEW a \in Seq(Statement), NEW b \in Seq(Statement)
  PROVE  /\ a \o b \in Seq(Statement) /\ Len(a) \in Nat /\ Len(b) \in Nat
         /\ Len(a \o b) = Len(a) + Len(b)
         /\ DOMAIN a = 1 .. Len(a) /\ DOMAIN b = 1 .. Len(b)
         /\ DOMAIN (a \o b) = 1 .. (Len(a) + Len(b))
         /\ \A i \in 1 .. Len(a) : (a \o b)[i] = a[i]
         /\ \A i \in 1 .. Len(b) : (a \o b)[Len(a) + i] = b[i]
OBVIOUS

\* Work, then the COMMIT, then the decision.
LEMMA ClosedOfShop ==
  ASSUME NEW s \in Seq(Statement), \A i \in DOMAIN s : Working(s[i]),
         NEW t \in Seq(Statement), \A i \in DOMAIN t : t[i].op = "decide"
  PROVE  OfShop((s \o Ends) \o t) /\ Ready((s \o Ends) \o t)
<1> DEFINE m == Len(s)  n == Len(t)  q == (s \o Ends) \o t
<1>1. m \in Nat /\ n \in Nat /\ DOMAIN s = 1 .. m /\ DOMAIN t = 1 .. n OBVIOUS
<1>2. /\ Ends \in Seq(Statement) /\ Len(Ends) = 1 /\ Ends[1].op = "commit"
  BY EndsType DEF Ends
<1>3. /\ s \o Ends \in Seq(Statement) /\ Len(s \o Ends) = m + 1
      /\ \A i \in 1 .. m : (s \o Ends)[i] = s[i]
      /\ (s \o Ends)[m + 1] = Ends[1]
  <2>1. /\ s \o Ends \in Seq(Statement) /\ Len(s \o Ends) = m + Len(Ends)
        /\ \A i \in 1 .. m : (s \o Ends)[i] = s[i]
        /\ \A i \in 1 .. Len(Ends) : (s \o Ends)[m + i] = Ends[i]
    BY <1>2, Behind
  <2> HIDE DEF m
  <2>2. 1 \in 1 .. Len(Ends) BY <1>2
  <2> QED BY <1>2, <2>1, <2>2
<1>4. /\ DOMAIN q = 1 .. (m + 1 + n)
      /\ \A i \in 1 .. (m + 1) : q[i] = (s \o Ends)[i]
      /\ \A i \in 1 .. n : q[(m + 1) + i] = t[i]
  <2> DEFINE a == s \o Ends
  <2>1. a \in Seq(Statement) /\ Len(a) = m + 1 BY <1>3
  <2> HIDE DEF a
  <2>2. /\ DOMAIN (a \o t) = 1 .. (Len(a) + n)
        /\ \A i \in 1 .. Len(a) : (a \o t)[i] = a[i]
        /\ \A i \in 1 .. n : (a \o t)[Len(a) + i] = t[i]
    BY <2>1, Behind
  <2>3. q = a \o t BY DEF a
  <2> HIDE DEF m, n, q
  <2> QED BY <2>1, <2>2, <2>3 DEF a
<1> HIDE DEF m, n, q
<1>5. \A i \in 1 .. m : q[i] = s[i] /\ Working(q[i])
  <2> SUFFICES ASSUME NEW i \in 1 .. m PROVE q[i] = s[i] /\ Working(q[i]) OBVIOUS
  <2>1. i \in 1 .. (m + 1) BY <1>1
  <2>2. q[i] = s[i] BY <1>3, <1>4, <2>1
  <2> QED BY <1>1, <2>2
<1>6. q[m + 1].op = "commit"
  <2>1. m + 1 \in 1 .. (m + 1) BY <1>1
  <2> QED BY <1>2, <1>3, <1>4, <2>1
<1>7. ASSUME NEW i \in DOMAIN q, i > m + 1 PROVE q[i].op = "decide"
  <2>1. i - (m + 1) \in 1 .. n /\ i = (m + 1) + (i - (m + 1)) BY <1>1, <1>4, <1>7
  <2> QED BY <1>1, <1>4, <2>1
<1>8. \A i \in DOMAIN q : i \in 1 .. m \/ i = m + 1 \/ i > m + 1
  <2> SUFFICES ASSUME NEW i \in DOMAIN q PROVE i \in 1 .. m \/ i = m + 1 \/ i > m + 1
    OBVIOUS
  <2>1. i \in Int /\ i >= 1 BY <1>1, <1>4
  <2> QED BY <1>1, <2>1
<1>9. m + 1 \in DOMAIN q BY <1>1, <1>4
<1>10. Ready(q) BY <1>6, <1>9 DEF Ready
<1>11. OfShop(q)
  <2> SUFFICES ASSUME NEW i \in DOMAIN q
               PROVE  /\ q[i].op \in Takes \cup Puts \cup LoopOp
                                      \cup {"product", "check", "decide", "commit"}
                      /\ q[i].op = "product" /\ PacksAddUp =>
                           q[i].u = q[i].v \/ Parts[q[i].u] # <<>>
                      /\ q[i].op = "commit" => \A k \in DOMAIN q : k > i => q[k].op = "decide"
                      /\ q[i].op = "check" => DOMAIN q = {1}
    BY DEF OfShop
  <2>1. CASE i \in 1 .. m
    <3>1. Working(q[i]) BY <1>5, <2>1
    <3> QED BY <3>1 DEF Working, Takes, Puts, LoopOp
  <2>2. CASE i = m + 1 BY <1>6, <1>7, <2>2
  <2>3. CASE i > m + 1
    <3>1. q[i].op = "decide" BY <1>7, <2>3
    <3> QED BY <3>1
  <2> QED BY <1>8, <2>1, <2>2, <2>3
<1> QED BY <1>10, <1>11 DEF q

\* The products of a transfer, each to be taken from something.
LEMMA UnpackWorking ==
  ASSUME NEW w \in Warehouse, NEW t, t.to \in Warehouse, t.products \in Seq(Product),
         PacksAddUp => Breakable(t.products)
  PROVE  /\ Unpack(w, t) \in Seq(Statement)
         /\ \A i \in DOMAIN Unpack(w, t) : Working(Unpack(w, t)[i])
<1> DEFINE q == Unpack(w, t)
<1>1. q \in Seq(Statement) BY UnpackType
<1>2. DOMAIN q = DOMAIN t.products BY DEF Unpack
<1>3. ASSUME NEW i \in DOMAIN q PROVE Working(q[i])
  <2>1. q[i].op = "product" /\ q[i].u = t.products[i].u /\ q[i].v = t.products[i].v
    BY <1>2, <1>3 DEF Unpack
  <2>2. PacksAddUp => q[i].u = q[i].v \/ Parts[q[i].u] # <<>>
    BY <1>2, <1>3, <2>1 DEF Breakable
  <2> HIDE DEF q
  <2> QED BY <2>1, <2>2 DEF Working
<1> QED BY <1>1, <1>3

\* Statements that move stock come in front of the COMMIT.
LEMMA MovingWorking ==
  ASSUME NEW q \in Seq(Moving)
  PROVE  q \in Seq(Statement) /\ \A i \in DOMAIN q : Working(q[i])
<1>1. \A i \in DOMAIN q : q[i] \in Moving OBVIOUS
<1> QED BY <1>1, MovingStatements DEF Working, Moving, Takes, Puts, LoopOp

\* What the handlers of the shop send.
LEMMA HandlerOfShop ==
  ASSUME ShopJobs, NEW j \in Job
  PROVE  OfShop(Handler(j)) /\ Ready(Handler(j))
<1>0. <<>> \in Seq(Statement) /\ \A i \in DOMAIN <<>> : FALSE OBVIOUS
<1>1. j \in SaleJob \cup BulkJob \cup ShelfJob \cup MoveJob \cup DecideJob \cup AdjustJob
  BY ServiceConstants
<1>2. j.kind \in {"sale", "move", "lote", "decide"} BY DEF ShopJobs
<1>3. ASSUME NEW s \in Seq(Statement), \A i \in DOMAIN s : Working(s[i])
      PROVE  OfShop(s \o Ends) /\ Ready(s \o Ends)
  <2>1. s \o Ends \in Seq(Statement) BY EndsType
  <2>2. (s \o Ends) \o <<>> = s \o Ends BY <2>1
  <2>3. OfShop((s \o Ends) \o <<>>) /\ Ready((s \o Ends) \o <<>>)
    BY <1>0, <1>3, ClosedOfShop
  <2> QED BY <2>2, <2>3
<1>4. CASE j.kind = "sale"
  <2>1. j \in SaleJob BY <1>1, <1>4 DEF BulkJob, ShelfJob, MoveJob, DecideJob, AdjustJob
  <2>2. j.w \in Warehouse /\ j.items \in Seq(Amount) BY <2>1 DEF SaleJob
  <2> DEFINE s == Each("sell", j.w, j.items, 1)
  <2>3. "sell" \in Takes /\ 1 \in Nat \ {0} BY DEF Takes
  <2>4. s \in Seq(Moving) BY <2>2, <2>3, EachMoving
  <2>5. Handler(j) = s \o Ends BY <1>4 DEF Handler
  <2> HIDE DEF s
  <2> QED BY <1>3, <2>4, <2>5, MovingWorking
<1>5. CASE j.kind = "move"
  <2>1. j \in MoveJob BY <1>1, <1>5 DEF BulkJob, ShelfJob, SaleJob, DecideJob, AdjustJob
  <2>2. j.from \in Warehouse /\ j.to \in Warehouse /\ j.products \in Seq(Product)
    BY <2>1 DEF MoveJob
  <2>3. PacksAddUp => Breakable(j.products) BY <1>5 DEF PacksAddUp
  <2>4. Handler(j) = Unpack(j.from, j) \o Ends BY <1>5 DEF Handler
  <2> QED BY <1>3, <2>2, <2>3, <2>4, UnpackWorking
<1>6. CASE j.kind = "lote"
  <2>1. j \in ShelfJob BY <1>1, <1>6 DEF BulkJob, MoveJob, SaleJob, DecideJob, AdjustJob
  <2>2. j.w \in Warehouse /\ j.v \in Variant /\ j.n \in Nat \ {0} BY <2>1 DEF ShelfJob
  <2>3. Parts[j.v] \in Seq(Amount) BY <2>2, ServiceConstants
  <2> DEFINE a == <<On("take", j.w, j.v, j.n)>>  b == Each("probe", j.w, Parts[j.v], j.n)
  <2>4. a \in Seq(Moving) /\ b \in Seq(Moving)
    BY <2>2, <2>3, OnMoving, EachMoving DEF Takes, Puts
  <2>5. Handler(j) = (a \o b) \o Ends BY <1>6 DEF Handler
  <2> HIDE DEF a, b
  <2>6. a \o b \in Seq(Moving) BY <2>4
  <2> QED BY <1>3, <2>5, <2>6, MovingWorking
<1>7. CASE j.kind = "decide"
  <2> DEFINE x == [op |-> "check", doc |-> j.doc, to |-> j.status]
  <2>1. Handler(j) = <<x>> BY <1>7 DEF Handler
  <2>2. x.op = "check" OBVIOUS
  <2> HIDE DEF x
  <2>3. DOMAIN <<x>> = {1} /\ <<x>>[1] = x OBVIOUS
  <2> QED BY <2>1, <2>2, <2>3 DEF OfShop, Ready
<1> QED BY <1>2, <1>4, <1>5, <1>6, <1>7

\* What is left when the head has been sent.
LEMMA TailOfShop ==
  ASSUME NEW q \in Seq(Statement), q # <<>>, OfShop(q)
  PROVE  /\ OfShop(Tail(q))
         /\ \A i \in DOMAIN Tail(q) : /\ i \in Nat /\ i + 1 \in DOMAIN q /\ i + 1 > 1
                                      /\ Tail(q)[i] = q[i + 1]
         /\ \A i \in DOMAIN q : i # 1 => /\ i - 1 \in DOMAIN Tail(q)
                                         /\ Tail(q)[i - 1] = q[i]
<1>1. /\ Len(q) \in Nat \ {0} /\ DOMAIN q = 1 .. Len(q)
      /\ DOMAIN Tail(q) = 1 .. (Len(q) - 1)
      /\ \A k \in 1 .. (Len(q) - 1) : Tail(q)[k] = q[k + 1]
  <2>1. Len(q) \in Nat \ {0} /\ DOMAIN q = 1 .. Len(q) OBVIOUS
  <2>2. Len(Tail(q)) = Len(q) - 1 /\ Tail(q) \in Seq(Statement) OBVIOUS
  <2>3. \A k \in 1 .. (Len(q) - 1) : Tail(q)[k] = q[k + 1] OBVIOUS
  <2> QED BY <2>1, <2>2, <2>3
<1> DEFINE t == Tail(q)
<1> HIDE DEF t
<1>2. \A i \in DOMAIN t : /\ i \in Nat /\ i + 1 \in DOMAIN q /\ i + 1 > 1
                          /\ t[i] = q[i + 1]
  BY <1>1 DEF t
<1>3. \A i \in DOMAIN q : i # 1 => i - 1 \in DOMAIN t /\ t[i - 1] = q[i]
  <2> SUFFICES ASSUME NEW i \in DOMAIN q, i # 1 PROVE i - 1 \in DOMAIN t /\ t[i - 1] = q[i]
    OBVIOUS
  <2>1. i - 1 \in 1 .. (Len(q) - 1) /\ (i - 1) + 1 = i BY <1>1
  <2> QED BY <1>1, <2>1 DEF t
<1>4. OfShop(t)
  <2> SUFFICES ASSUME NEW i \in DOMAIN t
               PROVE  /\ t[i].op \in Takes \cup Puts \cup LoopOp
                                      \cup {"product", "check", "decide", "commit"}
                      /\ t[i].op = "product" /\ PacksAddUp =>
                           t[i].u = t[i].v \/ Parts[t[i].u] # <<>>
                      /\ t[i].op = "commit" => \A k \in DOMAIN t : k > i => t[k].op = "decide"
                      /\ t[i].op = "check" => DOMAIN t = {1}
    BY DEF OfShop
  <2> DEFINE j == i + 1
  <2>1. j \in DOMAIN q /\ j > 1 /\ t[i] = q[j] BY <1>2
  <2>2. \A k \in DOMAIN t : k > i => k + 1 \in DOMAIN q /\ k + 1 > j /\ t[k] = q[k + 1]
    BY <1>2
  <2> HIDE DEF j
  <2>3. /\ q[j].op \in Takes \cup Puts \cup LoopOp
                         \cup {"product", "check", "decide", "commit"}
        /\ q[j].op = "product" /\ PacksAddUp => q[j].u = q[j].v \/ Parts[q[j].u] # <<>>
        /\ q[j].op = "commit" => \A k \in DOMAIN q : k > j => q[k].op = "decide"
        /\ q[j].op = "check" => DOMAIN q = {1}
    BY <2>1 DEF OfShop
  <2>4. q[j].op # "check" BY <2>1, <2>3
  <2> QED BY <2>1, <2>2, <2>3, <2>4
<1> QED BY <1>2, <1>3, <1>4 DEF t

\* A session that holds no row and has logged nothing.
Clean(p) == (\A r \in Row : holder[r] # p) /\ \A x \in Shelf : pend[p][x] = 0

\* A statement that changes no row and no entry.
LEMMA QuietLogs ==
  ASSUME IInv, LogInv, NEW p \in Proc, NEW q, prog' = [prog EXCEPT ![p] = q],
         UNCHANGED tables, OfShop(q),
         (\E i \in DOMAIN q : q[i].op = "commit") \/ (Ready(q) /\ Clean(p))
  PROVE  LogInv'
<1>1. /\ com' = com /\ draft' = draft /\ holder' = holder /\ log' = log /\ pend' = pend
  BY DEF tables
<1>2. prog \in [Proc -> Seq(Statement)] BY DEF IInv, ControlType
<1>3. prog'[p] = q /\ \A o \in Proc \ {p} : prog'[o] = prog[o] BY <1>2
<1>4. RowsStay' /\ Entered' /\ Explained'
  BY <1>1 DEF LogInv, RowsStay, Entered, Explained, Seen
<1>5. Planned'
  <2>1. ASSUME NEW o \in Proc PROVE OfShop(prog'[o])
    BY <1>3, PlannedAll DEF LogInv
  <2> QED BY <2>1 DEF Planned, OfShop
<1>6. Holding'
  <2> SUFFICES ASSUME NEW o \in Proc
               PROVE  \/ \E i \in DOMAIN prog'[o] : prog'[o][i].op = "commit"
                      \/ /\ \A r \in Row : holder'[r] # o
                         /\ \A s \in Shelf : pend'[o][s] = 0
                         /\ \A i \in DOMAIN prog'[o] : prog'[o][i].op \in {"check", "decide"}
    BY DEF Holding
  <2>1. CASE o # p
    <3>1. prog'[o] = prog[o] BY <1>3, <2>1
    <3> QED BY <1>1, <3>1 DEF LogInv, Holding
  <2>2. CASE o = p BY <1>1, <1>3, <2>2 DEF Ready, Clean
  <2> QED BY <2>1, <2>2
<1> QED BY <1>4, <1>5, <1>6 DEF LogInv

\* A request comes to a session that holds nothing.
LEMMA ReceiveLogs ==
  ASSUME IInv, ShopJobs, LogInv, NEW p \in Proc, Receive(p)
  PROVE  LogInv'
<1>1. PICK j \in Job : prog' = [prog EXCEPT ![p] = Handler(j)] BY DEF Receive
<1>2. UNCHANGED tables /\ prog[p] = <<>> BY DEF Receive
<1>3. OfShop(Handler(j)) /\ Ready(Handler(j)) BY HandlerOfShop
<1>4. Clean(p)
  <2>1. DOMAIN prog[p] = {} BY <1>2
  <2> QED BY <2>1 DEF LogInv, Holding, Clean
<1> QED BY <1>1, <1>2, <1>3, <1>4, QuietLogs

\* A request is over: what it wrote is undone.
LEMMA AbortLogs ==
  ASSUME IInv, OneRowEach, LogInv, NEW p \in Proc, Abort(p)
  PROVE  LogInv'
<1>1. /\ holder \in [Row -> Proc \cup {Nobody}] /\ draft \in [Row -> Stock]
      /\ pend \in [Proc -> [Shelf -> Int]] /\ prog \in [Proc -> Seq(Statement)]
      /\ com \in [Row -> Stock]
  BY DEF IInv, TableInv, TablesType, ControlType
<1>2. /\ com' = com /\ log' = log
      /\ draft' = [r \in Row |-> IF holder[r] = p THEN com[r] ELSE draft[r]]
      /\ holder' = [r \in Row |-> IF holder[r] = p THEN Nobody ELSE holder[r]]
      /\ pend' = [pend EXCEPT ![p] = NoEntries]
      /\ prog' = [prog EXCEPT ![p] = <<>>]
  BY DEF Abort, Rollback, Release
<1>3. Nobody \notin Proc BY StockConstants
<1>4. pend'[p] = NoEntries /\ prog'[p] = <<>>
      /\ \A o \in Proc \ {p} : prog'[o] = prog[o] /\ pend'[o] = pend[o]
  BY <1>1, <1>2
<1>5. \A r \in Row : holder'[r] # p BY <1>2, <1>3
<1>6. \A o \in Proc \ {p}, r \in Row : /\ holder'[r] = o <=> holder[r] = o
                                       /\ Seen(o, r)' = Seen(o, r)
  BY <1>2, <1>3 DEF Seen
<1>7. \A r \in Row : Seen(p, r)' = com[r] BY <1>2, <1>5 DEF Seen
<1>8. RowsStay' BY <1>2 DEF LogInv, RowsStay
<1>9. Explained' BY <1>2 DEF LogInv, Explained
<1>10. Planned'
  <2>1. ASSUME NEW o \in Proc PROVE OfShop(prog'[o])
    <3>1. CASE o = p
      <4>1. DOMAIN prog'[o] = {} BY <1>4, <3>1
      <4> QED BY <4>1 DEF OfShop
    <3>2. CASE o # p BY <1>4, <3>2, PlannedAll DEF LogInv
    <3> QED BY <3>1, <3>2
  <2> QED BY <2>1 DEF Planned, OfShop
<1>11. Holding'
  <2> SUFFICES ASSUME NEW o \in Proc
               PROVE  \/ \E i \in DOMAIN prog'[o] : prog'[o][i].op = "commit"
                      \/ /\ \A r \in Row : holder'[r] # o
                         /\ \A s \in Shelf : pend'[o][s] = 0
                         /\ \A i \in DOMAIN prog'[o] : prog'[o][i].op \in {"check", "decide"}
    BY DEF Holding
  <2>1. CASE o # p
    <3>1. prog'[o] = prog[o] /\ pend'[o] = pend[o] BY <1>4, <2>1
    <3> QED BY <1>6, <2>1, <3>1 DEF LogInv, Holding
  <2>2. CASE o = p
    <3>1. DOMAIN prog'[o] = {} BY <1>4, <2>2
    <3>2. \A s \in Shelf : pend'[o][s] = 0 BY <1>4, <2>2 DEF NoEntries
    <3> QED BY <1>5, <2>2, <3>1, <3>2
  <2> QED BY <2>1, <2>2
<1>12. ASSUME NEW o \in Proc, NEW w \in Warehouse, NEW v \in Variant
       PROVE  Seen(o, Place(w, v))' - com'[Place(w, v)] >= pend'[o][<<w, v>>]
  <2> DEFINE x == Place(w, v)
  <2>1. x \in Row /\ <<w, v>> \in Shelf BY PlaceIs DEF Shelf
  <2>2. CASE o # p
    <3>1. Seen(o, x)' = Seen(o, x) /\ pend'[o] = pend[o] BY <1>4, <1>6, <2>1, <2>2
    <3>2. Seen(o, x) - com[x] >= pend[o][<<w, v>>] BY DEF LogInv, Entered
    <3> QED BY <1>2, <3>1, <3>2
  <2>3. CASE o = p
    <3>1. Seen(o, x)' = com[x] /\ pend'[o][<<w, v>>] = 0
      BY <1>4, <1>7, <2>1, <2>3 DEF NoEntries
    <3>2. com[x] \in Int
      <4>1. com[x] # Absent BY <2>1, PlaceIs DEF LogInv, RowsStay
      <4> QED BY <1>1, <2>1, <4>1 DEF Stock
    <3> HIDE DEF x
    <3>3. com[x] - com[x] >= 0 BY <3>2
    <3> QED BY <1>2, <3>1, <3>3 DEF x
  <2> QED BY <2>2, <2>3
<1>13. Entered' BY <1>12 DEF Entered
<1> QED BY <1>8, <1>9, <1>10, <1>11, <1>13 DEF LogInv

\* COMMIT: what a session sees is what all see, and its entries are in the log.
LEMMA CommitLogs ==
  ASSUME IInv, OneRowEach, LogInv, NEW p \in Proc, CommitJob(p)
  PROVE  LogInv'
<1>1. /\ holder \in [Row -> Proc \cup {Nobody}] /\ draft \in [Row -> Stock]
      /\ pend \in [Proc -> [Shelf -> Int]] /\ prog \in [Proc -> Seq(Statement)]
      /\ com \in [Row -> Stock] /\ log \in [Shelf -> Int]
  BY DEF IInv, TableInv, TablesType, ControlType
<1>2. /\ com' = [r \in Row |-> Seen(p, r)]
      /\ log' = [s \in Shelf |-> log[s] + pend[p][s]]
      /\ draft' = draft
      /\ holder' = [r \in Row |-> IF holder[r] = p THEN Nobody ELSE holder[r]]
      /\ pend' = [pend EXCEPT ![p] = NoEntries]
      /\ prog' = [prog EXCEPT ![p] = Tail(prog[p])]
      /\ prog[p] # <<>> /\ Now(p).op = "commit"
  BY DEF CommitJob, Committed, Commit, Release, At, Now
<1>3. Nobody \notin Proc BY StockConstants
<1>4. pend'[p] = NoEntries /\ prog'[p] = Tail(prog[p])
      /\ \A o \in Proc \ {p} : prog'[o] = prog[o] /\ pend'[o] = pend[o]
  BY <1>1, <1>2
<1>5. \A r \in Row : holder'[r] # p BY <1>2, <1>3
<1>6. \A o \in Proc \ {p}, r \in Row : /\ holder'[r] = o <=> holder[r] = o
                                       /\ holder[r] = o => /\ Seen(o, r)' = draft[r]
                                                           /\ Seen(o, r) = draft[r]
                                                           /\ com'[r] = com[r]
                                       /\ holder[r] # o => /\ Seen(o, r)' = com'[r]
                                                           /\ Seen(o, r) = com[r]
  BY <1>2, <1>3 DEF Seen
<1>7. \A r \in Row : Seen(p, r)' = com'[r] /\ com'[r] = Seen(p, r)
  BY <1>2, <1>5 DEF Seen
<1>8. prog[p] \in Seq(Statement) /\ OfShop(prog[p]) BY <1>1, PlannedAll DEF LogInv
<1>9. 1 \in DOMAIN prog[p] BY <1>2, <1>8
<1>10. /\ OfShop(Tail(prog[p]))
       /\ \A i \in DOMAIN Tail(prog[p]) : Tail(prog[p])[i].op = "decide"
  <2>1. \A k \in DOMAIN prog[p] : k > 1 => prog[p][k].op = "decide"
    BY <1>2, <1>8, <1>9 DEF OfShop, Now
  <2> QED BY <1>2, <1>8, <2>1, TailOfShop
<1>11. Planned'
  <2>1. ASSUME NEW o \in Proc PROVE OfShop(prog'[o])
    BY <1>4, <1>10, PlannedAll DEF LogInv
  <2> QED BY <2>1 DEF Planned, OfShop
<1>12. Holding'
  <2> SUFFICES ASSUME NEW o \in Proc
               PROVE  \/ \E i \in DOMAIN prog'[o] : prog'[o][i].op = "commit"
                      \/ /\ \A r \in Row : holder'[r] # o
                         /\ \A s \in Shelf : pend'[o][s] = 0
                         /\ \A i \in DOMAIN prog'[o] : prog'[o][i].op \in {"check", "decide"}
    BY DEF Holding
  <2>1. CASE o # p
    <3>1. prog'[o] = prog[o] /\ pend'[o] = pend[o] BY <1>4, <2>1
    <3> QED BY <1>6, <2>1, <3>1 DEF LogInv, Holding
  <2>2. CASE o = p
    <3>1. \A s \in Shelf : pend'[o][s] = 0 BY <1>4, <2>2 DEF NoEntries
    <3> QED BY <1>4, <1>5, <1>10, <2>2, <3>1
  <2> QED BY <2>1, <2>2
<1>13. RowsStay' BY <1>2 DEF LogInv, RowsStay, Seen
<1>14. ASSUME NEW w \in Warehouse, NEW v \in Variant
       PROVE  /\ Place(w, v) \in Row /\ <<w, v>> \in Shelf
              /\ Seen(p, Place(w, v)) \in Int /\ com[Place(w, v)] \in Int
              /\ com'[Place(w, v)] \in Int
              /\ log[<<w, v>>] \in Int
              /\ \A o \in Proc : pend[o][<<w, v>>] \in Int
              /\ Opening[Place(w, v)] \in Int
  <2> DEFINE x == Place(w, v)
  <2>1. x \in Row /\ <<w, v>> \in Shelf /\ Opening[x] # Absent BY PlaceIs DEF Shelf
  <2>2. Seen(p, x) \in Nat BY LotsIs DEF LogInv
  <2>3. com[x] # Absent BY <2>1 DEF LogInv, RowsStay
  <2>4. com[x] \in Int BY <1>1, <2>1, <2>3 DEF Stock
  <2>5. com'[x] \in Int BY <1>7, <2>1, <2>2
  <2>6. Opening[x] \in Int BY <2>1, ServiceConstants
  <2>7. log[<<w, v>>] \in Int BY <1>1, <2>1
  <2>8. \A o \in Proc : pend[o][<<w, v>>] \in Int BY <1>1, <2>1
  <2> QED BY <2>1, <2>2, <2>4, <2>5, <2>6, <2>7, <2>8
<1>15. Explained'
  <2> SUFFICES ASSUME NEW w \in Warehouse, NEW v \in Variant
               PROVE  com'[Place(w, v)] >= Opening[Place(w, v)] + log'[<<w, v>>]
    BY DEF Explained
  <2> DEFINE x == Place(w, v)  e == pend[p][<<w, v>>]  l == log[<<w, v>>]
  <2>1. com'[x] = Seen(p, x) /\ log'[<<w, v>>] = l + e BY <1>2, <1>7, <1>14
  <2>2. Seen(p, x) - com[x] >= e /\ com[x] >= Opening[x] + l
    BY DEF LogInv, Entered, Explained
  <2>3. /\ Seen(p, x) \in Int /\ com[x] \in Int /\ e \in Int /\ l \in Int
        /\ Opening[x] \in Int
    BY <1>14
  <2> HIDE DEF x, e, l
  <2>4. Seen(p, x) >= Opening[x] + (l + e) BY <2>2, <2>3
  <2> QED BY <2>1, <2>4 DEF x
<1>16. Entered'
  <2> SUFFICES ASSUME NEW o \in Proc, NEW w \in Warehouse, NEW v \in Variant
               PROVE  Seen(o, Place(w, v))' - com'[Place(w, v)] >= pend'[o][<<w, v>>]
    BY DEF Entered
  <2> DEFINE x == Place(w, v)
  <2>0. /\ x \in Row /\ <<w, v>> \in Shelf /\ com'[x] \in Int /\ com[x] \in Int
        /\ pend[o][<<w, v>>] \in Int
    BY <1>14
  <2>1. Seen(o, x) - com[x] >= pend[o][<<w, v>>] BY DEF LogInv, Entered
  <2> HIDE DEF x
  <2>2. com'[x] - com'[x] = 0 /\ com[x] - com[x] = 0 BY <2>0
  <2>3. CASE o = p
    <3>1. pend'[o][<<w, v>>] = 0 BY <1>4, <2>0, <2>3 DEF NoEntries
    <3>2. Seen(o, x)' = com'[x] BY <1>7, <2>0, <2>3
    <3> QED BY <2>2, <3>1, <3>2 DEF x
  <2>4. CASE o # p /\ holder[x] = o
    <3>1. pend'[o] = pend[o] BY <1>4, <2>4
    <3>2. Seen(o, x)' = Seen(o, x) /\ com'[x] = com[x] BY <1>6, <2>0, <2>4
    <3> QED BY <2>1, <3>1, <3>2 DEF x
  <2>5. CASE o # p /\ holder[x] # o
    <3>1. pend'[o] = pend[o] BY <1>4, <2>5
    <3>2. Seen(o, x)' = com'[x] /\ Seen(o, x) = com[x] BY <1>6, <2>0, <2>5
    <3>3. 0 >= pend[o][<<w, v>>] BY <2>1, <2>2, <3>2
    <3> QED BY <2>2, <3>1, <3>2, <3>3 DEF x
  <2> QED BY <2>3, <2>4, <2>5
<1> QED BY <1>11, <1>12, <1>13, <1>15, <1>16 DEF LogInv

\* Nothing in front, and nothing behind.
LEMMA NoneInFront ==
  ASSUME NEW q \in Seq(Statement)
  PROVE  <<>> \o q = q /\ q \o <<>> = q
OBVIOUS

\* Behind the only statement there is none.
LEMMA OnlyOne ==
  ASSUME NEW q \in Seq(Statement), DOMAIN q = {1}
  PROVE  Tail(q) = <<>>
<1>1. Len(q) = 1
  <2>1. Len(q) \in Nat /\ DOMAIN q = 1 .. Len(q) OBVIOUS
  <2>2. 1 \in 1 .. Len(q) /\ 2 \notin 1 .. Len(q) BY <2>1
  <2> QED BY <2>1, <2>2
<1>2. ASSUME NEW S, NEW t \in Seq(S), Len(t) = 0 PROVE t = <<>> BY ONLY <1>2
<1>3. ASSUME NEW S, NEW t \in Seq(S), Len(t) = 1
      PROVE  Tail(t) \in Seq(S) /\ Len(Tail(t)) = 0
  BY ONLY <1>3
<1>4. Tail(q) \in Seq(Statement) /\ Len(Tail(q)) = 0 BY <1>1, <1>3
<1> QED BY ONLY <1>2, <1>4

\* The decision is written when the move has been committed.
LEMMA DecideLogs ==
  ASSUME IInv, LogInv, NEW p \in Proc, Decide(p)
  PROVE  LogInv'
<1> DEFINE q == prog[p]
<1>1. q \in Seq(Statement) /\ q # <<>> /\ q[1].op = "decide"
  BY DEF IInv, ControlType, Decide, At
<1>2. prog' = [prog EXCEPT ![p] = Tail(q)] /\ UNCHANGED tables
  <2>1. prog' = [prog EXCEPT ![p] = <<>> \o Tail(prog[p])] /\ UNCHANGED tables
    BY DEF Decide, Then
  <2>2. Tail(q) \in Seq(Statement) BY <1>1
  <2>3. <<>> \o Tail(q) = Tail(q) BY <2>2, NoneInFront
  <2> QED BY <2>1, <2>3
<1>3. OfShop(q) BY PlannedAll DEF LogInv
<1> HIDE DEF q
<1>4. /\ OfShop(Tail(q))
      /\ \A i \in DOMAIN Tail(q) : i + 1 \in DOMAIN q /\ Tail(q)[i] = q[i + 1]
      /\ \A i \in DOMAIN q : i # 1 => i - 1 \in DOMAIN Tail(q) /\ Tail(q)[i - 1] = q[i]
  BY <1>1, <1>3, TailOfShop
<1>5. CASE \E i \in DOMAIN q : q[i].op = "commit"
  <2>1. PICK i \in DOMAIN q : q[i].op = "commit" BY <1>5
  <2>2. i # 1 BY <1>1, <2>1
  <2>3. \E k \in DOMAIN Tail(q) : Tail(q)[k].op = "commit" BY <1>4, <2>1, <2>2
  <2> QED BY <1>2, <1>4, <2>3, QuietLogs
<1>6. CASE ~ \E i \in DOMAIN q : q[i].op = "commit"
  <2>1. Clean(p) /\ \A i \in DOMAIN q : q[i].op \in {"check", "decide"}
    BY <1>6 DEF LogInv, Holding, Clean, q
  <2>2. Ready(Tail(q)) BY <1>4, <2>1 DEF Ready
  <2> QED BY <1>2, <1>4, <2>1, <2>2, QuietLogs
<1> QED BY <1>5, <1>6

\* A document is read before anything is written.
LEMMA CheckLogs ==
  ASSUME IInv, OneRowEach, LogInv, NEW p \in Proc, CheckRequest(p)
  PROVE  LogInv'
<1> DEFINE s == Now(p)  t == RequestOf[s.doc]  d == [s EXCEPT !.op = "decide"]
           moves == Unpack(t.from, t)
<1>1. CASE Abort(p) BY <1>1, AbortLogs
<1>2. CASE ~Abort(p)
  <2>1. /\ prog[p] \in Seq(Statement) /\ prog[p] # <<>> /\ s.op = "check"
        /\ s \in Statement
    BY HeadType DEF IInv, ControlType, CheckRequest, At, Now
  <2>2. /\ Then(p, (IF s.to = "approved" THEN moves \o Ends ELSE <<>>) \o <<d>>)
        /\ UNCHANGED tables
    BY <1>2 DEF CheckRequest, ReadsOnly
  <2>3. OfShop(prog[p]) BY PlannedAll DEF LogInv
  <2>4. DOMAIN prog[p] = {1}
    <3>1. 1 \in DOMAIN prog[p] /\ prog[p][1].op = "check" BY <2>1 DEF Now
    <3> QED BY <2>3, <3>1 DEF OfShop
  <2>5. Tail(prog[p]) = <<>> BY <2>1, <2>4, OnlyOne
  <2>6. Clean(p)
    <3>1. \A i \in DOMAIN prog[p] : prog[p][i].op = "check" BY <2>1, <2>4 DEF Now
    <3> QED BY <3>1 DEF LogInv, Holding, Clean
  <2>7. /\ s.doc \in Request /\ s.to \in Decision
        /\ s = [op |-> "check", doc |-> s.doc, to |-> s.to]
    <3> HIDE DEF s
    <3>1. s \in [op : {"check", "decide"}, doc : Request, to : Decision]
      BY <2>1 DEF Statement, ShelfOp, LoopStatement, LoopOp
    <3> QED BY <2>1, <3>1
  <2>8. d = [op |-> "decide", doc |-> s.doc, to |-> s.to]
    <3> HIDE DEF s
    <3> QED BY <2>7
  <2>9. d \in Statement /\ d.op = "decide"
    <3> HIDE DEF s, d
    <3> QED BY <2>7, <2>8 DEF Statement
  <2>10. /\ t.from \in Warehouse /\ t.to \in Warehouse /\ t.products \in Seq(Product)
         /\ PacksAddUp => Breakable(t.products)
    <3>1. t \in Transfer BY <2>7, ServiceConstants
    <3>2. PacksAddUp => Breakable(t.products) BY <2>7 DEF PacksAddUp
    <3> HIDE DEF t
    <3> QED BY <3>1, <3>2 DEF Transfer
  <2>11. moves \in Seq(Statement) /\ \A i \in DOMAIN moves : Working(moves[i])
    BY <2>10, UnpackWorking
  <2> DEFINE c == (IF s.to = "approved" THEN moves \o Ends ELSE <<>>) \o <<d>>
  <2>12. prog' = [prog EXCEPT ![p] = c \o Tail(prog[p])] BY <2>2 DEF Then
  <2>13. c = IF s.to = "approved" THEN (moves \o Ends) \o <<d>> ELSE <<>> \o <<d>> OBVIOUS
  <2> HIDE DEF s, d, moves, c
  <2>14. /\ <<d>> \in Seq(Statement) /\ DOMAIN <<d>> = {1} /\ <<d>>[1] = d
         /\ <<>> \o <<d>> = <<d>>
    BY <2>9
  <2>15. c \in Seq(Statement) /\ OfShop(c) /\ Ready(c)
    <3>1. CASE s.to = "approved"
      <4>1. \A i \in DOMAIN <<d>> : <<d>>[i].op = "decide" BY <2>9, <2>14
      <4>2. OfShop((moves \o Ends) \o <<d>>) /\ Ready((moves \o Ends) \o <<d>>)
        BY <2>11, <2>14, <4>1, ClosedOfShop
      <4>3. moves \o Ends \in Seq(Statement) BY <2>11, EndsType
      <4>4. (moves \o Ends) \o <<d>> \in Seq(Statement) BY <2>14, <4>3
      <4> QED BY <2>13, <3>1, <4>2, <4>4
    <3>2. CASE s.to # "approved"
      <4>1. c = <<d>> BY <2>13, <2>14, <3>2
      <4>2. OfShop(<<d>>) BY <2>9, <2>14 DEF OfShop
      <4>3. Ready(<<d>>) BY <2>9, <2>14 DEF Ready
      <4> QED BY <2>14, <4>1, <4>2, <4>3
    <3> QED BY <3>1, <3>2
  <2>16. c \o Tail(prog[p]) = c BY <2>5, <2>15, NoneInFront
  <2>17. prog' = [prog EXCEPT ![p] = c] BY <2>12, <2>16
  <2> QED BY <2>2, <2>6, <2>15, <2>17, QuietLogs
<1> QED BY <1>1, <1>2

\* The shop opens with an empty log.
LEMMA InitLogs == OneRowEach /\ Init => LogInv
<1> SUFFICES ASSUME OneRowEach, Init PROVE LogInv
  OBVIOUS
<1>1. /\ com = Opening /\ draft = Opening /\ holder = [r \in Row |-> Nobody]
      /\ log = NoEntries /\ pend = [p \in Proc |-> NoEntries]
      /\ prog = [p \in Proc |-> <<>>]
  BY DEF Init
<1>2. \A p \in Proc : DOMAIN prog[p] = {} /\ pend[p] = NoEntries BY <1>1
<1>3. \A p \in Proc, r \in Row : holder[r] # p BY <1>1, StockConstants
<1>4. RowsStay BY <1>1 DEF RowsStay
<1>5. Planned BY <1>2 DEF Planned
<1>6. Holding BY <1>2, <1>3 DEF Holding, NoEntries
<1>7. ASSUME NEW w \in Warehouse, NEW v \in Variant
      PROVE  /\ Opening[Place(w, v)] \in Int /\ Place(w, v) \in Row /\ <<w, v>> \in Shelf
             /\ Opening[Place(w, v)] >= Opening[Place(w, v)] + 0
             /\ Opening[Place(w, v)] - Opening[Place(w, v)] >= 0
  <2> DEFINE x == Place(w, v)
  <2>1. x \in Row /\ Opening[x] # Absent /\ <<w, v>> \in Shelf BY PlaceIs DEF Shelf
  <2>2. Opening[x] \in Int BY <2>1, ServiceConstants
  <2> HIDE DEF x
  <2>3. Opening[x] >= Opening[x] + 0 /\ Opening[x] - Opening[x] >= 0 BY <2>2
  <2> QED BY <2>1, <2>2, <2>3 DEF x
<1>8. Entered
  <2> SUFFICES ASSUME NEW p \in Proc, NEW w \in Warehouse, NEW v \in Variant
               PROVE  Seen(p, Place(w, v)) - com[Place(w, v)] >= pend[p][<<w, v>>]
    BY DEF Entered
  <2>1. pend[p][<<w, v>>] = 0 BY <1>2, <1>7 DEF NoEntries
  <2>2. Seen(p, Place(w, v)) = com[Place(w, v)] BY <1>3, <1>7 DEF Seen
  <2> QED BY <1>1, <1>7, <2>1, <2>2
<1>9. Explained BY <1>1, <1>7 DEF Explained, NoEntries
<1> QED BY <1>4, <1>5, <1>6, <1>8, <1>9 DEF LogInv

\* Every step of the shop keeps it.
LEMMA NextLogs ==
  OneRowEach /\ ShopJobs /\ IInv /\ LogInv /\ [Next]_vars => LogInv'
<1> SUFFICES ASSUME OneRowEach, ShopJobs, IInv, LogInv, [Next]_vars PROVE LogInv'
  OBVIOUS
<1>1. CASE UNCHANGED vars
  <2>1. com' = com /\ draft' = draft /\ holder' = holder /\ log' = log /\ pend' = pend
        /\ prog' = prog
    BY <1>1 DEF vars, tables
  <2> QED BY <2>1 DEF LogInv, RowsStay, Planned, Holding, Entered, Explained, Seen
<1>2. ASSUME NEW p \in Proc, Step(p) PROVE LogInv'
  <2>1. RowsStay /\ Planned BY DEF LogInv
  <2>2. CASE Sale(p) BY <2>1, <2>2, SaleDoes, DoesLogs, AbortLogs
  <2>3. CASE Move(p) BY <2>1, <2>3, MoveDoes, DoesLogs, AbortLogs
  <2>4. CASE Raw(p) BY <2>1, <2>4, RawNever
  <2>5. CASE Document(p) BY <2>1, <2>5, RawNever, CheckLogs, DecideLogs DEF Document
  <2>6. CASE CommitJob(p) BY <2>6, CommitLogs
  <2>7. CASE DeadlockVictim(p) BY <2>7, AbortLogs DEF DeadlockVictim
  <2> QED BY <1>2, <2>2, <2>3, <2>4, <2>5, <2>6, <2>7 DEF Step
<1>3. ASSUME NEW p \in Proc, Fail(p) PROVE LogInv' BY <1>3, AbortLogs DEF Fail
<1> QED BY <1>1, <1>2, <1>3, ReceiveLogs DEF Next, Rest

\* What is on a shelf is what is in its row.
LEMMA OnShelfIs ==
  ASSUME OneRowEach, NEW table, table \in [Row -> Stock],
         \A r \in Row : table[r] = Absent <=> Opening[r] = Absent,
         NEW w \in Warehouse, NEW v \in Variant
  PROVE  /\ OnShelf(table, <<w, v>>) = table[Place(w, v)]
         /\ table[Place(w, v)] \in Int
<1> DEFINE x == Place(w, v)
           R == {r \in Row : r[1] = w /\ r[2] = v /\ table[r] # Absent}
           f == [r \in R |-> table[r]]
<1>1. x \in Row /\ Opening[x] # Absent BY PlaceIs
<1>2. table[x] \in Int BY <1>1 DEF Stock
<1>3. R = {x} BY <1>1, PlaceIs
<1>4. OnShelf(table, <<w, v>>) = SumFunctionOnSet(f, {x})
  <2>1. OnShelf(table, <<w, v>>) = SumFunction(f) BY DEF OnShelf
  <2>2. DOMAIN f = {x} BY <1>3
  <2> HIDE DEF f
  <2> QED BY <2>1, <2>2 DEF SumFunction
<1>5. f[x] = table[x] BY <1>3
<1> HIDE DEF f, x
<1>6. SumFunctionOnSet(f, {x}) = f[x] + SumFunctionOnSet(f, {x} \ {x})
  BY <1>2, <1>5, FS_Singleton, SumSplits
<1>7. {x} \ {x} = {} OBVIOUS
<1>8. SumFunctionOnSet(f, {x}) = table[x] BY <1>2, <1>5, <1>6, <1>7, SumOfNone
<1> QED BY <1>2, <1>4, <1>8 DEF x

\* In a shop with one row on every shelf that sells, moves and breaks up what
\* there is, the movement log never says more is on a shelf than there is,
\* whatever the requests and their failures are interleaved with: a session
\* logs no more than it puts there, sees its own row until it commits, and
\* publishes both together.
THEOREM LogNeverOverstates == OneRowEach /\ ShopJobs => (Spec => []LogCoversStock)
<1> SUFFICES ASSUME OneRowEach, ShopJobs PROVE Spec => []LogCoversStock
  OBVIOUS
<1>1. IInv /\ LogInv => LogCoversStock
  <2> SUFFICES ASSUME IInv, LogInv, NEW s \in Shelf
               PROVE  OnShelf(com, s) >= OnShelf(Opening, s) + log[s]
    BY DEF LogCoversStock
  <2>1. PICK w \in Warehouse, v \in Variant : s = <<w, v>> BY DEF Shelf
  <2>2. com \in [Row -> Stock] BY DEF IInv, TableInv, TablesType
  <2>3. Opening \in [Row -> Stock] BY ServiceConstants DEF Stock
  <2>4. OnShelf(com, s) = com[Place(w, v)]
    BY <2>1, <2>2, OnShelfIs DEF LogInv, RowsStay
  <2>5. OnShelf(Opening, s) = Opening[Place(w, v)] BY <2>1, <2>3, OnShelfIs
  <2> QED BY <2>1, <2>4, <2>5 DEF LogInv, Explained
<1>2. OneRowEach /\ ShopJobs OBVIOUS
<1> QED
  BY <1>1, <1>2, InitIInv, NextIInv, InitLogs, NextLogs, PTL DEF Spec

-----------------------------------------------------------------------------
(* Units of a leaf: on the shelves, under way and sold.                     *)

\* The leaf units of a row.
Held(table, leaf) ==
  [r \in Row |-> IF table[r] = Absent THEN 0 ELSE table[r] * Weight(r[2], leaf)]

\* Those a session has put on the row of a shelf, or taken away.
Change(p, leaf) ==
  [r \in Row |-> IF Opening[r] = Absent THEN 0
                 ELSE (Seen(p, r) - com[r]) * Weight(r[2], leaf)]

Gain(p, leaf) == SumFunctionOnSet(Change(p, leaf), Row)

\* Those the customer it serves has ordered.
Ordered(p, leaf) ==
  IF job[p] \in Job /\ job[p].kind = "sale" THEN Made(job[p].items, leaf) ELSE 0

\* A session owes the shelves no more than its customer is to get.
Afloat ==
  \A p \in Proc, leaf \in Leaf :
    Gain(p, leaf) + Owed(prog[p], leaf) + Ordered(p, leaf) >= 0

\* The units of a table are those of all its rows.
LEMMA UnitsAre ==
  ASSUME IsFiniteSet(Row), NEW table, table \in [Row -> Stock], NEW leaf
  PROVE  /\ \A r \in Row : Held(table, leaf)[r] \in Int
         /\ Units(table, leaf) = SumFunctionOnSet(Held(table, leaf), Row)
         /\ Units(table, leaf) \in Int
<1> DEFINE R == {r \in Row : table[r] # Absent}
           f == [r \in R |-> table[r] * Weight(r[2], leaf)]
           h == Held(table, leaf)
<1>1. ASSUME NEW r \in R PROVE f[r] \in Int /\ h[r] = f[r]
  <2>1. r \in Row /\ table[r] \in Int BY DEF Stock
  <2>2. r[2] \in Variant BY <2>1 DEF Row
  <2>3. table[r] * Weight(r[2], leaf) \in Int BY <2>1, <2>2, WeightType, TimesType
  <2> QED BY <2>3 DEF Held
<1>2. \A r \in Row \ R : h[r] = 0 BY DEF Held
<1>3. R \in SUBSET Row OBVIOUS
<1>4. Units(table, leaf) = SumFunctionOnSet(f, R)
  <2>1. DOMAIN f = R OBVIOUS
  <2> QED BY <2>1 DEF Units, SumFunction
<1> HIDE DEF f, R, h
<1>5. SumFunctionOnSet(f, R) = SumFunctionOnSet(h, Row)
  BY ONLY IsFiniteSet(Row), <1>1, <1>2, <1>3, SumRestrict
<1>6. \A r \in Row : h[r] \in Int BY <1>1, <1>2
<1>7. SumFunctionOnSet(h, Row) \in Int BY <1>6, SumType
<1> QED BY <1>4, <1>5, <1>6, <1>7 DEF h

\* A change is a number of units.
LEMMA ChangeType ==
  ASSUME IInv, RowsStay, NEW p \in Proc, NEW leaf, NEW r \in Row
  PROVE  /\ Change(p, leaf)[r] \in Int
         /\ r[2] \in Variant /\ Weight(r[2], leaf) \in Nat
         /\ Opening[r] # Absent => /\ Seen(p, r) \in Int /\ com[r] \in Int
                                   /\ com[r] # Absent /\ Seen(p, r) # Absent
<1>1. r[2] \in Variant BY DEF Row
<1>2. Weight(r[2], leaf) \in Nat BY <1>1, WeightType
<1>3. ASSUME Opening[r] # Absent
      PROVE  /\ Seen(p, r) \in Int /\ com[r] \in Int
             /\ com[r] # Absent /\ Seen(p, r) # Absent
  <2>1. Seen(p, r) # Absent /\ com[r] # Absent BY <1>3 DEF RowsStay, Seen
  <2>2. com[r] \in Stock BY DEF IInv, TableInv, TablesType
  <2>3. Seen(p, r) \in Stock BY SeenType DEF IInv
  <2> QED BY <2>1, <2>2, <2>3 DEF Stock
<1>4. Change(p, leaf)[r] \in Int
  <2>1. CASE Opening[r] = Absent BY <2>1 DEF Change
  <2>2. CASE Opening[r] # Absent
    <3>1. Seen(p, r) - com[r] \in Int BY <1>3, <2>2
    <3>2. (Seen(p, r) - com[r]) * Weight(r[2], leaf) \in Int BY <1>2, <3>1, TimesType
    <3> QED BY <2>2, <3>2 DEF Change
  <2> QED BY <2>1, <2>2
<1> QED BY <1>1, <1>2, <1>3, <1>4

\* What a session has put on the shelves is a number.
LEMMA GainType ==
  ASSUME IInv, RowsStay, IsFiniteSet(Row), NEW p \in Proc, NEW leaf
  PROVE  Gain(p, leaf) \in Int
<1>1. \A r \in Row : Change(p, leaf)[r] \in Int BY ChangeType
<1> DEFINE f == Change(p, leaf)
<1>2. \A r \in Row : f[r] \in Int BY <1>1
<1> HIDE DEF f
<1>3. SumFunctionOnSet(f, Row) \in Int BY <1>2, SumType
<1> QED BY <1>3 DEF Gain, f

\* A session that holds no row has changed none.
LEMMA GainClean ==
  ASSUME IInv, RowsStay, IsFiniteSet(Row), NEW p \in Proc,
         \A r \in Row : holder[r] # p, NEW leaf
  PROVE  Gain(p, leaf) = 0
<1> DEFINE f == Change(p, leaf)
<1>1. ASSUME NEW r \in Row PROVE f[r] = 0
  <2>1. CASE Opening[r] = Absent BY <2>1 DEF Change
  <2>2. CASE Opening[r] # Absent
    <3>1. com[r] \in Int /\ Weight(r[2], leaf) \in Nat BY <2>2, ChangeType
    <3>2. Seen(p, r) = com[r] BY DEF Seen
    <3>3. \A a \in Int, b \in Nat : (a - a) * b = 0 OBVIOUS
    <3>4. (com[r] - com[r]) * Weight(r[2], leaf) = 0 BY <3>1, <3>3
    <3> QED BY <2>2, <3>2, <3>4 DEF Change
  <2> QED BY <2>1, <2>2
<1> HIDE DEF f
<1>2. SumFunctionOnSet(f, Row) = 0 BY <1>1, SumOfZeros
<1> QED BY <1>2 DEF Gain, f

\* A session that sees the same changes has gained the same.
LEMMA GainSame ==
  ASSUME IInv, RowsStay, IsFiniteSet(Row), NEW p \in Proc,
         \A r \in Row : Opening[r] # Absent => Seen(p, r)' - com'[r] = Seen(p, r) - com[r],
         NEW leaf
  PROVE  Gain(p, leaf)' = Gain(p, leaf)
<1> DEFINE f == Change(p, leaf)
           g == [r \in Row |-> IF Opening[r] = Absent THEN 0
                               ELSE (Seen(p, r)' - com'[r]) * Weight(r[2], leaf)]
<1>1. \A r \in Row : f[r] \in Int BY ChangeType
<1>2. \A r \in Row : f[r] = g[r] BY DEF Change
<1>3. Gain(p, leaf)' = SumFunctionOnSet(g, Row) BY DEF Gain, Change
<1>4. Gain(p, leaf) = SumFunctionOnSet(f, Row) BY DEF Gain
<1> HIDE DEF f, g
<1>5. SumFunctionOnSet(f, Row) = SumFunctionOnSet(g, Row) BY <1>1, <1>2, SumSame
<1> QED BY <1>3, <1>4, <1>5

\* One that changes a shelf has gained that.
LEMMA GainShifts ==
  ASSUME IInv, OneRowEach, RowsStay, IsFiniteSet(Row), NEW p \in Proc,
         NEW w \in Warehouse, NEW v \in Variant, NEW k \in Int,
         Shifts(p, w, v, k), com' = com, NEW leaf
  PROVE  Gain(p, leaf)' = Gain(p, leaf) + k * Weight(v, leaf)
<1> DEFINE x == Place(w, v)
           f == Change(p, leaf)
           g == [r \in Row |-> IF Opening[r] = Absent THEN 0
                               ELSE (Seen(p, r)' - com'[r]) * Weight(r[2], leaf)]
<1>1. /\ x \in Row /\ Seen(p, x) \in Nat /\ com[x] \in Nat
      /\ Seen(p, x)' = Seen(p, x) + k
      /\ \A r \in Row \ {x} : Seen(p, r)' = Seen(p, r)
  BY ShiftSees
<1>2. x[2] = v /\ Opening[x] # Absent BY PlaceIs
<1>3. Weight(v, leaf) \in Nat BY WeightType
<1>4. \A r \in Row : f[r] \in Int BY ChangeType
<1> HIDE DEF x
<1>5. f[x] = (Seen(p, x) - com[x]) * Weight(v, leaf) BY <1>1, <1>2 DEF Change
<1>6. g[x] = ((Seen(p, x) + k) - com[x]) * Weight(v, leaf) BY <1>1, <1>2
<1>7. \A a, c, m, n \in Int : ((a + m) - c) * n - (a - c) * n = m * n OBVIOUS
<1>8. g[x] - f[x] = k * Weight(v, leaf)
  <2>1. /\ Seen(p, x) \in Int /\ com[x] \in Int /\ k \in Int /\ Weight(v, leaf) \in Int
    BY <1>1, <1>3
  <2> QED BY ONLY <1>5, <1>6, <1>7, <2>1
<1>9. g[x] \in Int
  <2>1. (Seen(p, x) + k) - com[x] \in Int BY <1>1
  <2> HIDE DEF g
  <2> QED BY <1>3, <1>6, <2>1, TimesType
<1>10. \A r \in Row \ {x} : g[r] = f[r] BY <1>1 DEF Change
<1>11. Gain(p, leaf)' = SumFunctionOnSet(g, Row) BY DEF Gain, Change
<1>12. Gain(p, leaf) = SumFunctionOnSet(f, Row) BY DEF Gain
<1> HIDE DEF f, g
<1>13. \A y \in Row : f[y] \in Int /\ g[y] \in Int BY <1>4, <1>9, <1>10
<1>14. SumFunctionOnSet(g, Row) = SumFunctionOnSet(f, Row) + (g[x] - f[x])
  BY ONLY IsFiniteSet(Row), <1>1, <1>10, <1>13, SumChanges
<1> QED BY <1>8, <1>11, <1>12, <1>14

\* What a session has gained, all gain when it commits.
LEMMA UnitsPublished ==
  ASSUME IInv, RowsStay, RowsStay', IInv', IsFiniteSet(Row), NEW p \in Proc,
         com' = [r \in Row |-> Seen(p, r)], NEW leaf
  PROVE  Units(com, leaf)' = Units(com, leaf) + Gain(p, leaf)
<1> DEFINE f == Held(com, leaf)  g == Change(p, leaf)  h == Held(com', leaf)
<1>1. com \in [Row -> Stock] /\ com' \in [Row -> Stock] BY DEF IInv, TableInv, TablesType
<1>2. /\ \A r \in Row : f[r] \in Int
      /\ Units(com, leaf) = SumFunctionOnSet(f, Row)
  BY <1>1, UnitsAre
<1>3. Units(com', leaf) = SumFunctionOnSet(h, Row) BY <1>1, UnitsAre
<1>4. ASSUME NEW r \in Row PROVE g[r] \in Int /\ h[r] = f[r] + g[r]
  <2>1. com'[r] = Seen(p, r) OBVIOUS
  <2>2. g[r] \in Int /\ Weight(r[2], leaf) \in Nat BY ChangeType
  <2>3. CASE Opening[r] = Absent
    <3>1. com[r] = Absent /\ com'[r] = Absent BY <2>3 DEF RowsStay
    <3> QED BY <2>2, <2>3, <3>1 DEF Held, Change
  <2>4. CASE Opening[r] # Absent
    <3>1. Seen(p, r) \in Int /\ com[r] \in Int /\ com[r] # Absent /\ Seen(p, r) # Absent
      BY <2>4, ChangeType
    <3>2. /\ f[r] = com[r] * Weight(r[2], leaf)
          /\ g[r] = (Seen(p, r) - com[r]) * Weight(r[2], leaf)
          /\ h[r] = Seen(p, r) * Weight(r[2], leaf)
      BY <2>1, <2>4, <3>1 DEF Held, Change
    <3>3. \A a, b, c \in Int : a * c = b * c + (a - b) * c OBVIOUS
    <3>4. Weight(r[2], leaf) \in Int BY <2>2
    <3>5. h[r] = f[r] + g[r] BY ONLY <3>1, <3>2, <3>3, <3>4
    <3> QED BY <2>2, <3>5
  <2> QED BY <2>3, <2>4
<1>5. Units(com, leaf)' = Units(com', leaf) BY DEF Units
<1>6. Gain(p, leaf) = SumFunctionOnSet(g, Row) BY DEF Gain
<1> HIDE DEF f, g, h
<1>7. \A r \in Row : f[r] \in Int /\ g[r] \in Int /\ h[r] = f[r] + g[r] BY <1>2, <1>4
<1>8. SumFunctionOnSet(h, Row) = SumFunctionOnSet(f, Row) + SumFunctionOnSet(g, Row)
  BY ONLY IsFiniteSet(Row), <1>7, SumAdds
<1> QED BY <1>2, <1>3, <1>5, <1>6, <1>8

\* The items of a sale.
LEMMA SaleItems ==
  ASSUME NEW j \in Job, j.kind = "sale"
  PROVE  /\ j.w \in Warehouse /\ j.items \in Seq(Amount)
         /\ \A leaf : Made(j.items, leaf) \in Nat
<1>1. j \in SaleJob
  BY ServiceConstants DEF BulkJob, ShelfJob, MoveJob, DecideJob, AdjustJob
<1>2. j.w \in Warehouse /\ j.items \in Seq(Amount) BY <1>1 DEF SaleJob
<1> QED BY <1>2, MadeType

\* What a session has been asked to sell is a number.
LEMMA OrderedType ==
  ASSUME NEW p \in Proc, NEW leaf
  PROVE  Ordered(p, leaf) \in Nat
BY SaleItems DEF Ordered

\* What is sold, of every sale what was ordered as often as it was committed.
LEMMA SoldType ==
  ASSUME ControlType, IsFiniteSet(Job), NEW leaf
  PROVE  UnitsSold(leaf) \in Nat
<1> DEFINE S == {j \in Job : j.kind = "sale"}
           f == [j \in S |-> commits[j] * Made(j.items, leaf)]
<1>1. IsFiniteSet(S) BY FS_Subset
<1>2. ASSUME NEW j \in S PROVE f[j] \in Nat
  <2>1. commits[j] \in Nat /\ Made(j.items, leaf) \in Nat BY SaleItems DEF ControlType
  <2>2. commits[j] * Made(j.items, leaf) \in Nat BY <2>1, TimesNatural
  <2> QED BY <2>2
<1>3. DOMAIN f = S OBVIOUS
<1>4. UnitsSold(leaf) = SumFunctionOnSet(f, S) BY <1>3 DEF UnitsSold, SumFunction
<1> HIDE DEF f, S
<1> QED BY <1>1, <1>2, <1>4, SumNatural

\* A COMMIT sells what the customer has ordered.
LEMMA SoldGrows ==
  ASSUME ControlType, IsFiniteSet(Job), NEW p \in Proc, NEW leaf,
         commits' = [commits EXCEPT ![job[p]] = @ + 1]
  PROVE  UnitsSold(leaf)' = UnitsSold(leaf) + Ordered(p, leaf)
<1> DEFINE m == job[p]
           S == {j \in Job : j.kind = "sale"}
           f == [j \in S |-> commits[j] * Made(j.items, leaf)]
           g == [j \in S |-> commits'[j] * Made(j.items, leaf)]
<1>1. commits \in [Job -> Nat] BY DEF ControlType
<1>2. commits' = [commits EXCEPT ![m] = @ + 1] OBVIOUS
<1> HIDE DEF m
<1>3. \A j \in Job : /\ commits'[j] \in Nat
                     /\ j # m => commits'[j] = commits[j]
                     /\ j = m => commits'[j] = commits[j] + 1
  BY <1>1, <1>2
<1>4. IsFiniteSet(S) BY FS_Subset
<1>5. ASSUME NEW j \in S
      PROVE  /\ f[j] \in Int /\ g[j] \in Int
             /\ j # m => g[j] = f[j]
             /\ j = m => g[j] - f[j] = Made(j.items, leaf)
  <2>1. Made(j.items, leaf) \in Nat /\ commits[j] \in Nat /\ commits'[j] \in Nat
    BY <1>1, <1>3, SaleItems
  <2>2. f[j] = commits[j] * Made(j.items, leaf) /\ g[j] = commits'[j] * Made(j.items, leaf)
    OBVIOUS
  <2>3. f[j] \in Int /\ g[j] \in Int BY <2>1, <2>2, TimesType
  <2>4. \A a, b \in Nat : (a + 1) * b - a * b = b OBVIOUS
  <2>5. j = m => commits'[j] = commits[j] + 1 BY <1>3
  <2>6. j # m => commits'[j] = commits[j] BY <1>3
  <2> HIDE DEF f, g
  <2> QED BY <2>1, <2>2, <2>3, <2>4, <2>5, <2>6
<1>6. DOMAIN f = S /\ DOMAIN g = S OBVIOUS
<1>7. UnitsSold(leaf) = SumFunctionOnSet(f, S) BY <1>6 DEF UnitsSold, SumFunction
<1>8. UnitsSold(leaf)' = SumFunctionOnSet(g, S) BY <1>6 DEF UnitsSold, SumFunction
<1>9. m \in S <=> (m \in Job /\ m.kind = "sale") OBVIOUS
<1>10. Ordered(p, leaf) = IF m \in S THEN Made(m.items, leaf) ELSE 0
  BY <1>9 DEF Ordered, m
<1> HIDE DEF f, g, S
<1>11. \A j \in S : f[j] \in Int /\ g[j] \in Int BY <1>5
<1>12. SumFunctionOnSet(f, S) \in Int /\ SumFunctionOnSet(g, S) \in Int
  BY <1>4, <1>11, SumType
<1>13. CASE m \in S
  <2>1. \A j \in S \ {m} : g[j] = f[j] BY <1>5
  <2>2. SumFunctionOnSet(g, S) = SumFunctionOnSet(f, S) + (g[m] - f[m])
    BY ONLY <1>4, <1>11, <1>13, <2>1, SumChanges
  <2>3. g[m] - f[m] = Made(m.items, leaf) BY <1>5, <1>13
  <2> QED BY <1>7, <1>8, <1>10, <1>13, <2>2, <2>3
<1>14. CASE m \notin S
  <2>1. \A j \in S : f[j] \in Int /\ f[j] = g[j] BY <1>5, <1>14
  <2>2. SumFunctionOnSet(f, S) = SumFunctionOnSet(g, S) BY ONLY <1>4, <2>1, SumSame
  <2> QED BY <1>7, <1>8, <1>10, <1>12, <1>14, <2>2
<1> QED BY <1>13, <1>14

\* A program that moves nothing owes nothing.
LEMMA OwedIdle ==
  ASSUME NEW q \in Seq(Statement), NEW leaf,
         \A i \in DOMAIN q : q[i].op \in LoopOp \cup {"product", "check", "decide", "commit"}
  PROVE  Owed(q, leaf) = 0
<1> DEFINE f == [i \in DOMAIN q |-> Effect(q[i], leaf)]
<1>1. \A i \in DOMAIN q : f[i] = 0 BY DEF Effect, LoopOp
<1>2. IsFiniteSet(DOMAIN q)
  <2>1. DOMAIN q = 1 .. Len(q) /\ Len(q) \in Nat OBVIOUS
  <2> QED BY <2>1, FS_Interval
<1>3. Owed(q, leaf) = SumFunctionOnSet(f, DOMAIN q) BY DEF Owed
<1> HIDE DEF f
<1> QED BY <1>1, <1>2, <1>3, SumOfZeros

\* A COMMIT owes nothing, and adds nothing to what is sent before it.
LEMMA OwedEnds ==
  ASSUME NEW q \in Seq(Statement), NEW leaf
  PROVE  Owed(q \o Ends, leaf) = Owed(q, leaf)
<1>1. /\ Ends \in Seq(Statement)
      /\ \A i \in DOMAIN Ends : Ends[i].op \in LoopOp \cup {"product", "check", "decide", "commit"}
  BY EndsType DEF Ends
<1>2. Owed(Ends, leaf) = 0 BY <1>1, OwedIdle
<1>3. Owed(q, leaf) \in Int BY OwedType
<1> QED BY <1>1, <1>2, <1>3, OwedBoth

\* The products of a transfer owe nothing until they are taken.
LEMMA OwedUnpack ==
  ASSUME NEW w \in Warehouse, NEW t, t.to \in Warehouse, t.products \in Seq(Product),
         NEW leaf
  PROVE  Owed(Unpack(w, t), leaf) = 0
<1>1. Unpack(w, t) \in Seq(Statement) BY UnpackType
<1>2. \A i \in DOMAIN Unpack(w, t) : Unpack(w, t)[i].op = "product" BY DEF Unpack
<1> QED BY <1>1, <1>2, OwedIdle

\* A request owes what its customer is to get.
LEMMA HandlerOwes ==
  ASSUME ShopJobs, PacksAddUp, NEW j \in Job, Accepted(j), NEW leaf \in Leaf
  PROVE  Owed(Handler(j), leaf) + (IF j.kind = "sale" THEN Made(j.items, leaf) ELSE 0) = 0
<1>1. j \in SaleJob \cup BulkJob \cup ShelfJob \cup MoveJob \cup DecideJob \cup AdjustJob
  BY ServiceConstants
<1>2. j.kind \in {"sale", "move", "lote", "decide"} BY DEF ShopJobs
<1>3. CASE j.kind = "sale"
  <2>1. j.w \in Warehouse /\ j.items \in Seq(Amount) /\ Made(j.items, leaf) \in Nat
    BY <1>3, SaleItems
  <2> DEFINE s == Each("sell", j.w, j.items, 1)
  <2>2. "sell" \in Takes /\ "sell" \in Takes \cup Puts /\ 1 \in Nat \ {0} BY DEF Takes
  <2>3. s \in Seq(Statement) BY <2>1, <2>2, EachMoving
  <2>4. Owed(s, leaf) = -(1 * Made(j.items, leaf)) BY <2>1, <2>2, EachOwes
  <2>5. Handler(j) = s \o Ends BY <1>3 DEF Handler
  <2> HIDE DEF s
  <2>6. Owed(Handler(j), leaf) = -(1 * Made(j.items, leaf)) BY <2>3, <2>4, <2>5, OwedEnds
  <2>7. \A a \in Nat : -(1 * a) + a = 0 OBVIOUS
  <2> QED BY <1>3, <2>1, <2>6, <2>7
<1>4. CASE j.kind = "move"
  <2>1. j \in MoveJob BY <1>1, <1>4 DEF BulkJob, ShelfJob, SaleJob, DecideJob, AdjustJob
  <2>2. j.from \in Warehouse /\ j.to \in Warehouse /\ j.products \in Seq(Product)
    BY <2>1 DEF MoveJob
  <2>3. Handler(j) = Unpack(j.from, j) \o Ends BY <1>4 DEF Handler
  <2>4. Owed(Handler(j), leaf) = 0 BY <2>2, <2>3, UnpackType, OwedUnpack, OwedEnds
  <2> QED BY <1>4, <2>4
<1>5. CASE j.kind = "lote"
  <2>1. j \in ShelfJob BY <1>1, <1>5 DEF BulkJob, MoveJob, SaleJob, DecideJob, AdjustJob
  <2>2. j.w \in Warehouse /\ j.v \in Variant /\ j.n \in Nat \ {0} BY <2>1 DEF ShelfJob
  <2>3. Parts[j.v] \in Seq(Amount) BY <2>2, ServiceConstants
  <2>4. Made(Parts[j.v], leaf) = Weight(j.v, leaf)
    BY <1>5, <2>2 DEF Accepted, PacksAddUp
  <2>5. /\ "take" \in Takes /\ "probe" \in Puts /\ "probe" \notin Takes
        /\ "take" \in Takes \cup Puts /\ "probe" \in Takes \cup Puts
    BY DEF Takes, Puts
  <2>6. Weight(j.v, leaf) \in Nat BY <2>2, WeightType
  <2> DEFINE a == <<On("take", j.w, j.v, j.n)>>  b == Each("probe", j.w, Parts[j.v], j.n)
  <2>7. a \in Seq(Statement) /\ Owed(a, leaf) = -(j.n * Weight(j.v, leaf))
    BY <2>2, <2>5, OnMoving, MovingStatements
  <2>8. b \in Seq(Statement) BY <2>2, <2>3, <2>5, EachMoving
  <2>9. Owed(b, leaf) = j.n * Made(Parts[j.v], leaf)
    BY ONLY <2>2, <2>3, <2>5, EachOwes
  <2>10. Handler(j) = (a \o b) \o Ends BY <1>5 DEF Handler
  <2> HIDE DEF a, b
  <2>11. a \o b \in Seq(Statement) BY <2>7, <2>8
  <2>12. Owed(Handler(j), leaf) = Owed(a, leaf) + Owed(b, leaf)
    BY <2>7, <2>8, <2>10, <2>11, OwedBoth, OwedEnds
  <2>13. \A x, y \in Nat : -(x * y) + x * y = 0 OBVIOUS
  <2>14. Owed(Handler(j), leaf) = 0 BY <2>2, <2>4, <2>6, <2>7, <2>9, <2>12, <2>13
  <2> QED BY <1>5, <2>14
<1>6. CASE j.kind = "decide"
  <2> DEFINE x == [op |-> "check", doc |-> j.doc, to |-> j.status]
  <2>1. Handler(j) = <<x>> BY <1>6 DEF Handler
  <2>2. x.op = "check" OBVIOUS
  <2>3. Handler(j) \in Seq(Statement) BY HandlerType
  <2> HIDE DEF x
  <2>4. \A i \in DOMAIN <<x>> : <<x>>[i].op = "check" BY <2>2
  <2>5. Owed(Handler(j), leaf) = 0 BY <2>1, <2>3, <2>4, OwedIdle
  <2> QED BY <1>6, <2>5
<1> QED BY <1>2, <1>3, <1>4, <1>5, <1>6

\* Nothing is lost, and no session that is still at work will lose anything.
LossInv == Afloat /\ NothingLost

\* A step that publishes nothing loses nothing.
LEMMA NoneLostYet ==
  ASSUME NothingLost, com' = com, commits' = commits
  PROVE  NothingLost'
BY DEF NothingLost, Units, UnitsSold

\* The sessions that a step does not touch.
LEMMA OthersAfloat ==
  ASSUME IInv, RowsStay, IsFiniteSet(Row), Afloat, NEW p \in Proc,
         prog'[p] = prog[p], job'[p] = job[p],
         \A r \in Row : Opening[r] # Absent => Seen(p, r)' - com'[r] = Seen(p, r) - com[r],
         NEW leaf \in Leaf
  PROVE  Gain(p, leaf)' + Owed(prog'[p], leaf) + Ordered(p, leaf)' >= 0
<1>1. Gain(p, leaf)' = Gain(p, leaf) BY GainSame
<1>2. Ordered(p, leaf)' = Ordered(p, leaf) BY DEF Ordered
<1> QED BY <1>1, <1>2 DEF Afloat

\* A statement that moves stock leaves to be done what it did not do.
LEMMA DoesLoses ==
  ASSUME IInv, OneRowEach, PacksAddUp, IsFiniteSet(Row), LogInv, LossInv,
         NEW p \in Proc, Does(p)
  PROVE  LossInv'
<1>1. PICK s \in Seq(Moving) :
        /\ Then(p, s)
        /\ \/ Still /\ UNCHANGED pend /\ Covers(p, s)
           \/ \E w \in Warehouse, v \in Variant, k \in Int, m \in Int :
                Writes(p, w, v, k, m) /\ Balances(p, s, v, k)
  BY DEF Does
<1>2. /\ com' = com /\ commits' = commits /\ job' = job /\ prog[p] # <<>>
      /\ prog' = [prog EXCEPT ![p] = s \o Tail(prog[p])]
  BY <1>1 DEF Does, Then
<1>3. RowsStay BY DEF LogInv
<1>4. NothingLost' BY <1>2, NoneLostYet DEF LossInv
<1> DEFINE q == prog[p]
<1>5. /\ prog \in [Proc -> Seq(Statement)] /\ q \in Seq(Statement) /\ q # <<>>
      /\ s \in Seq(Statement) /\ Tail(q) \in Seq(Statement) /\ q[1] \in Statement
      /\ Now(p) = q[1]
  BY <1>2, MovingStatements DEF IInv, ControlType, Now
<1>6. prog'[p] = s \o Tail(q) BY <1>2, <1>5
<1> HIDE DEF q
<1>7. ASSUME NEW leaf \in Leaf
      PROVE  Gain(p, leaf)' + Owed(prog'[p], leaf) + Ordered(p, leaf)' >= 0
  <2> DEFINE g == Gain(p, leaf)  t == Owed(Tail(q), leaf)  e == Effect(Now(p), leaf)
             n == Owed(s, leaf)  o == Ordered(p, leaf)
  <2>1. g \in Int /\ t \in Int /\ e \in Int /\ n \in Int /\ o \in Int
    <3>1. g \in Int /\ o \in Int BY <1>3, GainType, OrderedType
    <3>2. t \in Int BY <1>5, OwedType
    <3>3. n \in Int BY <1>5, OwedType
    <3>4. e \in Int BY <1>5, EffectType
    <3> QED BY <3>1, <3>2, <3>3, <3>4
  <2>2. Owed(q, leaf) = e + t BY <1>5, OwedTail
  <2>3. Owed(prog'[p], leaf) = n + t
    <3>1. s \in Seq(Statement) /\ Tail(q) \in Seq(Statement) BY <1>5
    <3>2. Owed(s \o Tail(q), leaf) = Owed(s, leaf) + Owed(Tail(q), leaf)
      BY ONLY <3>1, OwedBoth
    <3> QED BY <1>6, <3>2
  <2>4. Ordered(p, leaf)' = o BY <1>2 DEF Ordered
  <2>5. g + (e + t) + o >= 0 BY <2>2 DEF LossInv, Afloat, q
  <2>6. \E d \in Int : Gain(p, leaf)' = g + d /\ d + n >= e
    <3>1. CASE Still /\ Covers(p, s)
      <4>1. \A r \in Row : Seen(p, r)' - com'[r] = Seen(p, r) - com[r]
        BY <1>2, <3>1 DEF Still, Seen
      <4>2. Gain(p, leaf)' = g BY <1>3, <4>1, GainSame
      <4>3. n = e BY <3>1 DEF Covers
      <4> HIDE DEF g, n, e
      <4>4. Gain(p, leaf)' = g + 0 /\ 0 + n >= e BY <2>1, <4>2, <4>3
      <4> QED BY <4>4
    <3>2. CASE \E w \in Warehouse, v \in Variant, k \in Int, m \in Int :
                 Writes(p, w, v, k, m) /\ Balances(p, s, v, k)
      <4>1. PICK w \in Warehouse, v \in Variant, k \in Int, m \in Int :
              Writes(p, w, v, k, m) /\ Balances(p, s, v, k)
        BY <3>2
      <4> DEFINE d == k * Weight(v, leaf)
      <4>2. d \in Int BY WeightType, TimesType
      <4>3. d + n >= e BY <4>1 DEF Balances
      <4>4. CASE Shifts(p, w, v, k)
        <5>1. Gain(p, leaf)' = g + d BY <1>2, <1>3, <4>4, GainShifts
        <5> QED BY <4>2, <4>3, <5>1
      <4>5. CASE k = 0 /\ Still
        <5>1. \A r \in Row : Seen(p, r)' - com'[r] = Seen(p, r) - com[r]
          BY <1>2, <4>5 DEF Still, Seen
        <5>2. Gain(p, leaf)' = g BY <1>3, <5>1, GainSame
        <5>3. d = 0
          <6>1. \A a \in Int : 0 * a = 0 OBVIOUS
          <6>2. Weight(v, leaf) \in Int BY WeightType
          <6> QED BY <4>5, <6>1, <6>2
        <5> HIDE DEF g, n, e, d
        <5>4. Gain(p, leaf)' = g + d BY <2>1, <5>2, <5>3
        <5> QED BY <4>2, <4>3, <5>4
      <4> QED BY <4>1, <4>4, <4>5 DEF Writes
    <3> QED BY <1>1, <3>1, <3>2
  <2>7. PICK d \in Int : Gain(p, leaf)' = g + d /\ d + n >= e BY <2>6
  <2> HIDE DEF g, t, e, n, o
  <2>8. (g + d) + (n + t) + o >= 0 BY <2>1, <2>5, <2>7
  <2> QED BY <2>3, <2>4, <2>7, <2>8
<1>8. ASSUME NEW z \in Proc \ {p}, NEW leaf \in Leaf
      PROVE  Gain(z, leaf)' + Owed(prog'[z], leaf) + Ordered(z, leaf)' >= 0
  <2>1. /\ \A r \in Row : Seen(z, r)' = Seen(z, r)
        /\ prog'[z] = prog[z] /\ job'[z] = job[z]
    BY OthersSee
  <2>2. \A r \in Row : Seen(z, r)' - com'[r] = Seen(z, r) - com[r] BY <1>2, <2>1
  <2> QED BY <1>3, <2>1, <2>2, OthersAfloat DEF LossInv
<1>9. Afloat'
  <2>1. ASSUME NEW z \in Proc, NEW leaf \in Leaf
        PROVE  Gain(z, leaf)' + Owed(prog'[z], leaf) + Ordered(z, leaf)' >= 0
    BY <1>7, <1>8
  <2> QED BY <2>1 DEF Afloat, Leaf, Weight
<1> QED BY <1>4, <1>9 DEF LossInv

\* A statement that changes no row, of a session that has changed none.
LEMMA QuietLoses ==
  ASSUME IInv, IsFiniteSet(Row), LogInv, LossInv, NEW p \in Proc, NEW q,
         prog' = [prog EXCEPT ![p] = q], UNCHANGED tables, commits' = commits,
         \A z \in Proc \ {p} : job'[z] = job[z],
         \A leaf \in Leaf :
           Gain(p, leaf) + Owed(q, leaf) + Ordered(p, leaf)' >= 0
  PROVE  LossInv'
<1>1. com' = com /\ holder' = holder /\ draft' = draft BY DEF tables
<1>2. prog \in [Proc -> Seq(Statement)] BY DEF IInv, ControlType
<1>3. prog'[p] = q /\ \A z \in Proc \ {p} : prog'[z] = prog[z] BY <1>2
<1>4. \A z \in Proc, r \in Row : Seen(z, r)' - com'[r] = Seen(z, r) - com[r]
  BY <1>1 DEF Seen
<1>5. RowsStay BY DEF LogInv
<1>6. NothingLost' BY <1>1, NoneLostYet DEF LossInv
<1>7. ASSUME NEW z \in Proc, NEW leaf \in Leaf
      PROVE  Gain(z, leaf)' + Owed(prog'[z], leaf) + Ordered(z, leaf)' >= 0
  <2>1. CASE z = p
    <3>1. Gain(p, leaf)' = Gain(p, leaf) BY <1>4, <1>5, GainSame
    <3> QED BY <1>3, <2>1, <3>1
  <2>2. CASE z # p
    <3>1. \A r \in Row : Seen(z, r)' - com'[r] = Seen(z, r) - com[r] BY <1>4
    <3>2. prog'[z] = prog[z] /\ job'[z] = job[z] BY <1>3, <2>2
    <3> QED BY <1>5, <3>1, <3>2, OthersAfloat DEF LossInv
  <2> QED BY <2>1, <2>2
<1>8. Afloat' BY <1>7 DEF Afloat, Leaf, Weight
<1> QED BY <1>6, <1>8 DEF LossInv

\* A request comes: it owes what it is to sell, and no more.
LEMMA ReceiveLoses ==
  ASSUME IInv, ShopJobs, PacksAddUp, IsFiniteSet(Row), LogInv, LossInv,
         NEW p \in Proc, Receive(p)
  PROVE  LossInv'
<1>1. PICK j \in Job : /\ Accepted(j) /\ prog' = [prog EXCEPT ![p] = Handler(j)]
                       /\ job' = [job EXCEPT ![p] = j]
  BY DEF Receive
<1>2. UNCHANGED tables /\ prog[p] = <<>> /\ commits' = commits BY DEF Receive
<1>3. job \in [Proc -> Job \cup {NoJob}] BY DEF IInv, ControlType
<1>4. job'[p] = j /\ \A z \in Proc \ {p} : job'[z] = job[z] BY <1>1, <1>3
<1>5. \A r \in Row : holder[r] # p
  <2>1. DOMAIN prog[p] = {} BY <1>2
  <2> QED BY <2>1 DEF LogInv, Holding
<1>6. ASSUME NEW leaf \in Leaf
      PROVE  Gain(p, leaf) + Owed(Handler(j), leaf) + Ordered(p, leaf)' >= 0
  <2>1. Gain(p, leaf) = 0 BY <1>5, GainClean DEF LogInv
  <2>2. Ordered(p, leaf)' = IF j.kind = "sale" THEN Made(j.items, leaf) ELSE 0
    BY <1>4 DEF Ordered, Made, Weight
  <2>3. Owed(Handler(j), leaf) + (IF j.kind = "sale" THEN Made(j.items, leaf) ELSE 0) = 0
    BY <1>1, HandlerOwes
  <2>4. Owed(Handler(j), leaf) \in Int BY HandlerType, OwedType
  <2>5. \A a \in Int : 0 + a = a OBVIOUS
  <2> QED BY <2>1, <2>2, <2>3, <2>4, <2>5
<1> QED BY <1>1, <1>2, <1>4, <1>6, QuietLoses

\* A request is over, and nothing of it is left.
LEMMA AbortLoses ==
  ASSUME IInv, OneRowEach, IsFiniteSet(Row), LogInv, LossInv, NEW p \in Proc, Abort(p)
  PROVE  LossInv'
<1>1. /\ holder \in [Row -> Proc \cup {Nobody}] /\ prog \in [Proc -> Seq(Statement)]
      /\ job \in [Proc -> Job \cup {NoJob}]
  BY DEF IInv, TableInv, TablesType, ControlType
<1>2. /\ com' = com /\ commits' = commits
      /\ draft' = [r \in Row |-> IF holder[r] = p THEN com[r] ELSE draft[r]]
      /\ holder' = [r \in Row |-> IF holder[r] = p THEN Nobody ELSE holder[r]]
      /\ prog' = [prog EXCEPT ![p] = <<>>] /\ job' = [job EXCEPT ![p] = NoJob]
  BY DEF Abort, Rollback, Release
<1>3. Nobody \notin Proc /\ NoJob \notin Job BY StockConstants, ServiceConstants
<1>4. /\ prog'[p] = <<>> /\ job'[p] = NoJob
      /\ \A z \in Proc \ {p} : prog'[z] = prog[z] /\ job'[z] = job[z]
  BY <1>1, <1>2
<1>5. \A r \in Row : holder'[r] # p BY <1>2, <1>3
<1>6. \A z \in Proc \ {p}, r \in Row : Seen(z, r)' - com'[r] = Seen(z, r) - com[r]
  BY <1>2, <1>3 DEF Seen
<1>7. NothingLost' BY <1>2, NoneLostYet DEF LossInv
<1>8. IInv' BY AbortKeeps
<1>9. LogInv' BY AbortLogs
<1>10. ASSUME NEW z \in Proc, NEW leaf \in Leaf
       PROVE  Gain(z, leaf)' + Owed(prog'[z], leaf) + Ordered(z, leaf)' >= 0
  <2>1. CASE z = p
    <3>1. Gain(p, leaf)' = 0
      <4>1. Change(p, leaf)' = [r \in Row |-> IF Opening[r] = Absent THEN 0
                                  ELSE (com'[r] - com'[r]) * Weight(r[2], leaf)]
        BY <1>5 DEF Change, Seen
      <4> DEFINE f == [r \in Row |-> IF Opening[r] = Absent THEN 0
                                     ELSE (com'[r] - com'[r]) * Weight(r[2], leaf)]
      <4>2. ASSUME NEW r \in Row PROVE f[r] = 0
        <5>1. CASE Opening[r] = Absent BY <5>1
        <5>2. CASE Opening[r] # Absent
          <6>1. com'[r] \in Int /\ Weight(r[2], leaf) \in Nat
            BY <1>2, <5>2, ChangeType DEF LogInv
          <6>2. \A a \in Int, b \in Nat : (a - a) * b = 0 OBVIOUS
          <6>3. (com'[r] - com'[r]) * Weight(r[2], leaf) = 0 BY <6>1, <6>2
          <6> QED BY <5>2, <6>3
        <5> QED BY <5>1, <5>2
      <4>3. Gain(p, leaf)' = SumFunctionOnSet(f, Row) BY <4>1 DEF Gain
      <4> HIDE DEF f
      <4>4. SumFunctionOnSet(f, Row) = 0 BY <4>2, SumOfZeros
      <4> QED BY <4>3, <4>4
    <3>2. Owed(<<>>, leaf) = 0 BY OwedNone
    <3>3. Ordered(p, leaf)' = 0 BY <1>3, <1>4 DEF Ordered
    <3> QED BY <1>4, <2>1, <3>1, <3>2, <3>3
  <2>2. CASE z # p
    <3>1. \A r \in Row : Seen(z, r)' - com'[r] = Seen(z, r) - com[r] BY <1>6, <2>2
    <3>2. prog'[z] = prog[z] /\ job'[z] = job[z] BY <1>4, <2>2
    <3> QED BY <3>1, <3>2, OthersAfloat DEF LossInv, LogInv
  <2> QED BY <2>1, <2>2
<1>11. Afloat' BY <1>10 DEF Afloat, Leaf, Weight
<1> QED BY <1>7, <1>11 DEF LossInv

\* COMMIT: what left the shelves has been sold.
LEMMA CommitLoses ==
  ASSUME IInv, OneRowEach, IsFiniteSet(Row), IsFiniteSet(Job), LogInv, LossInv,
         NEW p \in Proc, CommitJob(p)
  PROVE  LossInv'
<1>1. /\ holder \in [Row -> Proc \cup {Nobody}] /\ prog \in [Proc -> Seq(Statement)]
      /\ com \in [Row -> Stock]
  BY DEF IInv, TableInv, TablesType, ControlType
<1>2. /\ com' = [r \in Row |-> Seen(p, r)]
      /\ draft' = draft
      /\ holder' = [r \in Row |-> IF holder[r] = p THEN Nobody ELSE holder[r]]
      /\ prog' = [prog EXCEPT ![p] = Tail(prog[p])] /\ job' = job
      /\ commits' = [commits EXCEPT ![job[p]] = @ + 1]
      /\ prog[p] # <<>> /\ Now(p).op = "commit"
  BY DEF CommitJob, Committed, Commit, Release, At, Now
<1>3. Nobody \notin Proc BY StockConstants
<1>4. /\ prog'[p] = Tail(prog[p])
      /\ \A z \in Proc \ {p} : prog'[z] = prog[z]
  BY <1>1, <1>2
<1>5. /\ prog[p] \in Seq(Statement) /\ OfShop(prog[p]) /\ 1 \in DOMAIN prog[p]
      /\ Tail(prog[p]) \in Seq(Statement)
  BY <1>1, <1>2, PlannedAll DEF LogInv
<1>6. \A i \in DOMAIN prog[p] : prog[p][i].op \in {"commit", "decide"}
  <2>1. \A k \in DOMAIN prog[p] : k > 1 => prog[p][k].op = "decide"
    BY <1>2, <1>5 DEF OfShop, Now
  <2>2. \A k \in DOMAIN prog[p] : k = 1 \/ k > 1
    <3>1. DOMAIN prog[p] = 1 .. Len(prog[p]) /\ Len(prog[p]) \in Nat BY <1>5
    <3> QED BY <3>1
  <2> QED BY <1>2, <2>1, <2>2 DEF Now
<1>7. \A i \in DOMAIN Tail(prog[p]) : Tail(prog[p])[i].op \in {"commit", "decide"}
  BY <1>2, <1>5, <1>6, TailOfShop
<1>8. IInv'
  <2>1. applied' \in [Report -> BOOLEAN] BY DEF CommitJob, IInv, ControlType
  <2> QED BY <1>2, <2>1, CommittedKeeps DEF CommitJob
<1>9. LogInv' BY CommitLogs
<1>10. ASSUME NEW leaf \in Leaf PROVE Gain(p, leaf) + Ordered(p, leaf) >= 0
  <2>1. Owed(prog[p], leaf) = 0 BY <1>5, <1>6, OwedIdle
  <2>2. Gain(p, leaf) \in Int /\ Ordered(p, leaf) \in Int
    BY GainType, OrderedType DEF LogInv
  <2>3. Gain(p, leaf) + Owed(prog[p], leaf) + Ordered(p, leaf) >= 0
    BY DEF LossInv, Afloat
  <2>4. \A a, b \in Int : a + 0 + b >= 0 => a + b >= 0 OBVIOUS
  <2> QED BY <2>1, <2>2, <2>3, <2>4
<1>11. NothingLost'
  <2>1. ASSUME NEW leaf \in Leaf
        PROVE  Units(com, leaf)' + UnitsSold(leaf)' >= Units(Opening, leaf)
    <3>1. Units(com, leaf)' = Units(com, leaf) + Gain(p, leaf)
      BY <1>2, <1>8, <1>9, UnitsPublished DEF LogInv
    <3>2. UnitsSold(leaf)' = UnitsSold(leaf) + Ordered(p, leaf)
      BY <1>2, SoldGrows DEF IInv
    <3>3. Units(com, leaf) + UnitsSold(leaf) >= Units(Opening, leaf)
      BY DEF LossInv, NothingLost
    <3>4. /\ Units(com, leaf) \in Int /\ Units(Opening, leaf) \in Int
          /\ UnitsSold(leaf) \in Int /\ Gain(p, leaf) \in Int /\ Ordered(p, leaf) \in Int
      <4>1. Opening \in [Row -> Stock] BY ServiceConstants DEF Stock
      <4>2. Units(com, leaf) \in Int /\ Units(Opening, leaf) \in Int
        BY <1>1, <4>1, UnitsAre
      <4>3. UnitsSold(leaf) \in Int BY SoldType DEF IInv
      <4> QED BY <4>2, <4>3, GainType, OrderedType DEF LogInv
    <3>5. \A a, b, c, d, e \in Int : a + b >= e /\ c + d >= 0 => (a + c) + (b + d) >= e
      OBVIOUS
    <3> QED BY <1>10, <3>1, <3>2, <3>3, <3>4, <3>5
  <2> QED BY <2>1 DEF NothingLost, Leaf, Weight, Units
<1>12. ASSUME NEW z \in Proc, NEW leaf \in Leaf
       PROVE  Gain(z, leaf)' + Owed(prog'[z], leaf) + Ordered(z, leaf)' >= 0
  <2>0. RowsStay /\ RowsStay' BY <1>9 DEF LogInv
  <2>1. CASE z = p
    <3>1. Gain(p, leaf)' = 0
      <4> DEFINE f == [r \in Row |-> IF Opening[r] = Absent THEN 0
                                     ELSE (com'[r] - com'[r]) * Weight(r[2], leaf)]
      <4>1. Change(p, leaf)' = f
        <5>1. \A r \in Row : holder'[r] # p BY <1>2, <1>3
        <5> QED BY <5>1 DEF Change, Seen
      <4>2. ASSUME NEW r \in Row PROVE f[r] = 0
        <5>1. CASE Opening[r] = Absent BY <5>1
        <5>2. CASE Opening[r] # Absent
          <6>1. com'[r] \in Int /\ Weight(r[2], leaf) \in Nat
            BY <1>2, <2>0, <5>2, ChangeType
          <6>2. \A a \in Int, b \in Nat : (a - a) * b = 0 OBVIOUS
          <6>3. (com'[r] - com'[r]) * Weight(r[2], leaf) = 0 BY <6>1, <6>2
          <6> QED BY <5>2, <6>3
        <5> QED BY <5>1, <5>2
      <4>3. Gain(p, leaf)' = SumFunctionOnSet(f, Row) BY <4>1 DEF Gain
      <4> HIDE DEF f
      <4>4. SumFunctionOnSet(f, Row) = 0 BY <4>2, SumOfZeros
      <4> QED BY <4>3, <4>4
    <3>2. Owed(Tail(prog[p]), leaf) = 0 BY <1>5, <1>7, OwedIdle
    <3>3. Ordered(p, leaf)' = Ordered(p, leaf) BY <1>2 DEF Ordered
    <3>4. Ordered(p, leaf) \in Nat BY OrderedType
    <3> QED BY <1>4, <2>1, <3>1, <3>2, <3>3, <3>4
  <2>2. CASE z # p
    <3>1. prog'[z] = prog[z] /\ job'[z] = job[z] BY <1>2, <1>4, <2>2
    <3>2. ASSUME NEW r \in Row, Opening[r] # Absent
          PROVE  Seen(z, r)' - com'[r] = Seen(z, r) - com[r]
      <4>1. CASE holder[r] = z
        <5>1. Seen(z, r)' = Seen(z, r) /\ com'[r] = com[r]
          BY <1>2, <1>3, <2>2, <4>1 DEF Seen
        <5> QED BY <5>1
      <4>2. CASE holder[r] # z
        <5>1. Seen(z, r)' = com'[r] /\ Seen(z, r) = com[r]
          BY <1>2, <1>3, <2>2, <4>2 DEF Seen
        <5>2. com[r] \in Int /\ com'[r] \in Int
          BY <1>2, <2>0, <3>2, ChangeType
        <5>3. \A a, b \in Int : a - a = b - b OBVIOUS
        <5> QED BY <5>1, <5>2, <5>3
      <4> QED BY <4>1, <4>2
    <3> QED BY <2>0, <3>1, <3>2, OthersAfloat DEF LossInv
  <2> QED BY <2>1, <2>2
<1>13. Afloat' BY <1>12 DEF Afloat, Leaf, Weight
<1> QED BY <1>11, <1>13 DEF LossInv

\* A decision moves nothing.
LEMMA DecideLoses ==
  ASSUME IInv, IsFiniteSet(Row), LogInv, LossInv, NEW p \in Proc, Decide(p)
  PROVE  LossInv'
<1> DEFINE q == prog[p]
<1>1. q \in Seq(Statement) /\ q # <<>> /\ q[1].op = "decide" /\ Tail(q) \in Seq(Statement)
      /\ q[1] \in Statement
  BY DEF IInv, ControlType, Decide, At
<1>2. /\ prog' = [prog EXCEPT ![p] = <<>> \o Tail(prog[p])] /\ UNCHANGED tables
      /\ job' = job /\ commits' = commits
  BY DEF Decide, Then
<1>3. <<>> \o Tail(q) = Tail(q) BY <1>1, NoneInFront
<1>4. ASSUME NEW leaf \in Leaf
      PROVE  Gain(p, leaf) + Owed(Tail(q), leaf) + Ordered(p, leaf)' >= 0
  <2>1. Ordered(p, leaf)' = Ordered(p, leaf) BY <1>2 DEF Ordered
  <2>2. Gain(p, leaf) + Owed(q, leaf) + Ordered(p, leaf) >= 0
    BY DEF LossInv, Afloat
  <2> HIDE DEF q
  <2>3. Owed(q, leaf) = Effect(q[1], leaf) + Owed(Tail(q), leaf) BY <1>1, OwedTail
  <2>4. Effect(q[1], leaf) = 0 BY <1>1 DEF Effect
  <2>5. Owed(Tail(q), leaf) \in Int BY <1>1, OwedType
  <2>6. \A a \in Int : 0 + a = a OBVIOUS
  <2> QED BY <2>1, <2>2, <2>3, <2>4, <2>5, <2>6
<1>5. prog' = [prog EXCEPT ![p] = Tail(q)] BY <1>2, <1>3
<1> QED BY <1>2, <1>4, <1>5, QuietLoses

\* A request whose statements take nothing unchecked.
Gentle(q) == \A i \in DOMAIN q : q[i].op # "remove"

\* Two such programs, one behind the other, are one.
LEMMA GentleBoth ==
  ASSUME NEW a \in Seq(Statement), NEW b \in Seq(Statement), Gentle(a), Gentle(b)
  PROVE  Gentle(a \o b)
<1> SUFFICES ASSUME NEW i \in DOMAIN (a \o b) PROVE (a \o b)[i].op # "remove"
  BY DEF Gentle
<1> DEFINE c == a \o b  m == Len(a)  n == Len(b)
<1>1. /\ m \in Nat /\ n \in Nat /\ DOMAIN a = 1 .. m /\ DOMAIN b = 1 .. n
      /\ DOMAIN c = 1 .. (m + n)
      /\ \A k \in 1 .. m : c[k] = a[k]
      /\ \A k \in 1 .. n : c[m + k] = b[k]
  BY Behind
<1> HIDE DEF c, m, n
<1>2. CASE i \in 1 .. m BY <1>1, <1>2 DEF Gentle, c
<1>3. CASE i \notin 1 .. m
  <2>1. i \in 1 .. (m + n) BY <1>1 DEF c
  <2>2. i - m \in 1 .. n /\ i = m + (i - m) BY <1>1, <1>3, <2>1
  <2> QED BY <1>1, <2>2 DEF Gentle, c
<1> QED BY <1>2, <1>3

\* And so is one with its COMMIT.
LEMMA GentleEnds ==
  ASSUME NEW a \in Seq(Statement), Gentle(a)
  PROVE  Gentle(a \o Ends)
<1>1. Gentle(Ends) BY DEF Gentle, Ends
<1> QED BY <1>1, EndsType, GentleBoth

\* Statements whose row count is looked at.
LEMMA GentleChecked == ASSUME NEW q \in Seq(Checked) PROVE Gentle(q)
<1>1. \A i \in DOMAIN q : q[i] \in Checked OBVIOUS
<1> QED BY <1>1 DEF Gentle, Checked

\* The session of a document that is read has written nothing, and sends what
\* moves as much as it takes.
LEMMA CheckSends ==
  ASSUME IInv, LogInv, NEW p \in Proc, CheckRequest(p), ~Abort(p)
  PROVE  /\ UNCHANGED tables /\ job' = job /\ commits' = commits
         /\ Clean(p) /\ Now(p).op = "check" /\ 1 \in DOMAIN prog[p]
         /\ \E c \in Seq(Statement) :
              /\ prog' = [prog EXCEPT ![p] = c] /\ Gentle(c)
              /\ \A leaf : Owed(c, leaf) = 0
<1> DEFINE s == Now(p)  t == RequestOf[s.doc]  d == [s EXCEPT !.op = "decide"]
           moves == Unpack(t.from, t)
           c == (IF s.to = "approved" THEN moves \o Ends ELSE <<>>) \o <<d>>
<1>1. /\ prog[p] \in Seq(Statement) /\ prog[p] # <<>> /\ s.op = "check"
      /\ s \in Statement
  BY HeadType DEF IInv, ControlType, CheckRequest, At, Now
<1>2. Then(p, c) /\ UNCHANGED tables /\ job' = job /\ commits' = commits
  BY DEF CheckRequest, ReadsOnly, Then
<1>3. OfShop(prog[p]) BY PlannedAll DEF LogInv
<1>4. DOMAIN prog[p] = {1}
  <2>1. 1 \in DOMAIN prog[p] /\ prog[p][1].op = "check" BY <1>1 DEF Now
  <2> QED BY <1>3, <2>1 DEF OfShop
<1>5. Tail(prog[p]) = <<>> BY <1>1, <1>4, OnlyOne
<1>6. Clean(p)
  <2>1. \A i \in DOMAIN prog[p] : prog[p][i].op = "check" BY <1>1, <1>4 DEF Now
  <2> QED BY <2>1 DEF LogInv, Holding, Clean
<1>7. /\ s.doc \in Request /\ s.to \in Decision
      /\ s = [op |-> "check", doc |-> s.doc, to |-> s.to]
  <2> HIDE DEF s
  <2>1. s \in [op : {"check", "decide"}, doc : Request, to : Decision]
    BY <1>1 DEF Statement, ShelfOp, LoopStatement, LoopOp
  <2> QED BY <1>1, <2>1
<1>8. d = [op |-> "decide", doc |-> s.doc, to |-> s.to]
  <2> HIDE DEF s
  <2> QED BY <1>7
<1>9. d \in Statement /\ d.op = "decide"
  <2> HIDE DEF s, d
  <2> QED BY <1>7, <1>8 DEF Statement
<1>10. t.from \in Warehouse /\ t.to \in Warehouse /\ t.products \in Seq(Product)
  <2>1. t \in Transfer BY <1>7, ServiceConstants
  <2> HIDE DEF t
  <2> QED BY <2>1 DEF Transfer
<1>11. moves \in Seq(Statement) BY <1>10, UnpackType
<1>12. prog' = [prog EXCEPT ![p] = c \o Tail(prog[p])] BY <1>2 DEF Then
<1>13. c = IF s.to = "approved" THEN (moves \o Ends) \o <<d>> ELSE <<>> \o <<d>> OBVIOUS
<1>14. \A leaf : Owed(moves, leaf) = 0 BY <1>10, OwedUnpack
<1>15. \A i \in DOMAIN moves : moves[i].op = "product" BY DEF Unpack
<1> HIDE DEF s, d, moves, c
<1>16. /\ <<d>> \in Seq(Statement) /\ DOMAIN <<d>> = {1} /\ <<d>>[1] = d
       /\ <<>> \o <<d>> = <<d>>
  BY <1>9
<1>17. Gentle(<<d>>) /\ \A leaf : Owed(<<d>>, leaf) = 0
  BY <1>9, <1>16, OwedIdle DEF Gentle
<1>18. c \in Seq(Statement) /\ Gentle(c) /\ \A leaf : Owed(c, leaf) = 0
  <2>1. CASE s.to = "approved"
    <3>1. moves \o Ends \in Seq(Statement) BY <1>11, EndsType
    <3>2. \A leaf : Owed(moves \o Ends, leaf) = 0 BY <1>11, <1>14, OwedEnds
    <3>3. Gentle(moves \o Ends) BY <1>11, <1>15, GentleEnds DEF Gentle
    <3> DEFINE m == moves \o Ends
    <3> HIDE DEF m
    <3>4. \A leaf : Owed(m \o <<d>>, leaf) = Owed(m, leaf) + Owed(<<d>>, leaf)
      BY <1>16, <3>1, OwedBoth DEF m
    <3>5. m \o <<d>> \in Seq(Statement) BY <1>16, <3>1 DEF m
    <3>6. \A leaf : Owed(m, leaf) = 0 BY <3>2 DEF m
    <3>7. c = m \o <<d>> BY <1>13, <2>1 DEF m
    <3>8. Gentle(m \o <<d>>) BY <1>16, <1>17, <3>1, <3>3, GentleBoth DEF m
    <3> QED BY <1>17, <3>4, <3>5, <3>6, <3>7, <3>8
  <2>2. CASE s.to # "approved"
    <3>1. c = <<d>> BY <1>13, <1>16, <2>2
    <3> QED BY <1>16, <1>17, <3>1
  <2> QED BY <2>1, <2>2
<1>19. prog' = [prog EXCEPT ![p] = c] BY <1>5, <1>12, <1>18, NoneInFront
<1>20. 1 \in DOMAIN prog[p] BY <1>4
<1> QED BY <1>1, <1>2, <1>6, <1>18, <1>19, <1>20 DEF s

\* Nor does the reading of a document lose anything.
LEMMA CheckLoses ==
  ASSUME IInv, OneRowEach, IsFiniteSet(Row), LogInv, LossInv,
         NEW p \in Proc, CheckRequest(p)
  PROVE  LossInv'
<1>1. CASE Abort(p) BY <1>1, AbortLoses
<1>2. CASE ~Abort(p)
  <2>1. UNCHANGED tables /\ job' = job /\ commits' = commits /\ Clean(p)
    BY <1>2, CheckSends
  <2>2. PICK c \in Seq(Statement) : /\ prog' = [prog EXCEPT ![p] = c]
                                    /\ \A leaf : Owed(c, leaf) = 0
    BY <1>2, CheckSends
  <2>3. ASSUME NEW leaf \in Leaf
        PROVE  Gain(p, leaf) + Owed(c, leaf) + Ordered(p, leaf)' >= 0
    <3>1. Gain(p, leaf) = 0 BY <2>1, GainClean DEF LogInv, Clean
    <3>2. Ordered(p, leaf)' = Ordered(p, leaf) BY <2>1 DEF Ordered
    <3>3. Ordered(p, leaf) \in Nat BY OrderedType
    <3> QED BY <2>2, <3>1, <3>2, <3>3
  <2> QED BY <2>1, <2>2, <2>3, QuietLoses
<1> QED BY <1>1, <1>2

\* Nothing has been lost in the beginning.
LEMMA InitLoses ==
  OneRowEach /\ IsFiniteSet(Row) /\ IsFiniteSet(Job) /\ Init => LossInv
<1> SUFFICES ASSUME OneRowEach, IsFiniteSet(Row), IsFiniteSet(Job), Init PROVE LossInv
  OBVIOUS
<1>1. IInv /\ LogInv BY InitIInv, InitLogs
<1>2. NothingLost
  <2> SUFFICES ASSUME NEW leaf \in Leaf
               PROVE  Units(com, leaf) + UnitsSold(leaf) >= Units(Opening, leaf)
    BY DEF NothingLost
  <2>1. com = Opening BY DEF Init
  <2>2. Opening \in [Row -> Stock] BY ServiceConstants DEF Stock
  <2>3. Units(Opening, leaf) \in Int BY <2>2, UnitsAre
  <2>4. UnitsSold(leaf) \in Nat BY <1>1, SoldType DEF IInv
  <2> QED BY <2>1, <2>3, <2>4
<1>3. Afloat
  <2> SUFFICES ASSUME NEW p \in Proc, NEW leaf \in Leaf
               PROVE  Gain(p, leaf) + Owed(prog[p], leaf) + Ordered(p, leaf) >= 0
    BY DEF Afloat
  <2>1. prog[p] = <<>> BY DEF Init
  <2>2. \A r \in Row : holder[r] # p BY StockConstants DEF Init
  <2>3. Gain(p, leaf) = 0 BY <1>1, <2>2, GainClean DEF LogInv
  <2>4. Owed(prog[p], leaf) = 0 BY <2>1, OwedNone
  <2>5. Ordered(p, leaf) \in Nat BY OrderedType
  <2> QED BY <2>3, <2>4, <2>5
<1> QED BY <1>2, <1>3 DEF LossInv

\* Nor does any step of the shop lose anything.
LEMMA NextLoses ==
  ASSUME OneRowEach, ShopJobs, PacksAddUp, IsFiniteSet(Row), IsFiniteSet(Job)
  PROVE  IInv /\ LogInv /\ LossInv /\ [Next]_vars => LossInv'
<1> SUFFICES ASSUME IInv, LogInv, LossInv, [Next]_vars PROVE LossInv'
  OBVIOUS
<1>0. RowsStay /\ Planned BY DEF LogInv
<1>1. CASE UNCHANGED vars
  <2>1. com' = com /\ draft' = draft /\ holder' = holder /\ prog' = prog /\ job' = job
        /\ commits' = commits
    BY <1>1 DEF vars, tables
  <2>2. NothingLost' BY <2>1, NoneLostYet DEF LossInv
  <2>3. ASSUME NEW z \in Proc, NEW leaf \in Leaf
        PROVE  Gain(z, leaf)' + Owed(prog'[z], leaf) + Ordered(z, leaf)' >= 0
    <3>1. \A r \in Row : Seen(z, r)' - com'[r] = Seen(z, r) - com[r] BY <2>1 DEF Seen
    <3> QED BY <1>0, <2>1, <3>1, OthersAfloat DEF LossInv
  <2>4. Afloat' BY <2>3 DEF Afloat, Leaf, Weight
  <2> QED BY <2>2, <2>4 DEF LossInv
<1>2. ASSUME NEW p \in Proc, Step(p) PROVE LossInv'
  <2>2. CASE Sale(p) BY <1>0, <2>2, SaleDoes, DoesLoses, AbortLoses
  <2>3. CASE Move(p) BY <1>0, <2>3, MoveDoes, DoesLoses, AbortLoses
  <2>4. CASE Raw(p) BY <1>0, <2>4, RawNever
  <2>5. CASE Document(p) BY <1>0, <2>5, RawNever, CheckLoses, DecideLoses DEF Document
  <2>6. CASE CommitJob(p) BY <2>6, CommitLoses
  <2>7. CASE DeadlockVictim(p) BY <2>7, AbortLoses DEF DeadlockVictim
  <2> QED BY <1>2, <2>2, <2>3, <2>4, <2>5, <2>6, <2>7 DEF Step
<1>3. ASSUME NEW p \in Proc, Fail(p) PROVE LossInv' BY <1>3, AbortLoses DEF Fail
<1> QED BY <1>1, <1>2, <1>3, ReceiveLoses DEF Next, Rest

\* In such a shop, where packs hold what they are broken into, no unit of stock
\* leaves the warehouses but through a committed sale: what a session has taken
\* and not put back is never more than what it has still to put back and what
\* its customer is to get, at every statement, so nothing is missing when it
\* commits, and nothing was taken when it does not.
THEOREM StockIsConserved ==
  OneRowEach /\ ShopJobs /\ PacksAddUp /\ IsFiniteSet(Row) /\ IsFiniteSet(Job) =>
    (Spec => []NothingLost)
<1> SUFFICES ASSUME OneRowEach, ShopJobs, PacksAddUp, IsFiniteSet(Row), IsFiniteSet(Job)
             PROVE  Spec => []NothingLost
  OBVIOUS
<1>1. LossInv => NothingLost BY DEF LossInv
<1>2. OneRowEach /\ ShopJobs OBVIOUS
<1>3. Init => LossInv BY InitLoses
<1>4. IInv /\ LogInv /\ LossInv /\ [Next]_vars => LossInv' BY NextLoses
<1> QED
  BY <1>1, <1>2, <1>3, <1>4, InitIInv, NextIInv, InitLogs, NextLogs, PTL DEF Spec

-----------------------------------------------------------------------------
(* One request at a time.                                                   *)

\* What is taken unchecked is taken now, from a row that has as much.
Careful ==
  \A p \in Proc : \A i \in DOMAIN prog[p] : prog[p][i].op = "remove" =>
    i = 1 /\ Seen(p, Place(prog[p][i].w, prog[p][i].v)) >= prog[p][i].n

\* What a session has put on a shelf is what it logged.
Exactly ==
  \A p \in Proc, w \in Warehouse, v \in Variant :
    Seen(p, Place(w, v)) - com[Place(w, v)] = pend[p][<<w, v>>]

\* And so it is with what everyone has.
Settled ==
  \A w \in Warehouse, v \in Variant :
    com[Place(w, v)] = Opening[Place(w, v)] + log[<<w, v>>]

CalmInv == OneAtATime /\ Careful /\ Exactly /\ Settled

\* Nobody else is at work.
LEMMA OthersIdle ==
  ASSUME OneAtATime, NEW p \in Proc, prog[p] # <<>>, NEW q \in Proc \ {p}
  PROVE  prog[q] = <<>> /\ DOMAIN prog[q] = {}
<1>1. prog[q] = <<>> BY DEF OneAtATime
<1> QED BY <1>1

\* What is on the row of a shelf, published or not, is a number.
LEMMA PlaceType ==
  ASSUME IInv, OneRowEach, RowsStay, NEW p \in Proc,
         NEW w \in Warehouse, NEW v \in Variant
  PROVE  /\ Place(w, v) \in Row /\ <<w, v>> \in Shelf
         /\ Seen(p, Place(w, v)) \in Int /\ com[Place(w, v)] \in Int
         /\ Opening[Place(w, v)] \in Int
         /\ pend[p][<<w, v>>] \in Int /\ log[<<w, v>>] \in Int
<1> DEFINE x == Place(w, v)
<1>1. x \in Row /\ Opening[x] # Absent /\ <<w, v>> \in Shelf BY PlaceIs DEF Shelf
<1>2. Seen(p, x) \in Nat BY LotsIs
<1>3. com[x] # Absent BY <1>1 DEF RowsStay
<1>4. /\ com \in [Row -> Stock] /\ log \in [Shelf -> Int]
      /\ pend \in [Proc -> [Shelf -> Int]]
  BY DEF IInv, TableInv, TablesType
<1>5. com[x] \in Int BY <1>1, <1>3, <1>4 DEF Stock
<1>6. Opening[x] \in Int BY <1>1, ServiceConstants
<1>7. log[<<w, v>>] \in Int /\ pend[p][<<w, v>>] \in Int BY <1>1, <1>4
<1> QED BY <1>1, <1>2, <1>5, <1>6, <1>7

\* An unchecked removeStock finds what was there when it was checked.
LEMMA NeverMisses ==
  ASSUME IInv, OneRowEach, RowsStay, Careful, NEW p \in Proc
  PROVE  ~Misses(p)
<1> SUFFICES ASSUME Misses(p) PROVE FALSE OBVIOUS
<1> DEFINE s == Now(p)  x == Place(s.w, s.v)
<1>1. At(p, "remove") /\ Removable(p, s.w, s.v, s.n) = {} BY DEF Misses
<1>2. s.w \in Warehouse /\ s.v \in Variant BY <1>1, ShelfHead DEF IInv, ShelfOp
<1>3. prog[p] \in Seq(Statement) /\ prog[p] # <<>> /\ prog[p][1].op = "remove"
  BY <1>1 DEF IInv, ControlType, At
<1>4. 1 \in DOMAIN prog[p] BY <1>3
<1>5. Seen(p, x) >= s.n BY <1>3, <1>4 DEF Careful, Now
<1>6. Lots(p, s.w, s.v) = {x} 
  <2> HIDE DEF s
  <2> QED BY <1>2, LotsIs
<1> QED BY <1>1, <1>5, <1>6 DEF Removable

\* What is sent in front of the rest of a program keeps its care.
LEMMA SendsCareful ==
  ASSUME IInv, OneAtATime, Careful, NEW p \in Proc, prog[p] # <<>>,
         NEW s \in Seq(Statement), Then(p, s),
         \A i \in DOMAIN s : s[i].op = "remove" =>
           i = 1 /\ Seen(p, Place(s[i].w, s[i].v))' >= s[i].n
  PROVE  Careful'
<1>0. PICK old, new : old = prog[p] /\ new = s \o Tail(prog[p]) OBVIOUS
<1> DEFINE n == Len(s)
<1>1. prog \in [Proc -> Seq(Statement)] BY DEF IInv, ControlType
<1>2. prog' = [prog EXCEPT ![p] = new] BY <1>0 DEF Then
<1>3. prog'[p] = new /\ \A q \in Proc \ {p} : prog'[q] = prog[q] BY <1>1, <1>2
<1>4. old \in Seq(Statement) /\ old # <<>> BY <1>0, <1>1
<1>5. /\ n \in Nat /\ Len(old) \in Nat \ {0} /\ DOMAIN new = 1 .. (n + Len(old) - 1)
      /\ \A k \in 1 .. n : new[k] = s[k]
      /\ \A k \in 2 .. Len(old) : new[k + n - 1] = old[k]
  BY <1>0, <1>4, InFront
<1>6. DOMAIN old = 1 .. Len(old) /\ DOMAIN s = 1 .. n BY <1>4
<1>7. \A k \in DOMAIN old : k # 1 => old[k].op # "remove" BY <1>0 DEF Careful
<1>8. \A q \in Proc \ {p} : DOMAIN prog'[q] = {} BY <1>3, OthersIdle
<1> HIDE DEF n
<1>9. ASSUME NEW i \in DOMAIN new, new[i].op = "remove"
      PROVE  i = 1 /\ Seen(p, Place(new[i].w, new[i].v))' >= new[i].n
  <2>1. CASE i \in 1 .. n
    <3>1. new[i] = s[i] /\ i \in DOMAIN s BY <1>5, <1>6, <2>1
    <3> QED BY <1>9, <3>1
  <2>2. CASE i \notin 1 .. n
    <3>1. i - n + 1 \in 2 .. Len(old) /\ i = (i - n + 1) + n - 1 BY <1>5, <1>9, <2>2
    <3>2. new[i] = old[i - n + 1] BY <1>5, <3>1
    <3>3. i - n + 1 # 1 /\ i - n + 1 \in DOMAIN old BY <1>5, <1>6, <3>1
    <3> QED BY <1>7, <1>9, <3>2, <3>3
  <2> QED BY <2>1, <2>2
<1> QED BY <1>3, <1>8, <1>9 DEF Careful

\* A statement that moves stock, of the only request there is.
LEMMA DoesCalm ==
  ASSUME IInv, OneRowEach, LogInv, CalmInv, NEW p \in Proc, Does(p)
  PROVE  Careful' /\ Exactly' /\ Settled'
<1>1. /\ com' = com /\ log' = log /\ prog[p] # <<>> BY DEF Does
<1>2. RowsStay /\ OneAtATime /\ Careful /\ Exactly /\ Settled BY DEF LogInv, CalmInv
<1>3. ~Misses(p) BY <1>2, NeverMisses
<1>4. PICK s \in Seq(Moving) :
        /\ Then(p, s)
        /\ \/ Still /\ UNCHANGED pend /\ Tested(p, s)
           \/ \E w \in Warehouse, v \in Variant, k \in Int, m \in Int :
                Writes(p, w, v, k, m) /\ s \in Seq(Checked) /\ Exact(p, s, v, k, m)
  BY <1>3 DEF Does
<1>5. s \in Seq(Statement) BY MovingStatements
<1>6. Settled' BY <1>1, <1>2 DEF Settled
<1>7. CASE Still /\ UNCHANGED pend /\ Tested(p, s)
  <2>1. \A q \in Proc, r \in Row : Seen(q, r)' = Seen(q, r) BY <1>1, <1>7 DEF Still, Seen
  <2>2. \A w \in Warehouse, v \in Variant : Place(w, v) \in Row BY PlaceIs
  <2>3. Exactly' BY <1>1, <1>2, <1>7, <2>1, <2>2 DEF Exactly
  <2>4. \A i \in DOMAIN s : s[i].op = "remove" =>
           i = 1 /\ Seen(p, Place(s[i].w, s[i].v))' >= s[i].n
    <3>1. CASE s \in Seq(Checked) BY <3>1, GentleChecked DEF Gentle
    <3>2. CASE s \notin Seq(Checked)
      <4>1. PICK t \in Seq(Checked), w \in Warehouse, v \in Variant, n \in Nat \ {0} :
              s = <<On("remove", w, v, n)>> \o t /\ Seen(p, Place(w, v)) >= n
        BY <1>7, <3>2 DEF Tested
      <4> DEFINE a == On("remove", w, v, n)  c == <<a>>
      <4>2. a \in Statement BY OnType DEF ShelfOp
      <4>3. a.w = w /\ a.v = v /\ a.n = n BY DEF On
      <4>4. s = c \o t BY <4>1
      <4>5. c \in Seq(Statement) /\ Len(c) = 1 /\ c[1] = a
        <5> HIDE DEF a
        <5> QED BY <4>2
      <4>6. t \in Seq(Statement) /\ Gentle(t) BY MovingStatements, GentleChecked
      <4>7. Seen(p, Place(w, v))' >= n BY <2>1, <2>2, <4>1
      <4> HIDE DEF a, c
      <4>8. /\ Len(t) \in Nat /\ DOMAIN t = 1 .. Len(t) /\ DOMAIN s = 1 .. (1 + Len(t))
            /\ \A i \in 1 .. Len(t) : s[1 + i] = t[i]
            /\ \A i \in 1 .. 1 : s[i] = c[i]
        <5>1. /\ DOMAIN (c \o t) = 1 .. (Len(c) + Len(t)) /\ Len(t) \in Nat
              /\ DOMAIN t = 1 .. Len(t)
              /\ \A i \in 1 .. Len(c) : (c \o t)[i] = c[i]
              /\ \A i \in 1 .. Len(t) : (c \o t)[Len(c) + i] = t[i]
          BY <4>5, <4>6, Behind
        <5> QED BY ONLY <4>4, <4>5, <5>1
      <4>9. s[1] = a BY <4>5, <4>8
      <4>10. ASSUME NEW i \in DOMAIN s, i # 1 PROVE s[i].op # "remove"
        <5>1. i - 1 \in 1 .. Len(t) /\ i = 1 + (i - 1) BY <4>8, <4>10
        <5> QED BY <4>6, <4>8, <5>1 DEF Gentle
      <4> QED BY <4>3, <4>7, <4>9, <4>10
    <3> QED BY <3>1, <3>2
  <2>5. Careful' BY ONLY <1>1, <1>2, <1>4, <1>5, <2>4, IInv, p \in Proc, SendsCareful
  <2> QED BY <1>6, <2>3, <2>5
<1>8. ASSUME NEW w \in Warehouse, NEW v \in Variant, NEW k \in Int, NEW m \in Int,
             Writes(p, w, v, k, m), s \in Seq(Checked), Exact(p, s, v, k, m)
      PROVE  Careful' /\ Exactly'
  <2>0. m = k BY <1>8 DEF Exact
  <2>1. Careful'
    <3>1. \A i \in DOMAIN s : s[i].op # "remove" BY <1>8, GentleChecked DEF Gentle
    <3>2. \A i \in DOMAIN s : s[i].op = "remove" =>
             i = 1 /\ Seen(p, Place(s[i].w, s[i].v))' >= s[i].n
      BY <3>1
    <3> QED BY ONLY <1>1, <1>2, <1>4, <1>5, <3>2, IInv, p \in Proc, SendsCareful
  <2>2. pend \in [Proc -> [Shelf -> Int]] BY DEF IInv, TableInv, TablesType
  <2>3. pend' = [pend EXCEPT ![p][<<w, v>>] = @ + m] BY <1>8 DEF Writes
  <2>4. ASSUME NEW q \in Proc, NEW a \in Warehouse, NEW b \in Variant
        PROVE  Seen(q, Place(a, b))' - com'[Place(a, b)] = pend'[q][<<a, b>>]
    <3> DEFINE x == Place(w, v)  y == Place(a, b)
    <3>1. /\ y \in Row /\ <<a, b>> \in Shelf /\ y[1] = a /\ y[2] = b
          /\ x \in Row /\ <<w, v>> \in Shelf /\ x[1] = w /\ x[2] = v
      BY PlaceIs DEF Shelf
    <3>2. /\ Seen(q, y) \in Int /\ com[y] \in Int /\ pend[q][<<a, b>>] \in Int
      BY <1>2, PlaceType
    <3>3. Seen(q, y) - com[y] = pend[q][<<a, b>>] BY <1>2 DEF Exactly
    <3>4. CASE q # p
      <4>1. Seen(q, y)' = Seen(q, y) /\ pend'[q] = pend[q] BY <3>1, <3>4, OthersSee
      <4> QED BY <1>1, <3>3, <4>1
    <3>5. CASE q = p /\ <<a, b>> # <<w, v>>
      <4>1. y # x
        <5> HIDE DEF x, y
        <5> QED BY <3>1, <3>5
      <4>2. Seen(p, y)' = Seen(p, y)
        <5>1. CASE Still BY <1>1, <5>1 DEF Still, Seen
        <5>2. CASE Shifts(p, w, v, k) BY <1>1, <1>2, <3>1, <4>1, <5>2, ShiftSees
        <5> QED BY <1>8, <5>1, <5>2 DEF Writes
      <4>3. pend'[p][<<a, b>>] = pend[p][<<a, b>>] BY <2>2, <2>3, <3>1, <3>5
      <4> QED BY <1>1, <3>3, <3>5, <4>2, <4>3
    <3>6. CASE q = p /\ <<a, b>> = <<w, v>>
      <4>1. a = w /\ b = v BY <3>6
      <4>2. pend'[p][<<w, v>>] = pend[p][<<w, v>>] + k BY <2>0, <2>2, <2>3, <3>1
      <4>3. Seen(p, x)' = Seen(p, x) + k
        <5>1. CASE Still /\ k = 0
          <6>1. Seen(p, x)' = Seen(p, x) BY <1>1, <5>1 DEF Still, Seen
          <6>2. Seen(p, x) \in Int BY <3>2, <3>6, <4>1
          <6> HIDE DEF x
          <6> QED BY <5>1, <6>1, <6>2
        <5>2. CASE Shifts(p, w, v, k) BY <1>1, <1>2, <5>2, ShiftSees
        <5> QED BY <1>8, <5>1, <5>2 DEF Writes
      <4> HIDE DEF x, y
      <4>4. x = y BY <4>1 DEF x, y
      <4>5. \A f, g, h, i \in Int : f - g = h => (f + i) - g = h + i OBVIOUS
      <4>6. (Seen(p, y) + k) - com[y] = pend[p][<<a, b>>] + k
        BY <3>2, <3>3, <3>6, <4>5
      <4> QED BY <1>1, <3>6, <4>1, <4>2, <4>3, <4>4, <4>6 DEF y
    <3> QED BY <3>4, <3>5, <3>6
  <2>5. Exactly' BY <2>4 DEF Exactly
  <2> QED BY <2>1, <2>5
<1> QED BY <1>4, <1>6, <1>7, <1>8

\* A statement that changes no row and no entry, and sends nothing unchecked.
LEMMA QuietCalm ==
  ASSUME IInv, Careful, Exactly, Settled, NEW p \in Proc, NEW q,
         prog' = [prog EXCEPT ![p] = q], UNCHANGED tables, Gentle(q)
  PROVE  Careful' /\ Exactly' /\ Settled'
<1>1. com' = com /\ draft' = draft /\ holder' = holder /\ log' = log /\ pend' = pend
  BY DEF tables
<1>2. prog \in [Proc -> Seq(Statement)] BY DEF IInv, ControlType
<1>3. prog'[p] = q /\ \A o \in Proc \ {p} : prog'[o] = prog[o] BY <1>2
<1>4. Exactly' /\ Settled' BY <1>1 DEF Exactly, Settled, Seen
<1>5. Careful'
  <2>1. ASSUME NEW o \in Proc, NEW i \in DOMAIN prog'[o], prog'[o][i].op = "remove"
        PROVE  (i = 1 /\ Seen(o, Place(prog[o][i].w, prog[o][i].v)) >= prog[o][i].n)'
    <3>1. CASE o = p BY <1>3, <2>1, <3>1 DEF Gentle
    <3>2. CASE o # p
      <4>1. prog'[o] = prog[o] BY <1>3, <3>2
      <4>2. i = 1 /\ Seen(o, Place(prog[o][i].w, prog[o][i].v)) >= prog[o][i].n
        BY <2>1, <4>1 DEF Careful
      <4> QED BY <1>1, <4>1, <4>2 DEF Seen
    <3> QED BY <3>1, <3>2
  <2> QED BY <2>1 DEF Careful
<1> QED BY <1>4, <1>5

\* The victim of a deadlock is at work.
LEMMA VictimBusy ==
  ASSUME NEW p \in Proc, DeadlockVictim(p)
  PROVE  prog[p] # <<>>
<1>1. WaitsFor(p) # {} BY DEF DeadlockVictim
<1>2. Targets(p) # {} BY <1>1 DEF WaitsFor, Blockers
<1> QED BY <1>2 DEF Targets

\* The only request there is fails: everything is as it was published.
LEMMA AbortCalm ==
  ASSUME IInv, OneRowEach, LogInv, CalmInv, NEW p \in Proc, prog[p] # <<>>, Abort(p)
  PROVE  Careful' /\ Exactly' /\ Settled'
<1>1. /\ holder \in [Row -> Proc \cup {Nobody}] /\ pend \in [Proc -> [Shelf -> Int]]
      /\ prog \in [Proc -> Seq(Statement)]
  BY DEF IInv, TableInv, TablesType, ControlType
<1>2. /\ com' = com /\ log' = log
      /\ holder' = [r \in Row |-> IF holder[r] = p THEN Nobody ELSE holder[r]]
      /\ pend' = [pend EXCEPT ![p] = NoEntries]
      /\ prog' = [prog EXCEPT ![p] = <<>>]
      /\ draft' = [r \in Row |-> IF holder[r] = p THEN com[r] ELSE draft[r]]
  BY DEF Abort, Rollback, Release
<1>3. Nobody \notin Proc BY StockConstants
<1>4. pend'[p] = NoEntries /\ prog'[p] = <<>>
      /\ \A o \in Proc \ {p} : prog'[o] = prog[o] /\ pend'[o] = pend[o]
  BY <1>1, <1>2
<1>5. RowsStay BY DEF LogInv
<1>6. \A o \in Proc : DOMAIN prog'[o] = {} BY <1>4, OthersIdle DEF CalmInv
<1>7. Careful' BY <1>6 DEF Careful
<1>8. Settled' BY <1>2 DEF CalmInv, Settled
<1>9. ASSUME NEW o \in Proc, NEW w \in Warehouse, NEW v \in Variant
      PROVE  Seen(o, Place(w, v))' - com'[Place(w, v)] = pend'[o][<<w, v>>]
  <2> DEFINE x == Place(w, v)
  <2>1. x \in Row /\ <<w, v>> \in Shelf /\ com[x] \in Int BY <1>5, PlaceType
  <2> HIDE DEF x
  <2>2. CASE o = p
    <3>1. Seen(p, x)' = com[x] BY <1>2, <1>3, <2>1 DEF Seen
    <3>2. pend'[p][<<w, v>>] = 0 BY <1>4, <2>1 DEF NoEntries
    <3>3. com[x] - com[x] = 0 BY <2>1
    <3> QED BY <1>2, <2>2, <3>1, <3>2, <3>3 DEF x
  <2>3. CASE o # p
    <3>1. Seen(o, x)' = Seen(o, x) BY <1>2, <1>3, <2>1, <2>3 DEF Seen
    <3>2. Seen(o, x) - com[x] = pend[o][<<w, v>>] BY DEF CalmInv, Exactly, x
    <3> QED BY <1>2, <1>4, <2>3, <3>1, <3>2 DEF x
  <2> QED BY <2>2, <2>3
<1>10. Exactly' BY <1>9 DEF Exactly
<1> QED BY <1>7, <1>8, <1>10

\* The only request there is commits: everything is as it was logged.
LEMMA CommitCalm ==
  ASSUME IInv, OneRowEach, LogInv, CalmInv, NEW p \in Proc, CommitJob(p)
  PROVE  Careful' /\ Exactly' /\ Settled'
<1>1. /\ holder \in [Row -> Proc \cup {Nobody}] /\ pend \in [Proc -> [Shelf -> Int]]
      /\ prog \in [Proc -> Seq(Statement)]
  BY DEF IInv, TableInv, TablesType, ControlType
<1>2. /\ com' = [r \in Row |-> Seen(p, r)]
      /\ log' = [s \in Shelf |-> log[s] + pend[p][s]]
      /\ holder' = [r \in Row |-> IF holder[r] = p THEN Nobody ELSE holder[r]]
      /\ pend' = [pend EXCEPT ![p] = NoEntries]
      /\ prog' = [prog EXCEPT ![p] = Tail(prog[p])]
      /\ prog[p] # <<>> /\ Now(p).op = "commit"
  BY DEF CommitJob, Committed, Commit, Release, At, Now
<1>3. Nobody \notin Proc BY StockConstants
<1>4. pend'[p] = NoEntries /\ prog'[p] = Tail(prog[p])
      /\ \A o \in Proc \ {p} : prog'[o] = prog[o] /\ pend'[o] = pend[o]
  BY <1>1, <1>2
<1>5. RowsStay /\ OneAtATime BY DEF LogInv, CalmInv
<1>6. ASSUME NEW o \in Proc \ {p}
      PROVE  /\ \A r \in Row : holder[r] # o
             /\ \A s \in Shelf : pend[o][s] = 0
             /\ DOMAIN prog[o] = {}
  <2>1. DOMAIN prog[o] = {} BY <1>2, <1>5, OthersIdle
  <2> QED BY <2>1 DEF LogInv, Holding
<1>7. \A o \in Proc, r \in Row : Seen(o, r)' = com'[r]
  <2>1. \A o \in Proc, r \in Row : holder'[r] # o BY <1>2, <1>3, <1>6
  <2> QED BY <2>1 DEF Seen
<1>8. \A o \in Proc, s \in Shelf : pend'[o][s] = 0 BY <1>4, <1>6 DEF NoEntries
<1>9. prog[p] \in Seq(Statement) /\ OfShop(prog[p]) /\ 1 \in DOMAIN prog[p]
  BY <1>1, <1>2, PlannedAll DEF LogInv
<1>10. \A i \in DOMAIN prog'[p] : prog'[p][i].op = "decide"
  <2>1. \A k \in DOMAIN prog[p] : k > 1 => prog[p][k].op = "decide"
    BY <1>2, <1>9 DEF OfShop, Now
  <2>2. \A i \in DOMAIN Tail(prog[p]) : /\ i + 1 \in DOMAIN prog[p] /\ i + 1 > 1
                                       /\ Tail(prog[p])[i] = prog[p][i + 1]
    BY <1>2, <1>9, TailOfShop
  <2>3. \A i \in DOMAIN Tail(prog[p]) : Tail(prog[p])[i].op = "decide" BY <2>1, <2>2
  <2> QED BY <1>4, <2>3
<1>11. Careful' BY <1>4, <1>6, <1>10 DEF Careful
<1>12. ASSUME NEW w \in Warehouse, NEW v \in Variant
       PROVE  /\ com'[Place(w, v)] = Opening[Place(w, v)] + log'[<<w, v>>]
              /\ com'[Place(w, v)] - com'[Place(w, v)] = 0
  <2> DEFINE x == Place(w, v)  e == pend[p][<<w, v>>]  l == log[<<w, v>>]
  <2>1. /\ x \in Row /\ <<w, v>> \in Shelf /\ Seen(p, x) \in Int /\ com[x] \in Int
        /\ Opening[x] \in Int /\ e \in Int /\ l \in Int
    BY <1>5, PlaceType
  <2>2. com'[x] = Seen(p, x) /\ log'[<<w, v>>] = l + e BY <1>2, <2>1
  <2>3. Seen(p, x) - com[x] = e /\ com[x] = Opening[x] + l BY DEF CalmInv, Exactly, Settled
  <2> HIDE DEF x, e, l
  <2>4. Seen(p, x) = Opening[x] + (l + e) BY <2>1, <2>3
  <2>5. com'[x] - com'[x] = 0 BY <2>1, <2>2
  <2> QED BY <2>2, <2>4, <2>5 DEF x
<1>13. Settled' BY <1>12 DEF Settled
<1>14. Exactly'
  <2>1. \A w \in Warehouse, v \in Variant : Place(w, v) \in Row /\ <<w, v>> \in Shelf
    BY PlaceIs DEF Shelf
  <2> QED BY <1>7, <1>8, <1>12, <2>1 DEF Exactly
<1> QED BY <1>11, <1>13, <1>14

\* No request of the shop begins with taking something unchecked.
LEMMA HandlerGentle ==
  ASSUME ShopJobs, NEW j \in Job
  PROVE  Gentle(Handler(j))
<1>1. j \in SaleJob \cup BulkJob \cup ShelfJob \cup MoveJob \cup DecideJob \cup AdjustJob
  BY ServiceConstants
<1>2. j.kind \in {"sale", "move", "lote", "decide"} BY DEF ShopJobs
<1>3. CASE j.kind = "sale"
  <2>1. j.w \in Warehouse /\ j.items \in Seq(Amount) BY <1>3, SaleItems
  <2> DEFINE s == Each("sell", j.w, j.items, 1)
  <2>2. "sell" \in Takes \cup Puts /\ "sell" # "remove" /\ 1 \in Nat \ {0} BY DEF Takes
  <2>3. s \in Seq(Checked) /\ s \in Seq(Statement) BY <2>1, <2>2, EachMoving
  <2>4. Handler(j) = s \o Ends BY <1>3 DEF Handler
  <2> HIDE DEF s
  <2> QED BY <2>3, <2>4, GentleChecked, GentleEnds
<1>4. CASE j.kind = "move"
  <2>1. j \in MoveJob BY <1>1, <1>4 DEF BulkJob, ShelfJob, SaleJob, DecideJob, AdjustJob
  <2>2. j.from \in Warehouse /\ j.to \in Warehouse /\ j.products \in Seq(Product)
    BY <2>1 DEF MoveJob
  <2>3. Handler(j) = Unpack(j.from, j) \o Ends BY <1>4 DEF Handler
  <2>4. Unpack(j.from, j) \in Seq(Statement) BY <2>2, UnpackType
  <2>5. Gentle(Unpack(j.from, j)) BY DEF Gentle, Unpack
  <2> QED BY <2>3, <2>4, <2>5, GentleEnds
<1>5. CASE j.kind = "lote"
  <2>1. j \in ShelfJob BY <1>1, <1>5 DEF BulkJob, MoveJob, SaleJob, DecideJob, AdjustJob
  <2>2. j.w \in Warehouse /\ j.v \in Variant /\ j.n \in Nat \ {0} BY <2>1 DEF ShelfJob
  <2>3. Parts[j.v] \in Seq(Amount) BY <2>2, ServiceConstants
  <2>4. "take" \in Takes \cup Puts /\ "probe" \in Takes \cup Puts BY DEF Takes, Puts
  <2> DEFINE a == <<On("take", j.w, j.v, j.n)>>  b == Each("probe", j.w, Parts[j.v], j.n)
  <2>5. a \in Seq(Checked) BY <2>2, <2>4, OnMoving
  <2>6. b \in Seq(Checked) BY <2>2, <2>3, <2>4, EachMoving
  <2>7. Handler(j) = (a \o b) \o Ends BY <1>5 DEF Handler
  <2> HIDE DEF a, b
  <2>8. a \o b \in Seq(Checked) BY <2>5, <2>6
  <2> QED BY <2>7, <2>8, MovingStatements, GentleChecked, GentleEnds
<1>6. CASE j.kind = "decide"
  <2>1. Handler(j) = <<[op |-> "check", doc |-> j.doc, to |-> j.status]>>
    BY <1>6 DEF Handler
  <2> QED BY <2>1 DEF Gentle
<1> QED BY <1>2, <1>3, <1>4, <1>5, <1>6

\* What is left when a decision has been written.
LEMMA DecideSends ==
  ASSUME IInv, LogInv, NEW p \in Proc, Decide(p)
  PROVE  /\ prog[p] \in Seq(Statement) /\ prog[p] # <<>> /\ OfShop(prog[p])
         /\ prog[p][1].op = "decide" /\ prog[p][1] \in Statement
         /\ Tail(prog[p]) \in Seq(Statement)
         /\ prog' = [prog EXCEPT ![p] = Tail(prog[p])] /\ UNCHANGED tables
         /\ job' = job /\ commits' = commits
<1>1. /\ prog[p] \in Seq(Statement) /\ prog[p] # <<>> /\ prog[p][1].op = "decide"
      /\ Tail(prog[p]) \in Seq(Statement) /\ prog[p][1] \in Statement
  BY DEF IInv, ControlType, Decide, At
<1>2. /\ prog' = [prog EXCEPT ![p] = <<>> \o Tail(prog[p])] /\ UNCHANGED tables
      /\ job' = job /\ commits' = commits
  BY DEF Decide, Then
<1>3. <<>> \o Tail(prog[p]) = Tail(prog[p]) BY <1>1, NoneInFront
<1> QED BY <1>1, <1>2, <1>3, PlannedAll DEF LogInv

\* The only request there is writes its decision.
LEMMA DecideCalm ==
  ASSUME IInv, LogInv, CalmInv, NEW p \in Proc, Decide(p)
  PROVE  Careful' /\ Exactly' /\ Settled'
<1>1. /\ prog[p] \in Seq(Statement) /\ prog[p] # <<>> /\ OfShop(prog[p])
      /\ prog' = [prog EXCEPT ![p] = Tail(prog[p])] /\ UNCHANGED tables
  BY DecideSends
<1>2. Careful /\ Exactly /\ Settled BY DEF CalmInv
<1>3. Gentle(Tail(prog[p]))
  <2>1. \A i \in DOMAIN Tail(prog[p]) :
          /\ i + 1 \in DOMAIN prog[p] /\ i + 1 # 1 /\ Tail(prog[p])[i] = prog[p][i + 1]
    BY <1>1, TailOfShop
  <2> QED BY <1>2, <2>1 DEF Gentle, Careful
<1> QED BY <1>1, <1>2, <1>3, QuietCalm

\* The shop opens with nobody in it.
LEMMA InitCalm == OneRowEach /\ Init => CalmInv
<1> SUFFICES ASSUME OneRowEach, Init PROVE CalmInv
  OBVIOUS
<1>1. IInv /\ LogInv BY InitIInv, InitLogs
<1>2. \A p \in Proc : prog[p] = <<>> /\ DOMAIN prog[p] = {} BY DEF Init
<1>3. \A p \in Proc, r \in Row : holder[r] # p BY StockConstants DEF Init
<1>4. OneAtATime /\ Careful BY <1>2 DEF OneAtATime, Careful
<1>5. Exactly
  <2> SUFFICES ASSUME NEW p \in Proc, NEW w \in Warehouse, NEW v \in Variant
               PROVE  Seen(p, Place(w, v)) - com[Place(w, v)] = pend[p][<<w, v>>]
    BY DEF Exactly
  <2> DEFINE x == Place(w, v)
  <2>1. x \in Row /\ com[x] \in Int /\ <<w, v>> \in Shelf BY <1>1, PlaceType DEF LogInv
  <2>2. pend[p][<<w, v>>] = 0 BY <2>1 DEF Init, NoEntries
  <2>3. Seen(p, x) = com[x] BY <1>3, <2>1 DEF Seen
  <2> HIDE DEF x
  <2>4. com[x] - com[x] = 0 BY <2>1
  <2> QED BY <2>2, <2>3, <2>4 DEF x
<1>6. Settled
  <2> SUFFICES ASSUME NEW w \in Warehouse, NEW v \in Variant
               PROVE  com[Place(w, v)] = Opening[Place(w, v)] + log[<<w, v>>]
    BY DEF Settled
  <2> DEFINE x == Place(w, v)
  <2>1. x \in Row /\ Opening[x] \in Int /\ <<w, v>> \in Shelf
    <3>1. Opening[x] # Absent /\ x \in Row /\ <<w, v>> \in Shelf BY PlaceIs DEF Shelf
    <3> QED BY <3>1, ServiceConstants
  <2>2. com = Opening /\ log[<<w, v>>] = 0 BY <2>1 DEF Init, NoEntries
  <2> HIDE DEF x
  <2>3. Opening[x] + 0 = Opening[x] BY <2>1
  <2> QED BY <2>2, <2>3 DEF x
<1> QED BY <1>4, <1>5, <1>6 DEF CalmInv

\* As long as requests come one at a time, every step keeps it.
LEMMA NextCalm ==
  ASSUME OneRowEach, ShopJobs
  PROVE  IInv /\ LogInv /\ CalmInv /\ [Next]_vars /\ OneAtATime' => CalmInv'
<1> SUFFICES ASSUME IInv, LogInv, CalmInv, [Next]_vars, OneAtATime'
             PROVE  Careful' /\ Exactly' /\ Settled'
  BY DEF CalmInv
<1>0. RowsStay /\ Planned /\ Careful /\ Exactly /\ Settled BY DEF LogInv, CalmInv
<1>1. CASE UNCHANGED vars
  <2>1. com' = com /\ draft' = draft /\ holder' = holder /\ log' = log /\ pend' = pend
        /\ prog' = prog
    BY <1>1 DEF vars, tables
  <2> QED BY <1>0, <2>1 DEF Careful, Exactly, Settled, Seen
<1>2. ASSUME NEW p \in Proc, Receive(p) PROVE Careful' /\ Exactly' /\ Settled'
  <2>1. PICK j \in Job : prog' = [prog EXCEPT ![p] = Handler(j)] BY <1>2 DEF Receive
  <2>2. UNCHANGED tables BY <1>2 DEF Receive
  <2>3. Gentle(Handler(j)) BY HandlerGentle
  <2> QED BY <1>0, <2>1, <2>2, <2>3, QuietCalm
<1>3. ASSUME NEW p \in Proc, Step(p) PROVE Careful' /\ Exactly' /\ Settled'
  <2>1. ASSUME Does(p) \/ (Abort(p) /\ prog[p] # <<>>) PROVE Careful' /\ Exactly' /\ Settled'
    BY <2>1, DoesCalm, AbortCalm
  <2>2. CASE Sale(p)
    <3>1. prog[p] # <<>>
      BY <2>2 DEF Sale, SellDirect, SellLeaf, TryParent, BreakParent, RereadLeaf,
                  FinalCheck, Remove, At
    <3> QED BY <1>0, <2>1, <2>2, <3>1, SaleDoes
  <2>3. CASE Move(p)
    <3>1. prog[p] # <<>>
      BY <2>3 DEF Move, Take, Probe, Add, Insert, Put, MoveProduct, At
    <3> QED BY <1>0, <2>1, <2>3, <3>1, MoveDoes
  <2>4. CASE Raw(p) BY <1>0, <2>4, RawNever
  <2>5. CASE CheckRequest(p)
    <3>1. prog[p] # <<>> BY <2>5 DEF CheckRequest, At
    <3>2. CASE Abort(p) BY <2>1, <3>1, <3>2
    <3>3. CASE ~Abort(p)
      <4>1. UNCHANGED tables BY <2>5, <3>3, CheckSends
      <4>2. PICK c \in Seq(Statement) : prog' = [prog EXCEPT ![p] = c] /\ Gentle(c)
        BY <2>5, <3>3, CheckSends
      <4> QED BY <1>0, <4>1, <4>2, QuietCalm
    <3> QED BY <3>2, <3>3
  <2>6. CASE Decide(p) BY <2>6, DecideCalm
  <2>7. CASE CommitJob(p) BY <2>7, CommitCalm
  <2>8. CASE DeadlockVictim(p)
    <3>1. prog[p] # <<>> /\ Abort(p) BY <2>8, VictimBusy DEF DeadlockVictim
    <3> QED BY <2>1, <3>1
  <2>9. ~CheckReport(p) /\ ~MarkApplied(p) BY <1>0, RawNever
  <2> QED BY <1>3, <2>2, <2>3, <2>4, <2>5, <2>6, <2>7, <2>8, <2>9 DEF Step, Document
<1>4. ASSUME NEW p \in Proc, Fail(p) PROVE Careful' /\ Exactly' /\ Settled'
  BY <1>4, AbortCalm DEF Fail
<1> QED BY <1>1, <1>2, <1>3, <1>4 DEF Next, Rest

\* The shop that watches for two requests at once is the shop.
LEMMA CounterSteps ==
  /\ CounterInit => Init /\ alone
  /\ [CounterNext]_<<vars, alone>> => [Next]_vars
  /\ [CounterNext]_<<vars, alone>> /\ alone' => alone /\ (OneAtATime' \/ UNCHANGED vars)
BY DEF CounterInit, CounterNext, vars, tables, docs

\* So it has what the shop has, and all of it while requests come one at a time.
CounterInv == IInv /\ LogInv /\ (alone => CalmInv)

\* It opens with that.
LEMMA InitCounter == OneRowEach /\ CounterInit => CounterInv
BY CounterSteps, InitIInv, InitLogs, InitCalm DEF CounterInv

\* And keeps it.
LEMMA NextCounter ==
  OneRowEach /\ ShopJobs /\ CounterInv /\ [CounterNext]_<<vars, alone>> => CounterInv'
<1> SUFFICES ASSUME OneRowEach, ShopJobs, CounterInv, [CounterNext]_<<vars, alone>>
             PROVE  CounterInv'
  OBVIOUS
<1>1. [Next]_vars BY CounterSteps
<1>2. IInv' /\ LogInv' BY <1>1, NextIInv, NextLogs DEF CounterInv
<1>3. ASSUME alone' PROVE CalmInv'
  <2>1. alone /\ (OneAtATime' \/ UNCHANGED vars) BY <1>3, CounterSteps
  <2>2. CalmInv BY <2>1 DEF CounterInv
  <2>3. UNCHANGED vars => (OneAtATime' <=> OneAtATime) BY DEF vars, OneAtATime
  <2>4. OneAtATime' BY <2>1, <2>2, <2>3 DEF CalmInv
  <2> QED BY <1>1, <2>2, <2>4, NextCalm DEF CounterInv
<1> QED BY <1>2, <1>3 DEF CounterInv

\* In a shop with one row on every shelf that sells, moves and breaks up what
\* there is, the log explains the stock to the unit while requests come one at a
\* time, whatever fails: the row an unchecked decrement is to find is still what
\* it was when the same session looked, so that what was logged as taken was.
THEOREM LogTellsAll == OneRowEach /\ ShopJobs => (CounterSpec => []LogFollowsStock)
<1> SUFFICES ASSUME OneRowEach, ShopJobs PROVE CounterSpec => []LogFollowsStock
  OBVIOUS
<1>1. CounterInv => LogFollowsStock
  <2> SUFFICES ASSUME IInv, LogInv, CalmInv, NEW s \in Shelf
               PROVE  OnShelf(com, s) = OnShelf(Opening, s) + log[s]
    BY DEF CounterInv, LogFollowsStock, LogExplainsStock
  <2>1. PICK w \in Warehouse, v \in Variant : s = <<w, v>> BY DEF Shelf
  <2>2. com \in [Row -> Stock] BY DEF IInv, TableInv, TablesType
  <2>3. Opening \in [Row -> Stock] BY ServiceConstants DEF Stock
  <2>4. OnShelf(com, s) = com[Place(w, v)]
    BY <2>1, <2>2, OnShelfIs DEF LogInv, RowsStay
  <2>5. OnShelf(Opening, s) = Opening[Place(w, v)] BY <2>1, <2>3, OnShelfIs
  <2> QED BY <2>1, <2>4, <2>5 DEF CalmInv, Settled
<1>2. OneRowEach /\ ShopJobs OBVIOUS
<1> QED BY <1>1, <1>2, InitCounter, NextCounter, PTL DEF CounterSpec

-----------------------------------------------------------------------------
(* One sale at a time.                                                      *)

Closing(q) == \E i \in DOMAIN q : q[i].op = "commit"

\* A session that has a COMMIT to send owes the shelves what its customer is to
\* get, and not a unit less.
Even ==
  \A p \in Proc, leaf \in Leaf :
    Closing(prog[p]) => Gain(p, leaf) + Owed(prog[p], leaf) + Ordered(p, leaf) = 0

\* The sessions that a step does not touch.
LEMMA OthersEven ==
  ASSUME IInv, RowsStay, IsFiniteSet(Row), Even, NEW p \in Proc,
         prog'[p] = prog[p], job'[p] = job[p],
         \A r \in Row : Opening[r] # Absent => Seen(p, r)' - com'[r] = Seen(p, r) - com[r],
         NEW leaf \in Leaf, Closing(prog'[p])
  PROVE  Gain(p, leaf)' + Owed(prog'[p], leaf) + Ordered(p, leaf)' = 0
<1>1. Gain(p, leaf)' = Gain(p, leaf) BY GainSame
<1>2. Ordered(p, leaf)' = Ordered(p, leaf) BY DEF Ordered
<1> QED BY <1>1, <1>2 DEF Even

\* A statement leaves to be done just what it did not do.
LEMMA DoesEven ==
  ASSUME IInv, OneRowEach, PacksAddUp, IsFiniteSet(Row), LogInv, CalmInv, Even,
         NEW p \in Proc, Does(p)
  PROVE  Even'
<1>0. RowsStay /\ Careful /\ OneAtATime /\ ~Misses(p)
  BY NeverMisses DEF LogInv, CalmInv
<1>1. PICK s \in Seq(Moving) :
        /\ Then(p, s)
        /\ \/ Still /\ Covers(p, s)
           \/ \E w \in Warehouse, v \in Variant, k \in Int, m \in Int :
                Writes(p, w, v, k, m) /\ Exact(p, s, v, k, m)
  BY <1>0 DEF Does
<1>2. /\ com' = com /\ job' = job /\ prog[p] # <<>>
      /\ Now(p).op \notin {"check", "decide", "commit"}
      /\ prog' = [prog EXCEPT ![p] = s \o Tail(prog[p])]
  BY <1>1 DEF Does, Then
<1>3. PICK q : q = prog[p] OBVIOUS
<1>4. /\ prog \in [Proc -> Seq(Statement)] /\ q \in Seq(Statement) /\ q # <<>>
      /\ s \in Seq(Statement) /\ Tail(q) \in Seq(Statement) /\ q[1] \in Statement
      /\ Now(p) = q[1]
  BY <1>2, <1>3, MovingStatements DEF IInv, ControlType, Now
<1>5. prog'[p] = s \o Tail(q) /\ \A o \in Proc \ {p} : prog'[o] = prog[o]
  BY <1>2, <1>3, <1>4
<1>6. ASSUME Closing(prog'[p]) PROVE Closing(q)
  <2>1. PICK i \in DOMAIN (s \o Tail(q)) : (s \o Tail(q))[i].op = "commit"
    BY <1>5, <1>6 DEF Closing
  <2> DEFINE c == s \o Tail(q)  n == Len(s)
  <2>2. /\ n \in Nat /\ Len(q) \in Nat \ {0} /\ DOMAIN c = 1 .. (n + Len(q) - 1)
        /\ \A k \in 1 .. n : c[k] = s[k]
        /\ \A k \in 2 .. Len(q) : c[k + n - 1] = q[k]
    BY <1>4, InFront
  <2>3. \A k \in 1 .. n : s[k] \in Moving /\ s[k].op # "commit"
    <3>1. \A k \in 1 .. n : s[k] \in Moving OBVIOUS
    <3> QED BY <3>1 DEF Moving, Takes, Puts, LoopOp
  <2>4. c[i].op = "commit" /\ i \in DOMAIN c BY <2>1
  <2> HIDE DEF c, n
  <2>5. i \notin 1 .. n BY <2>2, <2>3, <2>4
  <2>6. i - n + 1 \in 2 .. Len(q) /\ i = (i - n + 1) + n - 1 BY <2>2, <2>4, <2>5
  <2>7. c[i] = q[i - n + 1] /\ i - n + 1 \in DOMAIN q
    <3>1. PICK j \in 2 .. Len(q) : i = j + n - 1 /\ j = i - n + 1 BY <2>6
    <3>2. c[j + n - 1] = q[j] BY ONLY <2>2
    <3>3. DOMAIN q = 1 .. Len(q) BY <1>4
    <3>4. j \in DOMAIN q BY ONLY <2>2, <3>3
    <3> QED BY <3>1, <3>2, <3>4
  <2> QED BY <2>4, <2>7 DEF Closing
<1>7. ASSUME NEW leaf \in Leaf, Closing(prog'[p])
      PROVE  Gain(p, leaf)' + Owed(prog'[p], leaf) + Ordered(p, leaf)' = 0
  <2> DEFINE g == Gain(p, leaf)  t == Owed(Tail(q), leaf)  e == Effect(Now(p), leaf)
             n == Owed(s, leaf)  o == Ordered(p, leaf)
  <2>1. g \in Int /\ t \in Int /\ e \in Int /\ n \in Int /\ o \in Int
    <3>1. g \in Int /\ o \in Int BY <1>0, GainType, OrderedType
    <3>2. t \in Int BY <1>4, OwedType
    <3>3. n \in Int BY <1>4, OwedType
    <3>4. e \in Int BY <1>4, EffectType
    <3> QED BY <3>1, <3>2, <3>3, <3>4
  <2>2. Owed(q, leaf) = e + t BY <1>4, OwedTail
  <2>3. Owed(prog'[p], leaf) = n + t
    <3>1. s \in Seq(Statement) /\ Tail(q) \in Seq(Statement) BY <1>4
    <3>2. Owed(s \o Tail(q), leaf) = Owed(s, leaf) + Owed(Tail(q), leaf)
      BY ONLY <3>1, OwedBoth
    <3> QED BY <1>5, <3>2
  <2>4. Ordered(p, leaf)' = o BY <1>2 DEF Ordered
  <2>5. g + (e + t) + o = 0
    <3>1. Closing(prog[p]) BY <1>3, <1>6, <1>7
    <3>2. Gain(p, leaf) + Owed(prog[p], leaf) + Ordered(p, leaf) = 0 BY <3>1 DEF Even
    <3> QED BY <1>3, <2>2, <3>2
  <2>6. \E d \in Int : Gain(p, leaf)' = g + d /\ d + n = e
    <3>1. CASE Still /\ Covers(p, s)
      <4>1. \A r \in Row : Seen(p, r)' - com'[r] = Seen(p, r) - com[r]
        BY <1>2, <3>1 DEF Still, Seen
      <4>2. Gain(p, leaf)' = g BY <1>0, <4>1, GainSame
      <4>3. n = e BY <3>1 DEF Covers
      <4> HIDE DEF g, n, e
      <4>4. Gain(p, leaf)' = g + 0 /\ 0 + n = e BY <2>1, <4>2, <4>3
      <4> QED BY <4>4
    <3>2. CASE \E w \in Warehouse, v \in Variant, k \in Int, m \in Int :
                 Writes(p, w, v, k, m) /\ Exact(p, s, v, k, m)
      <4>1. PICK w \in Warehouse, v \in Variant, k \in Int, m \in Int :
              Writes(p, w, v, k, m) /\ Exact(p, s, v, k, m)
        BY <3>2
      <4> DEFINE d == k * Weight(v, leaf)
      <4>2. d \in Int BY WeightType, TimesType
      <4>3. d + n = e BY <4>1 DEF Exact
      <4>4. CASE Shifts(p, w, v, k)
        <5>1. Gain(p, leaf)' = g + d BY <1>0, <1>2, <4>4, GainShifts
        <5> QED BY <4>2, <4>3, <5>1
      <4>5. CASE k = 0 /\ Still
        <5>1. \A r \in Row : Seen(p, r)' - com'[r] = Seen(p, r) - com[r]
          BY <1>2, <4>5 DEF Still, Seen
        <5>2. Gain(p, leaf)' = g BY <1>0, <5>1, GainSame
        <5>3. d = 0
          <6>1. \A a \in Int : 0 * a = 0 OBVIOUS
          <6>2. Weight(v, leaf) \in Int BY WeightType
          <6> QED BY <4>5, <6>1, <6>2
        <5> HIDE DEF g, n, e, d
        <5>4. Gain(p, leaf)' = g + d BY <2>1, <5>2, <5>3
        <5> QED BY <4>2, <4>3, <5>4
      <4> QED BY <4>1, <4>4, <4>5 DEF Writes
    <3> QED BY <1>1, <3>1, <3>2
  <2>7. PICK d \in Int : Gain(p, leaf)' = g + d /\ d + n = e BY <2>6
  <2> HIDE DEF g, t, e, n, o
  <2>8. (g + d) + (n + t) + o = 0 BY <2>1, <2>5, <2>7
  <2> QED BY <2>3, <2>4, <2>7, <2>8
<1>8. \A z \in Proc \ {p} : ~Closing(prog'[z])
  BY <1>0, <1>2, <1>5, OthersIdle DEF Closing
<1>9. ASSUME NEW z \in Proc, NEW leaf \in Leaf, Closing(prog'[z])
      PROVE  Gain(z, leaf)' + Owed(prog'[z], leaf) + Ordered(z, leaf)' = 0
  BY <1>7, <1>8, <1>9
<1> QED BY <1>9 DEF Even, Leaf, Weight

\* A statement that changes no row.
LEMMA QuietEven ==
  ASSUME IInv, IsFiniteSet(Row), RowsStay, Even, NEW p \in Proc, NEW q,
         prog' = [prog EXCEPT ![p] = q], UNCHANGED tables,
         \A z \in Proc \ {p} : job'[z] = job[z],
         Closing(q) => \A leaf \in Leaf :
                         Gain(p, leaf) + Owed(q, leaf) + Ordered(p, leaf)' = 0
  PROVE  Even'
<1>1. com' = com /\ holder' = holder /\ draft' = draft BY DEF tables
<1>2. prog \in [Proc -> Seq(Statement)] BY DEF IInv, ControlType
<1>3. prog'[p] = q /\ \A z \in Proc \ {p} : prog'[z] = prog[z] BY <1>2
<1>4. \A z \in Proc, r \in Row : Seen(z, r)' - com'[r] = Seen(z, r) - com[r]
  BY <1>1 DEF Seen
<1>5. ASSUME NEW z \in Proc, NEW leaf \in Leaf, Closing(prog'[z])
      PROVE  Gain(z, leaf)' + Owed(prog'[z], leaf) + Ordered(z, leaf)' = 0
  <2>1. CASE z = p
    <3>1. Gain(p, leaf)' = Gain(p, leaf) BY <1>4, GainSame
    <3> QED BY <1>3, <1>5, <2>1, <3>1
  <2>2. CASE z # p
    <3>1. \A r \in Row : Seen(z, r)' - com'[r] = Seen(z, r) - com[r] BY <1>4
    <3>2. prog'[z] = prog[z] /\ job'[z] = job[z] BY <1>3, <2>2
    <3> QED BY <1>5, <3>1, <3>2, OthersEven
  <2> QED BY <2>1, <2>2
<1> QED BY <1>5 DEF Even, Leaf, Weight

\* As long as requests come one at a time, every step keeps it.
LEMMA NextEven ==
  ASSUME OneRowEach, ShopJobs, PacksAddUp, IsFiniteSet(Row)
  PROVE  IInv /\ Backed /\ LogInv /\ CalmInv /\ Even /\ [Next]_vars => Even'
<1> SUFFICES ASSUME IInv, Backed, LogInv, CalmInv, Even, [Next]_vars PROVE Even'
  OBVIOUS
<1>0. RowsStay /\ Planned /\ OneAtATime BY DEF LogInv, CalmInv
<1>1. CASE UNCHANGED vars
  <2>1. com' = com /\ draft' = draft /\ holder' = holder /\ prog' = prog /\ job' = job
    BY <1>1 DEF vars, tables
  <2>2. ASSUME NEW z \in Proc, NEW leaf \in Leaf, Closing(prog'[z])
        PROVE  Gain(z, leaf)' + Owed(prog'[z], leaf) + Ordered(z, leaf)' = 0
    <3>1. \A r \in Row : Seen(z, r)' - com'[r] = Seen(z, r) - com[r] BY <2>1 DEF Seen
    <3> QED BY <1>0, <2>1, <2>2, <3>1, OthersEven
  <2> QED BY <2>2 DEF Even, Leaf, Weight
<1>2. ASSUME NEW p \in Proc, prog[p] # <<>>,
             DOMAIN prog'[p] = {} \/ \A i \in DOMAIN prog'[p] : prog'[p][i].op = "decide",
             \A z \in Proc \ {p} : prog'[z] = prog[z]
      PROVE  Even'
  <2>1. \A z \in Proc \ {p} : DOMAIN prog'[z] = {} BY <1>0, <1>2, OthersIdle
  <2>2. \A z \in Proc : ~Closing(prog'[z]) BY <1>2, <2>1 DEF Closing
  <2> QED BY <2>2 DEF Even, Leaf, Weight
<1>3. ASSUME NEW p \in Proc, Abort(p), prog[p] # <<>> PROVE Even'
  <2>1. prog \in [Proc -> Seq(Statement)] /\ prog' = [prog EXCEPT ![p] = <<>>]
    BY <1>3 DEF IInv, ControlType, Abort
  <2>2. prog'[p] = <<>> /\ \A z \in Proc \ {p} : prog'[z] = prog[z] BY <2>1
  <2>3. DOMAIN prog'[p] = {} BY <2>2
  <2> QED BY <1>2, <1>3, <2>2, <2>3
<1>4. ASSUME NEW p \in Proc, Receive(p) PROVE Even'
  <2>1. PICK j \in Job : /\ Accepted(j) /\ prog' = [prog EXCEPT ![p] = Handler(j)]
                         /\ job' = [job EXCEPT ![p] = j]
    BY <1>4 DEF Receive
  <2>2. UNCHANGED tables /\ prog[p] = <<>> BY <1>4 DEF Receive
  <2>3. job \in [Proc -> Job \cup {NoJob}] BY DEF IInv, ControlType
  <2>4. job'[p] = j /\ \A z \in Proc \ {p} : job'[z] = job[z] BY <2>1, <2>3
  <2>5. \A r \in Row : holder[r] # p
    <3>1. DOMAIN prog[p] = {} BY <2>2
    <3> QED BY <3>1 DEF LogInv, Holding
  <2>6. ASSUME NEW leaf \in Leaf
        PROVE  Gain(p, leaf) + Owed(Handler(j), leaf) + Ordered(p, leaf)' = 0
    <3>1. Gain(p, leaf) = 0 BY <1>0, <2>5, GainClean
    <3>2. Ordered(p, leaf)' = IF j.kind = "sale" THEN Made(j.items, leaf) ELSE 0
      BY <2>4 DEF Ordered, Made, Weight
    <3>3. Owed(Handler(j), leaf) + (IF j.kind = "sale" THEN Made(j.items, leaf) ELSE 0) = 0
      BY <2>1, HandlerOwes
    <3>4. Owed(Handler(j), leaf) \in Int BY HandlerType, OwedType
    <3>5. \A a \in Int : 0 + a = a OBVIOUS
    <3> QED BY <3>1, <3>2, <3>3, <3>4, <3>5
  <2> QED BY <1>0, <2>1, <2>2, <2>4, <2>6, QuietEven
<1>5. ASSUME NEW p \in Proc, CheckRequest(p), ~Abort(p) PROVE Even'
  <2>1. /\ UNCHANGED tables /\ job' = job /\ Clean(p)
        /\ Now(p).op = "check" /\ 1 \in DOMAIN prog[p]
    BY <1>5, CheckSends
  <2>2. PICK c \in Seq(Statement) : /\ prog' = [prog EXCEPT ![p] = c]
                                    /\ \A leaf : Owed(c, leaf) = 0
    BY <1>5, CheckSends
  <2>3. job[p].kind = "decide"
    <3>1. Deciding(p, prog[p][1].doc) BY <2>1 DEF Backed, Now
    <3> QED BY <3>1 DEF Deciding
  <2>4. ASSUME NEW leaf \in Leaf
        PROVE  Gain(p, leaf) + Owed(c, leaf) + Ordered(p, leaf)' = 0
    <3>1. Gain(p, leaf) = 0 BY <1>0, <2>1, GainClean DEF Clean
    <3>2. Ordered(p, leaf)' = 0 BY <2>1, <2>3 DEF Ordered
    <3> QED BY <2>2, <3>1, <3>2
  <2> QED BY <1>0, <2>1, <2>2, <2>4, QuietEven
<1>6. ASSUME NEW p \in Proc, Decide(p) PROVE Even'
  <2>1. PICK q : q = prog[p] OBVIOUS
  <2>2. /\ q \in Seq(Statement) /\ q # <<>> /\ OfShop(q)
        /\ q[1].op = "decide" /\ q[1] \in Statement /\ Tail(q) \in Seq(Statement)
        /\ prog' = [prog EXCEPT ![p] = Tail(q)] /\ UNCHANGED tables /\ job' = job
    BY <1>6, <2>1, DecideSends
  <2>3. ASSUME NEW leaf \in Leaf, Closing(Tail(q))
        PROVE  Gain(p, leaf) + Owed(Tail(q), leaf) + Ordered(p, leaf)' = 0
    <3>1. Closing(q)
      <4>1. PICK i \in DOMAIN Tail(q) : Tail(q)[i].op = "commit" BY <2>3 DEF Closing
      <4>2. i + 1 \in DOMAIN q /\ Tail(q)[i] = q[i + 1] BY <2>2, <4>1, TailOfShop
      <4> QED BY <4>1, <4>2 DEF Closing
    <3>2. Gain(p, leaf) + Owed(q, leaf) + Ordered(p, leaf) = 0 BY <2>1, <3>1 DEF Even
    <3>3. Owed(q, leaf) = Effect(q[1], leaf) + Owed(Tail(q), leaf) BY <2>2, OwedTail
    <3>4. Effect(q[1], leaf) = 0 BY <2>2 DEF Effect
    <3>5. Owed(Tail(q), leaf) \in Int BY <2>2, OwedType
    <3>6. \A a \in Int : 0 + a = a OBVIOUS
    <3>7. Ordered(p, leaf)' = Ordered(p, leaf) BY <2>2 DEF Ordered
    <3> QED BY <3>2, <3>3, <3>4, <3>5, <3>6, <3>7
  <2> QED BY <1>0, <2>2, <2>3, QuietEven
<1>7. ASSUME NEW p \in Proc, CommitJob(p) PROVE Even'
  <2>1. /\ prog' = [prog EXCEPT ![p] = Tail(prog[p])]
        /\ prog[p] # <<>> /\ Now(p).op = "commit"
    BY <1>7 DEF CommitJob, Committed, At, Now
  <2>2. prog \in [Proc -> Seq(Statement)] BY DEF IInv, ControlType
  <2>3. prog'[p] = Tail(prog[p]) /\ \A z \in Proc \ {p} : prog'[z] = prog[z]
    BY <2>1, <2>2
  <2>4. prog[p] \in Seq(Statement) /\ OfShop(prog[p]) /\ 1 \in DOMAIN prog[p]
    BY <2>1, <2>2, PlannedAll DEF LogInv
  <2>5. \A i \in DOMAIN Tail(prog[p]) : Tail(prog[p])[i].op = "decide"
    <3>1. \A k \in DOMAIN prog[p] : k > 1 => prog[p][k].op = "decide"
      BY <2>1, <2>4 DEF OfShop, Now
    <3>2. \A i \in DOMAIN Tail(prog[p]) : /\ i + 1 \in DOMAIN prog[p] /\ i + 1 > 1
                                          /\ Tail(prog[p])[i] = prog[p][i + 1]
      BY <2>1, <2>4, TailOfShop
    <3> QED BY <3>1, <3>2
  <2> QED BY <1>2, <2>1, <2>3, <2>5
<1>8. ASSUME NEW p \in Proc, Step(p) PROVE Even'
  <2>1. ASSUME Does(p) \/ (Abort(p) /\ prog[p] # <<>>) PROVE Even'
    BY <1>3, <2>1, DoesEven
  <2>2. CASE Sale(p)
    <3>1. prog[p] # <<>>
      BY <2>2 DEF Sale, SellDirect, SellLeaf, TryParent, BreakParent, RereadLeaf,
                  FinalCheck, Remove, At
    <3> QED BY <1>0, <2>1, <2>2, <3>1, SaleDoes
  <2>3. CASE Move(p)
    <3>1. prog[p] # <<>>
      BY <2>3 DEF Move, Take, Probe, Add, Insert, Put, MoveProduct, At
    <3> QED BY <1>0, <2>1, <2>3, <3>1, MoveDoes
  <2>4. CASE Raw(p) BY <1>0, <2>4, RawNever
  <2>5. CASE CheckRequest(p)
    <3>1. prog[p] # <<>> BY <2>5 DEF CheckRequest, At
    <3> QED BY <1>5, <2>1, <2>5, <3>1
  <2>6. CASE Decide(p) BY <1>6, <2>6
  <2>7. CASE CommitJob(p) BY <1>7, <2>7
  <2>8. CASE DeadlockVictim(p)
    <3>1. prog[p] # <<>> /\ Abort(p) BY <2>8, VictimBusy DEF DeadlockVictim
    <3> QED BY <2>1, <3>1
  <2>9. ~CheckReport(p) /\ ~MarkApplied(p) BY <1>0, RawNever
  <2> QED BY <1>8, <2>2, <2>3, <2>4, <2>5, <2>6, <2>7, <2>8, <2>9 DEF Step, Document
<1>9. ASSUME NEW p \in Proc, Fail(p) PROVE Even' BY <1>3, <1>9 DEF Fail
<1> QED BY <1>1, <1>4, <1>8, <1>9 DEF Next, Rest

\* Customers are served, and stock leaves for good, by COMMIT alone.
LEMMA OnlyCommits ==
  ASSUME IInv, LogInv, OneRowEach, ShopJobs, [Next]_vars,
         ~\E p \in Proc : CommitJob(p)
  PROVE  UNCHANGED <<com, commits>>
<1>0. RowsStay /\ Planned BY DEF LogInv
<1>1. CASE UNCHANGED vars BY <1>1 DEF vars, tables
<1>2. ASSUME NEW p \in Proc, Abort(p) PROVE UNCHANGED <<com, commits>>
  BY <1>2 DEF Abort, Rollback
<1>3. ASSUME NEW p \in Proc, Does(p) PROVE UNCHANGED <<com, commits>>
  BY <1>3 DEF Does, Then
<1>4. ASSUME NEW p \in Proc, Receive(p) PROVE UNCHANGED <<com, commits>>
  BY <1>4 DEF Receive, tables
<1>5. ASSUME NEW p \in Proc, Step(p) PROVE UNCHANGED <<com, commits>>
  <2>1. CASE Sale(p) BY <1>0, <1>2, <1>3, <2>1, SaleDoes
  <2>2. CASE Move(p) BY <1>0, <1>2, <1>3, <2>2, MoveDoes
  <2>3. CASE Raw(p) BY <1>0, <2>3, RawNever
  <2>4. CASE CheckRequest(p)
    <3>1. CASE Abort(p) BY <1>2, <3>1
    <3>2. CASE ~Abort(p) BY <2>4, <3>2, CheckSends DEF tables
    <3> QED BY <3>1, <3>2
  <2>5. CASE Decide(p) BY <2>5, DecideSends DEF tables
  <2>6. CASE DeadlockVictim(p) BY <1>2, <2>6 DEF DeadlockVictim
  <2>7. ~CheckReport(p) /\ ~MarkApplied(p) BY <1>0, RawNever
  <2> QED BY <1>5, <2>1, <2>2, <2>3, <2>4, <2>5, <2>6, <2>7 DEF Step, Document
<1>6. ASSUME NEW p \in Proc, Fail(p) PROVE UNCHANGED <<com, commits>>
  BY <1>2, <1>6 DEF Fail
<1> QED BY <1>1, <1>4, <1>5, <1>6 DEF Next, Rest

\* What is left on the shelves is never less than none.
LEMMA UnitsLeft ==
  ASSUME IsFiniteSet(Row), NEW table \in [Row -> Stock], NEW leaf,
         \A r \in Row : table[r] # Absent => table[r] >= 0
  PROVE  Units(table, leaf) \in Nat
<1>1. ASSUME NEW r \in Row PROVE Held(table, leaf)[r] \in Nat
  <2>1. CASE table[r] = Absent BY <2>1 DEF Held
  <2>2. CASE table[r] # Absent
    <3>1. table[r] \in Int /\ table[r] >= 0 BY <2>2 DEF Stock
    <3>2. Weight(r[2], leaf) \in Nat
      <4>1. r[2] \in Variant BY DEF Row
      <4> QED BY <4>1, WeightType
    <3>3. \A a \in Int, b \in Nat : a >= 0 => a * b \in Nat OBVIOUS
    <3>4. table[r] * Weight(r[2], leaf) \in Nat BY <3>1, <3>2, <3>3
    <3> QED BY <2>2, <3>4 DEF Held
  <2> QED BY <2>1, <2>2
<1>2. SumFunctionOnSet(Held(table, leaf), Row) \in Nat BY <1>1, SumNatural
<1> QED BY <1>2, UnitsAre

\* A COMMIT sells what its customer ordered, to the unit.
LEMMA CommitSells ==
  ASSUME IInv, OneRowEach, IsFiniteSet(Row), IsFiniteSet(Job), LogInv, Even,
         IInv', LogInv', NEW p \in Proc, CommitJob(p), NEW leaf \in Leaf
  PROVE  /\ UnitsSold(leaf)' >= UnitsSold(leaf)
         /\ Units(com, leaf)' + UnitsSold(leaf)' = Units(com, leaf) + UnitsSold(leaf)
<1>1. /\ com' = [r \in Row |-> Seen(p, r)]
      /\ commits' = [commits EXCEPT ![job[p]] = @ + 1]
      /\ prog[p] # <<>> /\ Now(p).op = "commit"
  BY DEF CommitJob, Committed, Commit, At, Now
<1>2. /\ prog[p] \in Seq(Statement) /\ OfShop(prog[p]) /\ 1 \in DOMAIN prog[p]
  BY <1>1, PlannedAll DEF LogInv, IInv, ControlType
<1>3. \A i \in DOMAIN prog[p] : prog[p][i].op \in {"commit", "decide"}
  <2>1. \A k \in DOMAIN prog[p] : k > 1 => prog[p][k].op = "decide"
    BY <1>1, <1>2 DEF OfShop, Now
  <2>2. \A k \in DOMAIN prog[p] : k = 1 \/ k > 1
    <3>1. DOMAIN prog[p] = 1 .. Len(prog[p]) /\ Len(prog[p]) \in Nat BY <1>2
    <3> QED BY <3>1
  <2> QED BY <1>1, <2>1, <2>2 DEF Now
<1>4. Owed(prog[p], leaf) = 0 BY <1>2, <1>3, OwedIdle
<1>5. Closing(prog[p]) BY <1>1, <1>2 DEF Closing, Now
<1>6. Gain(p, leaf) + Owed(prog[p], leaf) + Ordered(p, leaf) = 0 BY <1>5 DEF Even
<1>7. Units(com, leaf)' = Units(com, leaf) + Gain(p, leaf)
  BY <1>1, UnitsPublished DEF LogInv
<1>8. UnitsSold(leaf)' = UnitsSold(leaf) + Ordered(p, leaf) BY <1>1, SoldGrows DEF IInv
<1>9. /\ Units(com, leaf) \in Int /\ UnitsSold(leaf) \in Int
      /\ Gain(p, leaf) \in Int /\ Ordered(p, leaf) \in Nat
  <2>1. com \in [Row -> Stock] BY DEF IInv, TableInv, TablesType
  <2>2. Units(com, leaf) \in Int BY <2>1, UnitsAre
  <2>3. UnitsSold(leaf) \in Int BY SoldType DEF IInv
  <2> QED BY <2>2, <2>3, GainType, OrderedType DEF LogInv
<1>10. \A a, b, c \in Int, d \in Nat :
         c + 0 + d = 0 => b + d >= b /\ (a + c) + (b + d) = a + b
  OBVIOUS
<1> QED BY <1>4, <1>6, <1>7, <1>8, <1>9, <1>10

\* All of it, while requests come one at a time: no COMMIT is sent before the
\* shelves gave what the customer is to get.
SellInv == CounterInv /\ Backed /\ (alone => Even)

\* It opens with that.
LEMMA InitSells == OneRowEach /\ CounterInit => SellInv
<1> SUFFICES ASSUME OneRowEach, CounterInit PROVE SellInv
  OBVIOUS
<1>1. Init BY CounterSteps
<1>2. \A p \in Proc : ~Closing(prog[p])
  <2>1. \A p \in Proc : prog[p] = <<>> BY <1>1 DEF Init
  <2>2. DOMAIN <<>> = {} OBVIOUS
  <2> QED BY <2>1, <2>2 DEF Closing
<1>3. Even BY <1>2 DEF Even
<1> QED BY <1>1, <1>3, InitCounter, InitBacked DEF SellInv

\* And keeps it.
LEMMA NextSells ==
  ASSUME OneRowEach, ShopJobs, PacksAddUp, IsFiniteSet(Row)
  PROVE  SellInv /\ [CounterNext]_<<vars, alone>> => SellInv'
<1> SUFFICES ASSUME SellInv, [CounterNext]_<<vars, alone>> PROVE SellInv'
  OBVIOUS
<1>1. [Next]_vars /\ (alone' => alone) BY CounterSteps
<1>2. CounterInv' BY NextCounter DEF SellInv
<1>3. Backed' BY <1>1, NextBacked DEF SellInv, CounterInv
<1>4. ASSUME alone' PROVE Even'
  BY <1>1, <1>4, NextEven DEF SellInv, CounterInv
<1> QED BY <1>2, <1>3, <1>4 DEF SellInv

\* The shop opens with what is on its shelves, and nothing sold.
LEMMA OpensWhole ==
  ASSUME OneRowEach, IsFiniteSet(Row), IsFiniteSet(Job)
  PROVE  CounterInit => ServesShop!Init
<1> SUFFICES ASSUME CounterInit PROVE ServesShop!Init
  OBVIOUS
<1>1. Init /\ IInv BY CounterSteps, InitIInv
<1>2. ASSUME NEW leaf \in Leaf PROVE Units(com, leaf) \in Nat
  BY <1>1, UnitsLeft DEF IInv, TableInv, TablesType, NoNegativeStock
<1>3. ASSUME NEW leaf \in Leaf PROVE UnitsSold(leaf) = 0
  <2> DEFINE S == {j \in Job : j.kind = "sale"}
             f == [j \in S |-> commits[j] * Made(j.items, leaf)]
  <2>1. IsFiniteSet(S) BY FS_Subset
  <2>2. ASSUME NEW j \in S PROVE f[j] = 0
    <3>1. commits[j] = 0 BY <1>1 DEF Init
    <3>2. Made(j.items, leaf) \in Nat BY SaleItems
    <3>3. \A a \in Nat : 0 * a = 0 OBVIOUS
    <3> QED BY <3>1, <3>2, <3>3
  <2>3. UnitsSold(leaf) = SumFunctionOnSet(f, S) BY DEF UnitsSold, SumFunction
  <2> HIDE DEF f, S
  <2> QED BY <2>1, <2>2, <2>3, SumOfZeros
<1> QED BY <1>2, <1>3 DEF ServesShop!Init, Leaf, Weight

\* While requests come one at a time, a step sells whole or sells nothing.
LEMMA StepSells ==
  ASSUME OneRowEach, ShopJobs, PacksAddUp, IsFiniteSet(Row), IsFiniteSet(Job)
  PROVE  SellInv /\ SellInv' /\ [CounterNext]_<<vars, alone>> =>
           [alone' => ServesShop!Sell]_<<com, commits>>
<1> SUFFICES ASSUME SellInv, SellInv', [CounterNext]_<<vars, alone>>, alone',
                    ~UNCHANGED <<com, commits>>
             PROVE  ServesShop!Sell
  OBVIOUS
<1>1. [Next]_vars /\ alone BY CounterSteps
<1>2. IInv /\ LogInv /\ IInv' /\ LogInv' /\ Even BY <1>1 DEF SellInv, CounterInv
<1>3. PICK p \in Proc : CommitJob(p) BY <1>1, <1>2, OnlyCommits
<1>4. ASSUME NEW leaf \in Leaf PROVE Units(com, leaf)' >= 0
  <2>1. com' \in [Row -> Stock] /\ \A r \in Row : com'[r] # Absent => com'[r] >= 0
    BY <1>2 DEF IInv, TableInv, TablesType, NoNegativeStock
  <2>2. Units(com', leaf) \in Nat BY <2>1, UnitsLeft
  <2> QED BY <2>2 DEF Units
<1>5. ASSUME NEW leaf \in Leaf
      PROVE  /\ UnitsSold(leaf)' >= UnitsSold(leaf)
             /\ Units(com, leaf)' + UnitsSold(leaf)' = Units(com, leaf) + UnitsSold(leaf)
  BY <1>2, <1>3, CommitSells
<1> QED BY <1>4, <1>5 DEF ServesShop!Sell, Leaf, Weight

\* In a shop with one row on every shelf that sells, moves and breaks up what
\* there is, where packs hold what they are broken into, the point of sale sees
\* the shop it was promised while requests come one at a time: a sale takes
\* every unit it sells, and nothing but a sale changes how many there are,
\* whatever fails on the way.
THEOREM ShopSellsWhole ==
  OneRowEach /\ ShopJobs /\ PacksAddUp /\ IsFiniteSet(Row) /\ IsFiniteSet(Job) =>
    (CounterSpec => SellsWhole)
<1> SUFFICES ASSUME OneRowEach, ShopJobs, PacksAddUp, IsFiniteSet(Row), IsFiniteSet(Job)
             PROVE  CounterSpec => SellsWhole
  OBVIOUS
<1>1. CounterInit => SellInv BY InitSells
<1>2. SellInv /\ [CounterNext]_<<vars, alone>> => SellInv' BY NextSells
<1>3. CounterInit => ServesShop!Init BY OpensWhole
<1>4. SellInv /\ SellInv' /\ [CounterNext]_<<vars, alone>> =>
        [alone' => ServesShop!Sell]_<<com, commits>>
  BY StepSells
<1> QED BY <1>1, <1>2, <1>3, <1>4, PTL DEF CounterSpec, SellsWhole

=============================================================================
