----------------------------- MODULE StockTable -----------------------------
(***************************************************************************)
(* The tables inventory_schema.inventory and inventory_log as PostgreSQL   *)
(* keeps them at READ COMMITTED, the isolation every request of the server *)
(* runs at: a statement sees the committed version of a row or the one its *)
(* own transaction wrote, an UPDATE waits for a row another transaction    *)
(* wrote, and what a transaction wrote is published by COMMIT or undone by *)
(* ROLLBACK.  One operator per SQL statement of inventory.queries.ts.      *)
(*                                                                         *)
(* A warehouse may hold several rows (lots) of a variant: the table has no *)
(* unique key on (warehouse, variant), and every insert adds a row.        *)
(***************************************************************************)
EXTENDS Integers, FiniteSets

CONSTANTS
  Warehouse,    \* warehouses of one tenant
  Variant,      \* product variants
  Lot,          \* slots for the inventory rows of a (warehouse, variant)
  Proc,         \* database sessions: the HTTP requests being served
  Absent,       \* the value of a slot that holds no row
  Nobody        \* the holder of a row no open transaction has written

ASSUME StockConstants == /\ Absent \notin Int
                         /\ Nobody \notin Proc

Row == Warehouse \X Variant \X Lot
Shelf == Warehouse \X Variant
Stock == Int \cup {Absent}

VARIABLES
  com,      \* [Row -> Stock]: the committed version of each row
  draft,    \* [Row -> Stock]: the latest version, committed or not
  holder,   \* [Row -> Proc \cup {Nobody}]: whose open transaction wrote it
  log,      \* [Shelf -> Int]: committed inventory_log, entries IN minus OUT
  pend      \* [Proc -> [Shelf -> Int]]: entries of the open transactions

tables == <<com, draft, holder, log, pend>>

NoEntries == [s \in Shelf |-> 0]

TablesType ==
  /\ com \in [Row -> Stock]
  /\ draft \in [Row -> Stock]
  /\ holder \in [Row -> Proc \cup {Nobody}]
  /\ log \in [Shelf -> Int]
  /\ pend \in [Proc -> [Shelf -> Int]]

-----------------------------------------------------------------------------
(* What a statement of session p sees.                                      *)

Seen(p, r) == IF holder[r] = p THEN draft[r] ELSE com[r]

Lots(p, w, v) ==
  {r \in Row : r[1] = w /\ r[2] = v /\ Seen(p, r) # Absent}

\* getStock: SELECT stock ... LIMIT 1, without ORDER BY: any of the rows, and
\* 0 when there is none (rows[0]?.stock ?? 0).
StockReads(p, w, v) ==
  IF Lots(p, w, v) = {} THEN {0} ELSE {Seen(p, r) : r \in Lots(p, w, v)}

\* Mutant of Removable: the WHERE clause without its stock test.
RemovableUntested(p, w, v, n) == Lots(p, w, v)

\* The rows "WHERE stock >= $1" of removeStock selects.
Removable(p, w, v, n) == {r \in Lots(p, w, v) : Seen(p, r) >= n}

\* An UPDATE waits for the rows of another open transaction.
Blockers(p, R) == {holder[r] : r \in R} \ {p, Nobody}

-----------------------------------------------------------------------------
(* Statements.  Each leaves com and log as they are: only COMMIT publishes. *)

SetRows(p, R, val(_)) ==
  /\ Blockers(p, R) = {}
  /\ draft' = [r \in Row |-> IF r \in R THEN val(r) ELSE draft[r]]
  /\ holder' = [r \in Row |-> IF r \in R THEN p ELSE holder[r]]

\* removeStock: every lot holding at least n loses n.
RemoveStock(p, w, v, n) ==
  SetRows(p, Removable(p, w, v, n), LAMBDA r : Seen(p, r) - n)

\* addStock: every lot gains n.
AddStock(p, w, v, n) ==
  SetRows(p, Lots(p, w, v), LAMBDA r : Seen(p, r) + n)

\* A slot no row, committed or not, occupies.
FreeSlots(w, v) ==
  {r \in Row : r[1] = w /\ r[2] = v /\ com[r] = Absent /\ draft[r] = Absent
               /\ holder[r] = Nobody}

\* insertIntoInventory, bulkInsertInventory: a new row, always.
InsertLot(p, w, v, n) ==
  \E r \in FreeSlots(w, v) : SetRows(p, {r}, LAMBDA x : n)

\* logInventoryMovement: n is positive for IN and negative for OUT.
Record(p, w, v, n) ==
  pend' = [pend EXCEPT ![p][<<w, v>>] = @ + n]

-----------------------------------------------------------------------------
(* The end of a transaction.                                                *)

Release(p) ==
  /\ holder' = [r \in Row |-> IF holder[r] = p THEN Nobody ELSE holder[r]]
  /\ pend' = [pend EXCEPT ![p] = NoEntries]

Commit(p) ==
  /\ com' = [r \in Row |-> Seen(p, r)]
  /\ log' = [s \in Shelf |-> log[s] + pend[p][s]]
  /\ UNCHANGED draft
  /\ Release(p)

Rollback(p) ==
  /\ draft' = [r \in Row |-> IF holder[r] = p THEN com[r] ELSE draft[r]]
  /\ UNCHANGED <<com, log>>
  /\ Release(p)

=============================================================================
