---------------------------- MODULE MCWarehouse ----------------------------
(***************************************************************************)
(* Instances of WarehouseService for TLC: a depot and a branch, single     *)
(* units and packs of two of them.                                         *)
(***************************************************************************)
EXTENDS WarehouseService, TLC

CONSTANTS depot, branch, unit, pack, l1, l2, d1, p1, p2, p3

MCWarehouses == {depot, branch}
MCVariants == {unit, pack}

MCParts == (unit :> <<>>) @@ (pack :> <<[v |-> unit, n |-> 2]>>)
MCParents == (unit :> <<pack>>) @@ (pack :> <<>>)
MCLeaves == (unit :> <<[v |-> unit, n |-> 1]>>) @@ (pack :> <<[v |-> unit, n |-> 2]>>)

NoRequests == [d \in Request |-> [from |-> depot, to |-> branch, products |-> <<>>]]
NoReports == [d \in Report |-> [w |-> depot, v |-> unit, stored |-> 0, physical |-> 0]]
OneTransfer ==
  [d \in Request |-> [from |-> depot, to |-> branch,
                      products |-> <<[v |-> unit, n |-> 1, u |-> unit]>>]]
OneReport == [d \in Report |-> [w |-> depot, v |-> unit, stored |-> 3, physical |-> 1]]

SaleOf(w, items) == [kind |-> "sale", w |-> w, items |-> items]
MoveOf(v, n, u) == [kind |-> "move", from |-> depot, to |-> branch,
                    products |-> <<[v |-> v, n |-> n, u |-> u]>>]
ShelfOf(kind, w, v, n) == [kind |-> kind, w |-> w, v |-> v, n |-> n]
Line(v, n) == [v |-> v, n |-> n]

\* One lot on every shelf: units and packs, in the depot and in the branch.
OneLot(du, dp, bu, bp) ==
  [r \in Row |->
     IF r[3] # l1 THEN Absent
     ELSE CASE r[1] = depot /\ r[2] = unit -> du
            [] r[1] = depot /\ r[2] = pack -> dp
            [] r[1] = branch /\ r[2] = unit -> bu
            [] OTHER -> bp]

StockedShop == OneLot(1, 2, 1, 1)

\* Sales that need direct stock, exploded stock and broken parents, in both
\* orders, against moves and disaggregations of the same stock.
CounterJobs ==
  {SaleOf(branch, <<Line(unit, 2), Line(pack, 1)>>),
   SaleOf(branch, <<Line(pack, 1), Line(unit, 1)>>),
   SaleOf(branch, <<Line(pack, 1)>>),
   MoveOf(unit, 2, pack), MoveOf(pack, 1, pack),
   ShelfOf("lote", branch, pack, 1)}

\* One lot on every shelf but that of the packs of the branch, and room for two.
NoPacks ==
  [r \in Row |-> IF r[3] # l1 \/ (r[1] = branch /\ r[2] = pack) THEN Absent
                 ELSE IF r[1] = branch THEN 2 ELSE 1]

ShelfJobs ==
  {[kind |-> "bulk", w |-> depot, items |-> <<Line(unit, 1), Line(pack, 1)>>],
   ShelfOf("receive", branch, pack, 1), ShelfOf("receive", depot, pack, 1),
   ShelfOf("addProduct", depot, unit, 2), ShelfOf("addStock", branch, unit, 1),
   ShelfOf("removeStock", branch, unit, 2), ShelfOf("edit", branch, unit, 1),
   ShelfOf("erase", branch, pack, 1), SaleOf(branch, <<Line(unit, 3)>>),
   MoveOf(pack, 1, pack)}

DocumentJobs ==
  {[kind |-> "decide", doc |-> d, status |-> s] : d \in Request,
                                                  s \in {"approved", "rejected"}}
    \cup {[kind |-> "adjust", doc |-> d] : d \in Report}
    \cup {SaleOf(depot, <<Line(unit, 1), Line(pack, 1)>>)}
DeskJobs == ShelfJobs \cup DocumentJobs \cup {MoveOf(unit, 1, pack)}

=============================================================================
