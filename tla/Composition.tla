---------------------------- MODULE Composition ----------------------------
(***************************************************************************)
(* product-composition.service.ts and helpers/explode.ts: which variants a *)
(* composite (six-pack, kit, batch) is made of, as requests edit it one    *)
(* statement at a time; the deletion of a variant, whose trigger           *)
(* cascade_delete_composite_children takes its components along; and the   *)
(* two recursive readings of the table: explodeForInventory and            *)
(* computeAvailability.                                                    *)
(*                                                                         *)
(* A quantity is numeric(12,3); here it is counted in Units-th parts of a  *)
(* piece.  Unit is a power of two, so that the doubles the code computes   *)
(* with are as exact as the integers here.                                 *)
(***************************************************************************)
EXTENDS Database, FiniteSetsExt, Relation

CONSTANTS
  Variant,
  Unit,          \* parts of a piece
  MaxQuantity,   \* bound: quantity of a component, in such parts
  Absent         \* the value of a variant that was deleted, or is not yet there

vars == <<db, mine, at, job, calm>>

\* db[v] is is_composite of a variant; db[Part(p, c)] the quantity of c in p, 0
\* when there is no row; db[Robbed(p)] a history: the cascade has deleted a
\* component of p since its composition was last written.
Part(p, c) == <<p, c>>
Robbed(p) == <<"robbed", p>>
Row == Variant \cup (Variant \X Variant) \cup {Robbed(p) : p \in Variant}

CompositionConstants ==
  /\ IsFiniteSet(Variant) /\ Unit \in Nat \ {0} /\ MaxQuantity \in Nat
  /\ Absent \notin BOOLEAN /\ "robbed" \notin Variant

Init ==
  /\ db = [r \in Row |-> IF r \in Variant \X Variant THEN 0 ELSE FALSE]
  /\ RequestsInit

There(v) == db[v] # Absent
Children(p) == {c \in Variant : db[Part(p, c)] > 0}

Nothing == [v \in Variant |-> 0]
Listed(wanted) == {c \in Variant : wanted[c] > 0}

\* productComposition.descendants: the variants below v.
Below == TransitiveClosure([e \in Variant \X Variant |-> db[e] > 0], Variant)
Descendants(v) == {d \in Variant : Below[v, d]}

-----------------------------------------------------------------------------
(* Edits.  A request that comes while none is under way leaves calm TRUE.   *)

\* replace: components are required, and never the parent itself.
StartReplace(s) ==
  \E parent \in Variant, wanted \in [Variant -> 0 .. MaxQuantity] :
    /\ wanted # Nothing /\ wanted[parent] = 0
    /\ Begin(s, "check", [parent |-> parent, wanted |-> wanted, left |-> Listed(wanted)])

\* deleteAllForParent: the same statements, without check and insert.
StartClear(s) ==
  \E parent \in Variant :
    Begin(s, "find", [parent |-> parent, wanted |-> Nothing, left |-> {}])

\* Mutant of CheckComponent: only direct components are looked at.
CheckComponentDirect(s) ==
  /\ at[s] = "check"
  /\ \E c \in job[s].left :
       IF job[s].parent \in Children(c) THEN Rollback(s)
       ELSE Look(s, IF job[s].left = {c} THEN "find" ELSE "check",
                 [job[s] EXCEPT !.left = @ \ {c}])

\* The loop of replace: one query per component, each with its own snapshot.
CheckComponent(s) ==
  /\ at[s] = "check"
  /\ \E c \in job[s].left :
       IF job[s].parent \in Descendants(c) THEN Rollback(s)
       ELSE Look(s, IF job[s].left = {c} THEN "find" ELSE "check",
                 [job[s] EXCEPT !.left = @ \ {c}])

\* The DELETE: its rows are those committed when it starts; it waits for those
\* another transaction has written, and never sees one inserted meanwhile.
FindRows(s) ==
  /\ at[s] = "find"
  /\ Look(s, "delete", [job[s] EXCEPT !.left = Children(job[s].parent)])

DeleteRows(s) ==
  LET j == job[s] IN
  /\ at[s] = "delete"
  /\ Write(s, [r \in {Part(j.parent, c) : c \in j.left} |-> 0],
           IF j.wanted = Nothing THEN "flag" ELSE "insert", j)

Rows(j) == {Part(j.parent, c) : c \in Listed(j.wanted)}

\* A variant that is not there fails a foreign key, a row that is there the
\* primary key.
Refused(s) ==
  \/ \E v \in Listed(job[s].wanted) \cup {job[s].parent} : ~There(v)
  \/ \E r \in Rows(job[s]) : Sees(s, r) > 0

\* Mutant of InsertRows: what was deleted and inserted is committed before the
\* flag is set.
InsertRowsCommitted(s) ==
  LET new == [r \in Rows(job[s]) |-> job[s].wanted[r[2]]] IN
  /\ at[s] = "insert" /\ Free(s, Rows(job[s]))
  /\ IF Refused(s) THEN Rollback(s)
     ELSE /\ db' = Over(new, Over(mine[s], db))
          /\ mine' = [mine EXCEPT ![s] = Unwritten]
          /\ Goto(s, "flag", job[s])
          /\ UNCHANGED calm

\* bulkInsert
InsertRows(s) ==
  /\ at[s] = "insert" /\ Free(s, Rows(job[s]))
  /\ IF Refused(s) THEN Rollback(s)
     ELSE Write(s, [r \in Rows(job[s]) |-> job[s].wanted[r[2]]], "flag", job[s])

\* setComposite: true after an insertion, false after a deletion; no row, if the
\* variant was deleted.
SetFlag(s) ==
  LET p == job[s].parent IN
  /\ at[s] = "flag"
  /\ Write(s, [r \in {p, Robbed(p)} |->
                 IF r = p /\ There(p) THEN job[s].wanted # Nothing
                 ELSE IF r = p THEN Absent ELSE FALSE],
           "commit", job[s])

EndRequest(s) == at[s] = "commit" /\ Commit(s)

\* A statement that commits by itself, from a request that has no other.
Alone(s, new) ==
  /\ at[s] = "idle" /\ Free(s, DOMAIN new)
  /\ db' = Over(new, db)
  /\ calm' = (calm /\ Quiet)
  /\ UNCHANGED <<mine, at, job>>

\* updateQuantity changes only a row that exists.
UpdateQuantity(s) ==
  \E p, c \in Variant, q \in 1 .. MaxQuantity :
    db[Part(p, c)] > 0 /\ Alone(s, [r \in {Part(p, c)} |-> q])

\* createProduct: a new variant is not composite.
CreateVariant(s) == \E v \in Variant : ~There(v) /\ Alone(s, [r \in {v} |-> FALSE])

\* What the trigger deletes with v: the components of a composite, theirs if they
\* are composite, and so on.
Taken(v) ==
  LET below == TransitiveClosure([e \in Variant \X Variant |-> db[e[1]] = TRUE /\ db[e] > 0],
                                 Variant)
  IN {v} \cup {c \in Variant : below[v, c]}

\* deleteProduct: the foreign key refuses a variant that is a component itself.
\* Components go with every row they are in, those of other parents too, and
\* nothing is said to the flags of these.
DeleteVariant(s) ==
  \E v \in Variant :
    LET gone == Taken(v)
        parts == {e \in Variant \X Variant : e[1] \in gone \/ e[2] \in gone}
        robbed == {p \in Variant \ gone : Children(p) \cap gone # {}}
    IN /\ There(v) /\ \A p \in Variant : v \notin Children(p)
       /\ Alone(s, [r \in gone \cup parts \cup {Robbed(p) : p \in gone \cup robbed} |->
                      IF r \in gone THEN Absent
                      ELSE IF r \in parts THEN 0 ELSE r[2] \in robbed])

Editing(s) == \/ StartReplace(s) \/ StartClear(s) \/ CheckComponent(s) \/ FindRows(s)
              \/ DeleteRows(s) \/ InsertRows(s) \/ SetFlag(s) \/ EndRequest(s)

Next == \E s \in Session : Editing(s) \/ UpdateQuantity(s) \/ CreateVariant(s)
                             \/ DeleteVariant(s) \/ Fail(s)

Spec == Init /\ [][Next]_vars

-----------------------------------------------------------------------------
(* explodeForInventory: walk down, multiplying, and add up the leaves.      *)
(* Amounts are in Fine parts of a piece, so that no product is rounded.     *)

Composite(v) == db[v] = TRUE
Fine == Unit ^ Cardinality(Variant)
Times(n, p, c) == (n * db[Part(p, c)]) \div Unit

\* Mutant of Walk: a leaf met twice keeps its last quantity.
RECURSIVE WalkOverwrites(_, _, _)
WalkOverwrites(v, n, acc) ==
  IF ~Composite(v) THEN [acc EXCEPT ![v] = n]
  ELSE FoldSet(LAMBDA c, a : WalkOverwrites(c, Times(n, v, c), a), acc, Children(v))

\* walk: a composite hands its units down, a leaf collects them.
RECURSIVE Walk(_, _, _)
Walk(v, n, acc) ==
  IF ~Composite(v) THEN [acc EXCEPT ![v] = @ + n]
  ELSE FoldSet(LAMBDA c, a : Walk(c, Times(n, v, c), a), acc, Children(v))

Explode(v, n) == Walk(v, n * Fine, Nothing)

\* Mutant of Availability: a part of a composite is announced as a whole one.
RECURSIVE AvailabilityUp(_, _)
AvailabilityUp(v, row) ==
  IF ~Composite(v) THEN row[v]
  ELSE IF Children(v) = {} THEN 0
  ELSE Min({(AvailabilityUp(c, row) * Unit + db[Part(v, c)] - 1) \div db[Part(v, c)] :
              c \in Children(v)})

\* computeAvailability: the scarcest component decides, level by level.  row[v] is
\* the stock, a whole number, of the one row of v that the query returns (LIMIT 1,
\* in no order), of those the warehouse holds.
RECURSIVE Availability(_, _)
Availability(v, row) ==
  IF ~Composite(v) THEN row[v]
  ELSE IF Children(v) = {} THEN 0
  ELSE Min({(Availability(c, row) * Unit) \div db[Part(v, c)] : c \in Children(v)})

-----------------------------------------------------------------------------
(* Properties.                                                              *)

TypeOK ==
  /\ \A v \in Variant : db[v] \in BOOLEAN \cup {Absent} /\ db[Robbed(v)] \in BOOLEAN
  /\ \A e \in Variant \X Variant : db[e] \in 0 .. MaxQuantity

\* No variant is a component of itself, at any depth: replace exists to keep
\* it so ('Cycle detected: parent appears as a descendant of one of its
\* components'), and walk and computeAvailability never return otherwise.
Acyclic == calm => \A v \in Variant : v \notin Descendants(v)

\* A variant with components is flagged composite, and one so flagged has
\* components, unless the cascade has taken them: explode, sale and reception
\* look at the flag, disaggregation at the rows.
FlagMatchesRows ==
  calm => \A v \in Variant :
            /\ Children(v) # {} => Composite(v)
            /\ Composite(v) => Children(v) # {} \/ db[Robbed(v)]

\* What sells by the flag, and what breaks by the rows, goes down the same
\* recipes, and reaches their end.
RecipesSound == Acyclic /\ FlagMatchesRows

\* What explodeForInventory returns, defined another way: replace every
\* composite by its components until only leaves are left, at most as many
\* times as there are variants.
Once(bag) ==
  [v \in Variant |->
     (IF Composite(v) THEN 0 ELSE bag[v])
       + MapThenSumSet(LAMBDA p : IF Composite(p) THEN Times(bag[p], p, v) ELSE 0, Variant)]
Unfold[k \in Nat, bag \in [Variant -> Nat]] ==
  IF k = 0 THEN bag ELSE Unfold[k - 1, Once(bag)]

\* The recursive walk counts every leaf as often as the composition holds it,
\* through every path and at every depth.
ExplodeCounts ==
  \A v \in Variant, n \in 1 .. 2 :
    Explode(v, n) =
      Unfold[Cardinality(Variant), [u \in Variant |-> IF u = v THEN n * Fine ELSE 0]]

\* Composites in v, at any depth, have components, and are there by whole pieces.
WholeWithin(v) ==
  \A p \in {v} \cup Descendants(v) :
    /\ Composite(p) => Children(p) # {}
    /\ \A c \in Children(p) : Composite(c) => db[Part(p, c)] % Unit = 0

\* As many of a composite as the rows read can make are announced: of just the
\* whole pieces they need, and so of any more, for no minimum and no quotient
\* falls as a stock grows.  (Half of a kit is announced only of a whole one, none
\* of a composite the cascade has emptied, though it sells without any stock; and
\* what stands in other rows of a variant is not announced at all.)
AvailabilityCovers ==
  \A v \in Variant, n \in 0 .. 2 :
    LET need == Explode(v, n)
    IN WholeWithin(v) =>
         Availability(v, [u \in Variant |-> (need[u] + Fine - 1) \div Fine]) >= n

\* No component is reached by two paths from v.
Unshared(v) ==
  \A c \in Descendants(v) :
    Cardinality({p \in {v} \cup Descendants(v) : c \in Children(p)}) = 1

\* And what is announced can be taken from those rows, at every depth, unless
\* components share a leaf: each of these is measured against all of it.
AvailabilityFits ==
  \A v \in Variant, row \in [Variant -> 0 .. 2] :
    Unshared(v) =>
      LET taken == Explode(v, Availability(v, row))
      IN \A u \in Variant : taken[u] <= row[u] * Fine

\* A recipe is read the same way by the sale that explodes it and by the shop
\* window that announces it.
RecipesCounted == ExplodeCounts /\ AvailabilityCovers /\ AvailabilityFits

=============================================================================
