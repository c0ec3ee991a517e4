----------------------------- MODULE Catalogue -----------------------------
(***************************************************************************)
(* The groups a tenant sorts its products by (tenant_product_group, a      *)
(* tree), the products, and which groups each is in (product,              *)
(* product_variant_group_assignment).                                      *)
(*                                                                         *)
(* Groups are created and moved by several queries with no transaction: a  *)
(* move reads the descendants, then the parent, then writes.  What a       *)
(* product is assigned to is replaced in a transaction, by deleting and    *)
(* inserting rows.  Products are created many at a time; those whose sku   *)
(* is taken are skipped by the INSERT.                                     *)
(***************************************************************************)
EXTENDS Database, Sequences, SequencesExt

CONSTANTS
  Group,      \* groups of one tenant, all of one type
  Sku,        \* products of it, by their unique key
  Sorted,     \* bound: the groups products are put in
  Root,       \* the parent of a group that has none
  Absent

CatalogueConstants == IsFiniteSet(Group) /\ IsFiniteSet(Sku) /\ Sorted \subseteq Group

vars == <<db, mine, at, job, calm>>

In(v, g) == <<v, g>>
Row == Group \cup Sku \cup (Sku \X Sorted)

\* A group is its parent; its level, which no query reads, is left out.
Parent == Group \cup {Root}

\* An assignment that was deleted and inserted again is another row: its number
\* is one that nobody who is about to delete has read.
Version == 0 .. Cardinality(Session)
There(n) == n # 0
Fresh(r) ==
  CHOOSE n \in Version \ {0} :
    \A s \in Session : at[s] = "delete rows" /\ r \in DOMAIN job[s].old => job[s].old[r] # n

Init ==
  /\ db = [r \in Row |-> CASE r \in Group -> Absent [] r \in Sku -> FALSE [] OTHER -> 0]
  /\ RequestsInit

Exists(g) == db[g] # Absent
Groups == {g \in Group : Exists(g)}

\* What is reached from a set by following a step, as WITH RECURSIVE does.
Closure(start, step(_)) ==
  LET reach[n \in 0 .. Cardinality(Group)] ==
        IF n = 0 THEN start ELSE LET G == reach[n - 1] IN G \cup step(G)
  IN reach[Cardinality(Group)]

Children(G) == {g \in Groups : db[g] \in G}
Parents(G) == {db[g] : g \in G \cap Groups} \ {Root}

\* getGroupDescendants: the group is one of them.
Descendants(g) == Closure({g} \cap Groups, Children)

-----------------------------------------------------------------------------
(* Groups.                                                                  *)

\* create: the parent is looked up.
StartCreateGroup(s) ==
  \E g \in Group, parent \in Groups \cup {Root} :
    ~Exists(g) /\ Begin(s, "insert group", [group |-> g, parent |-> parent])

Referable(parent) == parent \in Groups \cup {Root}

\* A parent that has been deleted fails the foreign key.
InsertGroup(s) ==
  /\ at[s] = "insert group"
  /\ IF Exists(job[s].group) \/ ~Referable(job[s].parent) THEN Rollback(s)
     ELSE Apply(s, [r \in {job[s].group} |-> job[s].parent], "idle", NoJob)

\* update with another parent: not a descendant of the group.
StartMoveGroup(s) ==
  \E g \in Groups : \E parent \in Groups \ {g} :
    Begin(s, "read descendants", [group |-> g, parent |-> parent])

\* Mutant of MayMove: only the children are looked at.
MayMoveFromChildren(g, parent) == parent \notin Children({g})

MayMove(g, parent) == parent \notin Descendants(g)

ReadDescendants(s) ==
  /\ at[s] = "read descendants"
  /\ IF MayMove(job[s].group, job[s].parent)
     THEN Look(s, "read parent", job[s])
     ELSE Rollback(s)

ReadParent(s) ==
  /\ at[s] = "read parent"
  /\ IF Exists(job[s].parent) THEN Look(s, "update group", job[s]) ELSE Rollback(s)

\* update without a parent: the name or the state is given, and the statement
\* sets the parent to NULL all the same.
StartDetachGroup(s) ==
  \E g \in Groups : Begin(s, "update group", [group |-> g, parent |-> Root])

UpdateGroup(s) ==
  /\ at[s] = "update group"
  /\ IF ~Exists(job[s].group) \/ ~Referable(job[s].parent) THEN Rollback(s)
     ELSE Apply(s, [r \in {job[s].group} |-> job[s].parent], "idle", NoJob)

Unassigned(R) == [r \in R |-> 0]

\* delete: the keys delete what is below it, and the assignments to it.
DeleteGroup(s) ==
  \E g \in Groups :
    LET below == Descendants(g)
        of == Sku \X (below \cap Sorted)
    IN /\ at[s] = "idle" /\ Free(s, below \cup of)
       /\ db' = Over([r \in below |-> Absent], Over(Unassigned({r \in of : There(db[r])}), db))
       /\ calm' = (calm /\ Quiet)
       /\ UNCHANGED <<mine, at, job>>

-----------------------------------------------------------------------------
(* What a product is assigned to.                                           *)

Assigned(s, v) == {g \in Sorted : There(Sees(s, In(v, g)))}

\* bulkInsert: the product and every group must be there, and no row already.
Inserted(s, v, G, label, j) ==
  /\ Free(s, {In(v, g) : g \in G})
  /\ IF Sees(s, v) /\ G \subseteq Groups /\ G \cap Assigned(s, v) = {}
     THEN Write(s, [r \in {In(v, g) : g \in G} |-> Fresh(r)], label, j)
     ELSE Rollback(s)

\* replaceForVariant, and updateProduct with groups: the groups are counted,
\* before or after the DELETE; what it deletes are the rows it finds first.
StartReplace(s) ==
  \E v \in Sku, G \in SUBSET (Groups \cap Sorted) :
    db[v] /\ Begin(s, "find rows", [sku |-> v, groups |-> G, old |-> Unwritten])

FindRows(s) ==
  /\ at[s] = "find rows"
  /\ Look(s, "delete rows", [job[s] EXCEPT !.old = [r \in {In(job[s].sku, g) : g \in Assigned(s, job[s].sku)} |->
                                            db[r]]])

\* Mutant of Stale: nothing is deleted for a product that is to be in no group.
StaleUnlessNone(j) == {r \in DOMAIN j.old : db[r] = j.old[r] /\ j.groups # {}}

\* The rows the DELETE finds again, when it has waited for them.
Stale(j) == {r \in DOMAIN j.old : db[r] = j.old[r]}

DeleteRows(s) ==
  /\ at[s] = "delete rows" /\ Free(s, DOMAIN job[s].old)
  /\ Write(s, Unassigned(Stale(job[s])), "insert rows", job[s])

InsertRows(s) ==
  /\ at[s] = "insert rows"
  /\ Inserted(s, job[s].sku, job[s].groups, "replaced", job[s])

-----------------------------------------------------------------------------
(* Products.                                                                *)

\* createProduct; bound: two products, in one group each at most.
Item == [sku : Sku, groups : {{}} \cup {{g} : g \in Groups \cap Sorted}]

StartCreateProducts(s) ==
  \E items \in {<<a, b>> : a, b \in Item} :
    /\ items[1].sku # items[2].sku /\ \E i \in 1 .. 2 : ~db[items[i].sku]
    /\ Begin(s, "insert products", [items |-> items, created |-> << >>, next |-> 1])

\* ON CONFLICT DO NOTHING: only the products that are inserted are returned.
InsertProducts(s) ==
  LET items == job[s].items
      new == SelectSeq(items, LAMBDA i : ~db[i.sku])
  IN
  /\ at[s] = "insert products" /\ Free(s, {items[i].sku : i \in DOMAIN items})
  /\ Write(s, [r \in {new[i].sku : i \in DOMAIN new} |-> TRUE], "assign",
           [job[s] EXCEPT !.created = [i \in DOMAIN new |-> new[i].sku]])

\* The i-th product that was returned gets the groups of the i-th that was sent.
AssignGroups(s) ==
  LET j == job[s]
      next == [j EXCEPT !.next = @ + 1]
  IN
  /\ at[s] = "assign" /\ j.next <= Len(j.items)
  /\ IF j.next \in DOMAIN j.created
     THEN Inserted(s, j.created[j.next], j.items[j.next].groups, "assign", next)
     ELSE Look(s, "assign", next)

EndCreate(s) == at[s] = "assign" /\ job[s].next > Len(job[s].items) /\ Look(s, "created", job[s])

EndRequest(s) == at[s] \in {"replaced", "created"} /\ Commit(s)

\* deleteProduct: with a composite go its components, by the trigger
\* cascade_delete_composite_children; what is a component of what is Composition's
\* to say, and may here be anything.
DeleteProduct(s) ==
  \E gone \in SUBSET {v \in Sku : db[v]} :
    LET of == gone \X Sorted IN
    /\ at[s] = "idle" /\ gone # {} /\ Free(s, gone \cup of)
    /\ db' = Over([r \in gone |-> FALSE], Over(Unassigned({r \in of : There(db[r])}), db))
    /\ calm' = (calm /\ Quiet)
    /\ UNCHANGED <<mine, at, job>>

Sorting(s) == \/ StartCreateGroup(s) \/ InsertGroup(s) \/ StartMoveGroup(s) \/ ReadDescendants(s)
              \/ ReadParent(s) \/ StartDetachGroup(s) \/ UpdateGroup(s) \/ DeleteGroup(s)
Assigning(s) == StartReplace(s) \/ FindRows(s) \/ DeleteRows(s) \/ InsertRows(s)
Stocking(s) == \/ StartCreateProducts(s) \/ InsertProducts(s) \/ AssignGroups(s)
               \/ EndCreate(s) \/ EndRequest(s) \/ DeleteProduct(s)

Next == \E s \in Session : Sorting(s) \/ Assigning(s) \/ Stocking(s) \/ Fail(s)

Spec == Init /\ [][Next]_vars

-----------------------------------------------------------------------------
(* Properties.                                                              *)

TypeOK ==
  /\ \A g \in Group : db[g] \in Parent \cup {Absent}
  /\ \A v \in Sku : db[v] \in BOOLEAN
  /\ \A r \in Sku \X Sorted : db[r] \in Version

\* The promotions for a product (getApplicableToVariant) are looked for upwards,
\* from its groups; the products of a group (variantsByGroup) downwards.
GroupsAbove(v) == Closure({g \in Sorted : There(db[In(v, g)])}, Parents)
ProductsBelow(g) == {v \in Sku : \E h \in Descendants(g) \cap Sorted : There(db[In(v, h)])}

\* A promotion for a group reaches exactly the products the group shows,
\* whatever the tree has become; and while requests come one at a time the tree
\* is one: no group is moved below itself, at any depth.
TreeKept ==
  /\ \A v \in Sku : GroupsAbove(v) = {g \in Groups : v \in ProductsBelow(g)}
  /\ calm => \A g \in Groups : g \notin Closure(Parents({g}), Parents)

\* What is about to be committed for a product holds the groups that were asked
\* for, each of them there, whoever replaces or deletes them meanwhile; and no
\* other while requests come one at a time.
GroupsAsAsked ==
  \A s \in Session : at[s] = "replaced" =>
    /\ job[s].groups \subseteq Assigned(s, job[s].sku) \cap Groups
    /\ calm => Assigned(s, job[s].sku) = job[s].groups

\* A product is put in the groups that were sent with its own sku
\* (product.service.ts:191, "we map by sku via a lookup").
MappedBySku ==
  \A s \in Session : at[s] = "created" =>
    \A i \in DOMAIN job[s].items :
      LET v == job[s].items[i].sku IN
      \A n \in DOMAIN job[s].created :
        job[s].created[n] = v => Assigned(s, v) = job[s].items[i].groups

=============================================================================
