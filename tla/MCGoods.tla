------------------------------ MODULE MCGoods ------------------------------
(***************************************************************************)
(* The catalogue for TLC: what a product is made of, and the groups it is  *)
(* sorted by.  They share no row, so that each is explored by itself: a    *)
(* behaviour begins in one of them and stays there.                        *)
(***************************************************************************)
EXTENDS Database, TLC

CONSTANTS
  Absent, Root, Group, Sku, Sorted,   \* Catalogue; recipes are of groups' names
  s1, s2, v1, v2, x1, x2, x3

VARIABLE part      \* the part that is explored

\* One session edits recipes; quantities are in halves.
Recipes == INSTANCE Composition
  WITH Variant <- Group, Session <- {s1}, Unit <- 2, MaxQuantity <- 3

Sorting == INSTANCE Catalogue

ASSUME GoodsConstants == Recipes!CompositionConstants /\ Sorting!CatalogueConstants

vars == <<db, mine, at, job, calm, part>>

Init == \/ part = "recipes" /\ Recipes!Init
        \/ part = "groups" /\ Sorting!Init

Next == /\ UNCHANGED part
        /\ \/ part = "recipes" /\ Recipes!Next
           \/ part = "groups" /\ Sorting!Next

Spec == Init /\ [][Next]_vars

\* Recipes end, and are flagged where they begin (Composition).
RecipesSound == part = "recipes" => Recipes!RecipesSound

\* Every path of a recipe counts, when it is sold and when it is shown (Composition).
\* What is read is what is committed: it is enough to look between the edits.
RecipesCounted == part = "recipes" /\ Recipes!Quiet => Recipes!RecipesCounted

\* Groups are a tree, read upwards as it is read downwards, and a product is
\* put in the groups that were asked for (Catalogue).
GroupsKept == part = "groups" => Sorting!TreeKept /\ Sorting!GroupsAsAsked

Symmetric == Permutations(Session) \cup Permutations({v1, v2}) \cup Permutations({x1, x2})

=============================================================================
