-------------------------------- MODULE Shop --------------------------------
(***************************************************************************)
(* What the warehouse promises the point of sale, counted in leaf units: a *)
(* sale takes every unit it sells, and nothing but a sale changes how many *)
(* units the tenant has.  Moves between warehouses and the breaking up of  *)
(* composites are invisible here.                                          *)
(***************************************************************************)
EXTENDS Naturals

CONSTANT Leaf         \* the variants stock is counted in

VARIABLES units,      \* [Leaf -> Nat]: units the tenant has
          sold        \* [Leaf -> Nat]: units sold so far

Init == /\ units \in [Leaf -> Nat]
        /\ sold = [leaf \in Leaf |-> 0]

Sell == \A leaf \in Leaf : /\ sold'[leaf] >= sold[leaf]
                           /\ units'[leaf] >= 0
                           /\ units'[leaf] + sold'[leaf] = units[leaf] + sold[leaf]

Spec == Init /\ [][Sell]_<<units, sold>>

=============================================================================
