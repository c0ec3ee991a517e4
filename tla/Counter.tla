------------------------------ MODULE Counter ------------------------------
(***************************************************************************)
(* WarehouseService with a history variable, alone: no two requests have   *)
(* ever been under way at once.  What the shop promises its customers is   *)
(* exact then, and only bounded when requests race.                        *)
(***************************************************************************)
EXTENDS WarehouseService

VARIABLE alone      \* BOOLEAN, history

OneAtATime == \A p, q \in Proc : prog[p] # <<>> /\ prog[q] # <<>> => p = q

CounterInit == Init /\ alone = TRUE
CounterNext == Next /\ alone' = (alone /\ OneAtATime')
CounterSpec == CounterInit /\ [][CounterNext]_<<vars, alone>>

\* While requests come one at a time the log explains the stock to the unit,
\* whatever fails: what a sale logged as taken was taken.
LogFollowsStock == alone => LogExplainsStock

\* While requests come one at a time the shop sells whole, or nothing.
SellsWhole == ServesShop!Init /\ [][alone' => ServesShop!Sell]_<<com, commits>>

=============================================================================
