----------------------------- MODULE MCSelling -----------------------------
(***************************************************************************)
(* What goes on around a sale, for TLC: the counter, what happens to the   *)
(* sale afterwards, promotions, gifts and points.  They share no row, so   *)
(* that each is explored by itself: a behaviour begins in one of them and  *)
(* stays there.                                                            *)
(***************************************************************************)
EXTENDS Database, TLC

CONSTANTS
  Absent, None, Same, Gone,
  Shift, Ticket, Slip, Terms, TicketPrice, Start,           \* Till
  Line, Sold, LinePrice, Note, NoteAmount, Slack,           \* AfterSale
  DollarRate, MaxReturned,
  Promo, Change, MaxUnits, UnitPrice,                       \* Promotions
  Dimension, Group, DimensionOf, Threshold,                 \* Royalties
  Program, Earning, Collection, Collected,                  \* Loyalty
  Currency, ExchangeRate,
  Invoice, Sale, Score, Rate, Rule,                         \* rows of their own
  s1, s2, x1, x2, p1, p2, t1, l1, l2, l3, d1, d2        \* what the sets are made of

VARIABLE part      \* the part that is explored

Counter == INSTANCE Till WITH Sale <- Ticket, Price <- TicketPrice
After == INSTANCE AfterSale WITH Price <- LinePrice, Amount <- NoteAmount, Rate <- DollarRate
Offers == INSTANCE Promotions
Gifts == INSTANCE Royalties
Points == INSTANCE Loyalty WITH Amount <- Collected, Balance <- Score

ASSUME SellingConstants ==
  /\ Counter!TillConstants /\ After!SaleConstants /\ Offers!PromotionsConstants
  /\ Gifts!RoyaltiesConstants /\ Points!LoyaltyConstants

vars == <<db, mine, at, job, calm, part>>

Init == \/ part = "till" /\ Counter!Init
        \/ part = "after" /\ After!Init
        \/ part = "offers" /\ Offers!Init
        \/ part = "gifts" /\ Gifts!Init
        \/ part = "points" /\ Points!Init

Next == /\ UNCHANGED part
        /\ \/ part = "till" /\ Counter!Next
           \/ part = "after" /\ After!Next
           \/ part = "offers" /\ Offers!Next
           \/ part = "gifts" /\ Gifts!Next
           \/ part = "points" /\ Points!Next

Spec == Init /\ [][Next]_vars

\* Points add up and come from somewhere, and no sale is completed before it is
\* paid (Till).
PaidInFull == part = "till" => Counter!PointsAddUp /\ Counter!CompletedWhenPaid

\* A shift counts what was rung up on it, and closes for good (Till).
ShiftCloses == [][part = "till" => Counter!Closes]_vars

\* The verification that settles a sale completes it (Till).
VerifiedCompletes == [][part = "till" => Counter!VerifiedCompletes]_vars

\* The totals of a sale are what its lines are worth, but for lines that were deleted
\* (AfterSale).
SaleAddsUp == part = "after" => After!SaleAddsUp

\* Notes credit no more than was invoiced, and back the credits they leave (AfterSale).
NotesBacked == part = "after" => After!NotesBacked

\* A promotion is what one request sent, and takes off no more than is paid (Promotions).
PromotionsKept == part = "offers" => Offers!PromotionsKept

\* A rule's dimensions are replaced, its options within them (Royalties).
RoyaltiesKept == part = "gifts" => Gifts!RoyaltiesKept

\* Points of collections are those of the sale, and the chart's (Loyalty).
PointsGranted == part = "points" => Points!PointsGranted

-----------------------------------------------------------------------------
(* The values of the run.                                                   *)

\* Paid in points; on credit, with points that wait to be verified; paid in part and
\* completed later.
MCTerms ==
  {[done |-> TRUE, credit |-> FALSE, verified |-> TRUE, points |-> TRUE],
   [done |-> FALSE, credit |-> TRUE, verified |-> FALSE, points |-> TRUE],
   [done |-> FALSE, credit |-> FALSE, verified |-> TRUE, points |-> FALSE]}

\* A sale of two lines, one of two pieces.
MCPieces == (l1 :> 2) @@ (l2 :> 1)
MCPrices == (l1 :> 1) @@ (l2 :> 2)

\* Rules of two requests for one promotion, and what changes its kind and leaves them.
Blank == [percent |-> None, amount |-> None, buy |-> None, get |-> None, off |-> 100,
          min |-> None, max |-> None, least |-> None,
          tier |-> None, from |-> None, to |-> None, price |-> None, less |-> None]
Plain == {[Blank EXCEPT !.percent = 15, !.least = 4],
          [Blank EXCEPT !.amount = 3],
          [Blank EXCEPT !.percent = 50, !.min = 2, !.max = 3]}
Stepped == {[Blank EXCEPT !.buy = 2, !.get = 1, !.off = 50],
            [Blank EXCEPT !.percent = 100, !.min = 3],
            [Blank EXCEPT !.tier = 1, !.from = 1, !.price = 3],
            [Blank EXCEPT !.tier = 2, !.from = 3, !.to = 4, !.less = 20]}
Untouched == [kind |-> Same, universal |-> Same, active |-> Same,
              rules |-> Same, segments |-> Same, targets |-> Same]
MCChanges ==
  {[Untouched EXCEPT !.kind = "fixed", !.universal = FALSE, !.active = TRUE,
                     !.rules = Plain, !.segments = {1}, !.targets = {"this"}],
   [Untouched EXCEPT !.rules = Stepped, !.targets = {"that"}],
   [Untouched EXCEPT !.universal = TRUE, !.segments = {}, !.active = FALSE]}
  \cup {[Untouched EXCEPT !.kind = k, !.active = TRUE] :
          k \in {"percentage", "buy x get y", "volume", "tiered", "combo"}}

\* Two groups of one dimension and one of another; three collections of a sale, and two
\* programs for them.
MCKinds == (l1 :> d1) @@ (l2 :> d1) @@ (l3 :> d2)
MCCollected == (l1 :> 3) @@ (l2 :> 4) @@ (l3 :> 5)
MCEarnings == {[earn |-> 2, least |-> 2], [earn |-> 3, least |-> 7]}

Symmetric == UNION {Permutations(S) : S \in {Session, Note, Slip, Shift}}

=============================================================================
