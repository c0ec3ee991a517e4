------------------------------ MODULE MCOffice ------------------------------
(***************************************************************************)
(* Tenants, purchase orders, the alerts of what is due and the reports of  *)
(* finances, for TLC.  They share no row, so that each is explored by      *)
(* itself: a behaviour begins in one of them and stays there.              *)
(***************************************************************************)
EXTENDS Tenancy, TLC

CONSTANTS
  Order, Dispute, Invoiced, Quantity, Ordered, MaxTrail,   \* Orders
  Account, Alert, Horizon, DueDay, DueAmount, Notice,      \* Alerts
  s1, s2, u1, u2, n1, n2, k1, b1, b2, o1, d1, x1, x2, x3, a1, a2,
  clock, sale, expense, sheet, bill

VARIABLE part      \* the part that is explored

Buying == INSTANCE Orders

Dunning == INSTANCE Alerts

\* One document of each sort, in the last hours of a day and the first of the next,
\* between which the rate doubles and of which Greenwich sees one day.
Instants == {6, 7}
Rates == [t \in 1..12 |-> IF t < 7 THEN 2 ELSE 4]
Books == INSTANCE Reports
  WITH Clock <- clock, Sale <- sale, Expense <- expense, Sheet <- sheet, Bill <- bill,
       Instant <- Instants, RateAt <- Rates, Price <- 64, Tax <- 16, Percent <- 25,
       Wage <- 40, MaxPapers <- 2

ASSUME OfficeConstants ==
  Buying!OrdersConstants /\ Dunning!AlertsConstants /\ Books!ReportsConstants

TenantInit == part = "tenants" /\ Init
TenantSpec == TenantInit /\ [][Next /\ UNCHANGED part]_<<vars, part>>

OfficeInit ==
  /\ stripe = Absent /\ sent = Absent /\ told = Absent
  /\ \/ part = "orders" /\ Buying!Init
     \/ part = "alerts" /\ Dunning!Init
     \/ part = "reports" /\ Books!Init

OfficeNext ==
  /\ UNCHANGED <<outside, part>>
  /\ \/ part = "orders" /\ Buying!Next
     \/ part = "alerts" /\ Dunning!Next
     \/ part = "reports" /\ Books!Next

OfficeSpec == OfficeInit /\ [][OfficeNext]_<<vars, part>>

\* The trail explains an order's status, and its goods came in once (Orders).
OrderHistory == part = "orders" => Buying!OrderHistory

\* Alerts come in time and go when they are paid (Alerts).
AlertsFollow == part = "alerts" => Dunning!AlertsFollow

\* The screens agree with one another and with what was done (Reports).
ReportsTell == part = "reports" => Books!ReportsTell

\* Net sales are net of what was returned, as expense.queries.ts says (Reports).
NetOfReturns == part = "reports" => Books!NetOfReturns

-----------------------------------------------------------------------------
(* The values of the runs.                                                  *)

Notices == {[urgent |-> 1, warning |-> 2], [urgent |-> 0, warning |-> 1]}

Symmetric == Permutations(Session) \cup Permutations(Alert) \cup Permutations(Account)
SymmetricTenants ==
  Permutations(Session) \cup Permutations(Uuid) \cup Permutations(Name) \cup Permutations(Branch)

=============================================================================
