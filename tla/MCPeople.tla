------------------------------ MODULE MCPeople ------------------------------
(***************************************************************************)
(* The parts of hr for TLC.  They share no row, so that each is explored   *)
(* by itself: a behaviour begins in one of them and stays there.           *)
(***************************************************************************)
EXTENDS Database, TLC

CONSTANTS
  Absent,
  s1, s2, e1, e2,
  x1, x2, x3,             \* the debts of an employee, the days worked, the heirs
  Sheet,                  \* Payroll
  Horizon, Leaving,       \* Settlement
  Extra, Ordinary, MaxDaily, MaxWeekly, MaxYearly, Clock,   \* Hours
  Period                  \* ProfitSharing

VARIABLES
  cut,     \* of Settlement
  part     \* the part that is explored

Staff == {e1, e2}
Many == {x1, x2, x3}

\* The first employee may owe twice.  The instance is of the module with the proofs,
\* which adds no behaviour: its theorems hold of the part.
Debts == {x1, x2}
Debtors == [d \in Debts |-> e1]
Pay == INSTANCE Payroll_proofs
  WITH Employee <- Staff, Debt <- Debts, Debtor <- Debtors,
       Salary <- 5, Loan <- 2, Installment <- 1, Margin <- 1, MaxDetails <- 3

\* The rate changes twice while a settlement is late.
LateRates == << [from |-> 0, rate |-> 1], [from |-> 7, rate |-> 3], [from |-> 9, rate |-> 2] >>
TenDays == {10}
Leave == INSTANCE Settlement
  WITH Daily <- 1, Integral <- 2, Indemnity <- TRUE, Ask <- 13400, Loan <- 400,
       PayDay <- TenDays, MaxPaid <- 1, GraceDays <- 5, Rates <- LateRates

\* Two days of one week, and one of the next.
Weeks == [d \in Many |-> IF d = x3 THEN 2 ELSE 1]
Time == INSTANCE Hours WITH WorkDay <- Many, WeekOf <- Weeks

Claims == INSTANCE Heirs WITH Heir <- Many, Subtotal <- 10, Interest <- 1

\* One worked all year, and one half of it; what there is to distribute falls below,
\* between and above the caps, by who is active and what they earn.
Worked == [e \in Staff |-> IF e = e1 THEN 12 ELSE 6]
Earning == [e \in Staff |-> IF e = e1 THEN {6, 14} ELSE {8}]
Seventeen == {17}
Profit == INSTANCE ProfitSharing
  WITH Employee <- Staff, Months <- Worked, Salaries <- Earning,
       Liquid <- Seventeen, MaxAdvance <- 1

ASSUME PeopleConstants ==
  /\ Pay!PayrollConstants /\ Leave!SettlementConstants /\ Time!HoursConstants
  /\ Claims!HeirsConstants /\ Profit!ProfitConstants

vars == <<db, mine, at, job, calm, cut, part>>

Init ==
  \/ part = "leave" /\ Leave!Init
  \/ /\ cut = FALSE
     /\ \/ part = "pay" /\ Pay!Init
        \/ part = "time" /\ Time!Init
        \/ part = "claims" /\ Claims!Init
        \/ part = "profit" /\ Profit!Init

Next ==
  /\ UNCHANGED part
  /\ \/ part = "leave" /\ Leave!Next
     \/ part = "pay" /\ Pay!Next /\ UNCHANGED cut
     \/ part = "time" /\ Time!Next /\ UNCHANGED cut
     \/ part = "claims" /\ Claims!Next /\ UNCHANGED cut
     \/ part = "profit" /\ Profit!Next /\ UNCHANGED cut

Spec == Init /\ [][Next]_vars

\* What left a debt is what the details and the payments say (Payroll).
DebtAddsUp == part = "pay" => Pay!DebtAddsUp

\* A sheet closes once, with everybody in it (Payroll).
SheetClosesOnce == [][part = "pay" => Pay!ClosesOnce]_vars

\* The header of a settlement is the sum of its items (Settlement).
SettlementAddsUp == part = "leave" => Leave!SettlementAddsUp

\* Every month brings its share of what the years give (Settlement).
BenefitsAccrue == [][part = "leave" => Leave!Accrues]_vars

\* Overtime within the caps, but for the requests at once (Hours).
HoursBounded == part = "time" => Time!HoursBounded

\* The shares of the heirs are the amount to the cent (Heirs).
SharesAddUp == part = "claims" => Claims!SharesAddUp

\* A closed period stands, and advances are kept (ProfitSharing).
ProfitStands == [][part = "profit" => Profit!Stands]_vars

Symmetric == Permutations(Session) \cup Permutations(Debts)

=============================================================================
