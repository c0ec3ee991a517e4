----------------------------- MODULE Settlement -----------------------------
(***************************************************************************)
(* One employee from the hiring to the settlement: the guarantee deposits, *)
(* vacation periods and advances on the way (severance-deposit.service.ts, *)
(* vacation-period.service.ts, severance-advance.service.ts), and          *)
(* settlement.service.ts at the end.  settlement and settlement_item are   *)
(* written with no transaction: the header, then one item at a time.       *)
(***************************************************************************)
EXTENDS Database, Benefits

CONSTANTS
  Horizon,       \* bound: months of service
  Leaving,       \* bound: the months at which anything but service happens
  Indemnity,     \* the termination type gives the indemnity of article 92
  Ask, Loan,     \* bound: an advance that is asked for; what the employee owes
  PayDay,        \* bound: days after the termination that it may be paid on
  MaxPaid,       \* bound: items of interest, but for the requests under way
  GraceDays,
  Absent

VARIABLE cut     \* history: the items of the settlement were left unfinished

vars == <<db, mine, at, job, calm, cut>>

Row == {"tenure", "deposits", "periods", "advance", "debt", "settlement",
        "items", "mora items"}

SettlementRow == [subtotal : Int, status : {"calculada", "pagada", "anulada"},
                  mora : Nat, paid : Nat]
AdvanceRow == [approved : Nat, status : {"pendiente", "aprobado", "rechazado"}]

SettlementConstants ==
  /\ Horizon \in Nat /\ Leaving \subseteq 0 .. Horizon
  /\ Indemnity \in BOOLEAN /\ Ask \in Nat /\ Loan \in Nat
  /\ PayDay \subseteq Nat /\ MaxPaid \in Nat /\ GraceDays \in Nat
  /\ 0 <= Daily /\ Daily <= Integral
  /\ Absent \notin SettlementRow

Init ==
  /\ db = [r \in Row |->
             CASE r = "tenure" -> [months |-> 0, days |-> 0]
               [] r = "periods" -> << >>
               [] r \in {"advance", "settlement"} -> Absent
               [] r = "debt" -> Loan
               [] OTHER -> 0]
  /\ cut = FALSE
  /\ RequestsInit

Served == db["tenure"]
OfDeposits == db["deposits"] * 15 * Integral * Day

\* sumApproved
Approved == IF db["advance"] # Absent /\ db["advance"].status = "aprobado"
            THEN db["advance"].approved ELSE 0

\* A statement that is a request of its own.
Single(s, r, v) ==
  /\ at[s] = "idle" /\ Served.months \in Leaving
  /\ db' = [db EXCEPT ![r] = v]
  /\ calm' = (calm /\ Quiet)
  /\ UNCHANGED <<mine, at, job, cut>>

Starts(s, label, j) == Served.months \in Leaving /\ Begin(s, label, j) /\ UNCHANGED cut

-----------------------------------------------------------------------------
(* Years of service.                                                        *)

\* Another month is worked.  bound: nothing has been asked for yet; the days
\* of a month matter in the first three.
Serve ==
  /\ Quiet /\ Served.months < Horizon
  /\ db["deposits"] = 0 /\ db["periods"] = << >> /\ db["advance"] = Absent
  /\ db["settlement"] = Absent
  /\ \E n \in IF Served.months < 3 THEN {28, 31} ELSE {30} :
       db' = [db EXCEPT !["tenure"] = [months |-> @.months + 1, days |-> @.days + n]]
  /\ UNCHANGED <<mine, at, job, calm, cut>>

\* generate (deposits): quarter after quarter, those that are there skipped.
\* bound: up to now, or the first; a request that dies leaves fewer.
GenerateDeposits(s) ==
  \E n \in {1, Quarters(Served)} : db["deposits"] < n /\ Single(s, "deposits", n)

\* generate (vacation periods): one for every year that is over.
GeneratePeriods(s) ==
  /\ Len(db["periods"]) < Years(Served)
  /\ Single(s, "periods", [y \in 1 .. Years(Served) |->
                             IF y \in DOMAIN db["periods"] THEN db["periods"][y]
                             ELSE [taken |-> 0, paid |-> FALSE]])

\* enjoy: what is left is read, then what is taken is written.  bound: five
\* days of a period nobody has enjoyed.
StartEnjoy(s) ==
  \E y \in DOMAIN db["periods"] :
    LET taken == db["periods"][y].taken IN
    /\ taken = 0 /\ 5 <= VacationDays(y) - taken
    /\ Starts(s, "enjoy", [year |-> y, taken |-> taken + 5])

WriteEnjoyed(s) ==
  /\ at[s] = "enjoy" /\ UNCHANGED cut
  /\ Apply(s, [r \in {"periods"} |-> [db[r] EXCEPT ![job[s].year].taken = job[s].taken]],
           "commit", job[s])

\* payBonus
PayBonus(s) ==
  \E y \in DOMAIN db["periods"] :
    Single(s, "periods", [db["periods"] EXCEPT ![y].paid = TRUE])

\* create (advance): at most three quarters of the balance of the guarantee.
RequestAdvance(s) ==
  /\ db["advance"] = Absent /\ 4 * Ask <= 3 * (OfDeposits - Approved)
  /\ Single(s, "advance", [approved |-> 0, status |-> "pendiente"])

\* approve, reject: whatever the status; approve for any amount.
ResolveAdvance(s) ==
  /\ db["advance"] # Absent
  /\ \/ Single(s, "advance", [approved |-> Ask, status |-> "aprobado"])
     \/ Single(s, "advance", [approved |-> 0, status |-> "rechazado"])

\* applyPayment (deductions)
RepayDebt(s) == db["debt"] > 0 /\ Single(s, "debt", 0)

-----------------------------------------------------------------------------
(* The settlement.                                                          *)

StartSettlement(s) ==
  /\ db["settlement"] = Absent
  /\ Starts(s, "preview", << >>)

\* preview: severance, leave and profit
ReadBenefits(s) ==
  /\ at[s] = "preview" /\ UNCHANGED cut
  /\ Look(s, "discounts", Due(Served, OfDeposits, db["periods"], Indemnity))

\* and what is taken from it
ReadDiscounts(s) ==
  /\ at[s] = "discounts" /\ UNCHANGED cut
  /\ Look(s, "header", Draft(job[s], Approved, db["debt"]))

\* Mutant of InsertHeader: no unique key.
InsertHeaderAnyway(s) ==
  /\ at[s] = "header" /\ UNCHANGED cut
  /\ Apply(s, [r \in {"settlement"} |-> [subtotal |-> Total(job[s]), status |-> "calculada",
                                         mora |-> 0, paid |-> 0]],
           "items", job[s])

\* The key of employee and date refuses a second one.
InsertHeader(s) ==
  /\ at[s] = "header" /\ UNCHANGED cut
  /\ IF db["settlement"] # Absent THEN Rollback(s)
     ELSE Apply(s, [r \in {"settlement"} |->
                      [subtotal |-> Total(job[s]), status |-> "calculada",
                       mora |-> 0, paid |-> 0]],
                "items", job[s])

InsertItem(s) ==
  /\ at[s] = "items" /\ UNCHANGED cut
  /\ Apply(s, [r \in {"items"} |-> db[r] + Head(job[s]).amount],
           IF Len(job[s]) = 1 THEN "commit" ELSE "items", Tail(job[s]))

\* pay: whatever the status; the interest comes from the subtotal that was read,
\* which nothing changes.  bound: MaxPaid.
StartPay(s) ==
  \E d \in PayDay :
    /\ db["settlement"] # Absent /\ db["mora items"] < MaxPaid
    /\ Starts(s, "pay", [day |-> d, mora |-> Mora(db["settlement"].subtotal, GraceDays, d)])

\* A CHECK refuses negative interest.
WritePaid(s) ==
  /\ at[s] = "pay" /\ UNCHANGED cut
  /\ IF job[s].mora < 0 THEN Rollback(s)
     ELSE Apply(s, [r \in {"settlement"} |-> [db[r] EXCEPT !.status = "pagada",
                                                !.mora = job[s].mora, !.paid = job[s].day]],
                IF job[s].mora > 0 THEN "interest" ELSE "commit", job[s])

InsertMora(s) ==
  /\ at[s] = "interest" /\ UNCHANGED cut
  /\ Apply(s, [r \in {"mora items"} |-> db[r] + 1], "commit", job[s])

Void(s) ==
  /\ db["settlement"] # Absent
  /\ Single(s, "settlement", [db["settlement"] EXCEPT !.status = "anulada"])

EndRequest(s) == at[s] = "commit" /\ Commit(s) /\ UNCHANGED cut

Die(s) == Fail(s) /\ cut' = (cut \/ at[s] = "items")

Service(s) == GenerateDeposits(s) \/ GeneratePeriods(s) \/ StartEnjoy(s) \/ PayBonus(s)
                \/ RequestAdvance(s) \/ ResolveAdvance(s) \/ RepayDebt(s)
Settling(s) == StartSettlement(s) \/ ReadBenefits(s) \/ ReadDiscounts(s) \/ InsertHeader(s)
                 \/ InsertItem(s) \/ StartPay(s) \/ WritePaid(s) \/ InsertMora(s) \/ Void(s)

\* bound: once the settlement has a header, nothing of Service begins.
Next == \/ Serve
        \/ db["settlement"] = Absent /\ \E s \in Session : Service(s)
        \/ \E s \in Session : WriteEnjoyed(s) \/ Settling(s) \/ EndRequest(s) \/ Die(s)

Spec == Init /\ [][Next]_vars

-----------------------------------------------------------------------------
(* Properties.                                                              *)

TypeOK ==
  /\ Served \in Tenure /\ db["deposits"] \in Nat /\ db["periods"] \in Seq(LeavePeriod)
  /\ db["advance"] \in AdvanceRow \cup {Absent}
  /\ db["settlement"] \in SettlementRow \cup {Absent}
  /\ db["debt"] \in Nat /\ db["items"] \in Int /\ db["mora items"] \in Nat

\* The header of a settlement is the sum of its items, whoever else tried to make
\* one and whatever was repaid or approved meanwhile, once they are all written;
\* and the interest it was paid with is the one each day's rate gives.
SettlementAddsUp ==
  db["settlement"] # Absent =>
    /\ (\A s \in Session : at[s] # "items") /\ ~cut
         => db["settlement"].subtotal = db["items"]
    /\ db["settlement"].mora
         = MoraByDay(db["settlement"].subtotal, GraceDays, db["settlement"].paid)

\* A longer service never brings less severance, if the deposits were made, and
\* every month of it brings a twelfth of the leave of the year it belongs to, across
\* the end of the year too, where the fraction turns into a period: a twelfth of the
\* vacation and of its bonus to within a hundredth of a day each.
Leave(t) ==
  PendingLeave([y \in 1 .. Years(t) |-> [taken |-> 0, paid |-> FALSE]]) + LeaveFraction(t)
Accrues ==
  Served' # Served =>
    /\ Severance(Served', Deposited(Served')) >= Severance(Served, Deposited(Served))
    /\ LET y == Years(Served) + 1
           gained == Leave(Served') - Leave(Served)
           ofYear == (VacationDays(y) + BonusVacationDays(y)) * Daily * Day
           slack == 2 * Hundredth * Daily
       IN 12 * gained - ofYear \in -(12 * slack) .. (12 * slack)

BenefitsAccrue == [][Accrues]_vars

=============================================================================
