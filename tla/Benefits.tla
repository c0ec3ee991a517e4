------------------------------- MODULE Benefits -------------------------------
(***************************************************************************)
(* What the labour law gives an employee, as the services of hr compute    *)
(* it: severance, vacations and their bonus, the part of the year's        *)
(* profit, the items of a settlement, and the interest for paying late.    *)
(* Amounts are two hundredths of a day's pay, so that half of what comes   *)
(* to hundredths of a day is whole; the salary is a constant, and the      *)
(* integral salary that severance is paid at is no less than the normal    *)
(* one.                                                                    *)
(***************************************************************************)
EXTENDS Integers, Sequences, FiniteSetsExt, Functions

CONSTANTS
  Daily, Integral,   \* a day of normal, and of integral, salary
  Rates              \* <<[from, rate]>>, by date: the rate for paying late

Hundredth == 2
Day == 100 * Hundredth

\* How long somebody has worked: whole months, and days in all.
Tenure == [months : Nat, days : Nat]
Years(t) == t.months \div 12
Remainder(t) == t.months % 12

Lesser(a, b) == IF a < b THEN a ELSE b
Greater(a, b) == IF a < b THEN b ELSE a

-----------------------------------------------------------------------------
(* Severance.                                                               *)

AdditionalDays(y) == IF y < 1 THEN 0 ELSE Lesser((y - 1) * 2, 30)

ComputableYears(y, m) == y + (IF m > 6 THEN 1 ELSE 0)

\* generate: the quarters that have begun, each paid when it begins.
Quarters(t) == t.months \div 3 + 1
Deposited(t) == Quarters(t) * 15 * Integral * Day

ShortTenure(t) == t.months < 3

Guarantee(t, deposited) == deposited + AdditionalDays(Years(t)) * Integral * Day
Retroactive(t) == 30 * ComputableYears(Years(t), Remainder(t)) * Integral * Day

\* The better of two ways; those who leave before three months have another.
Severance(t, deposited) ==
  IF ShortTenure(t) THEN 5 * ((t.days + 29) \div 30) * Daily * Day
  ELSE Greater(Guarantee(t, deposited), Retroactive(t))

-----------------------------------------------------------------------------
(* Vacations, their bonus, and the profit of the year.                      *)

VacationDays(y) == IF y < 1 THEN 0 ELSE 15 + Lesser(y - 1, 15)
BonusVacationDays(y) == Lesser(15 + Greater(y - 1, 0), 30)

\* A year that is over has a period: the days of it that were enjoyed, and
\* whether its bonus was paid.
LeavePeriod == [taken : Nat, paid : BOOLEAN]

\* pendingValue, pendingBonusValue: what the years that are over still give.  A
\* period that somebody has begun to enjoy is "disfrutando" and not listed.
PendingDays(y, p) ==
  (IF p.taken = 0 THEN VacationDays(y) ELSE 0)
    + (IF p.paid THEN 0 ELSE BonusVacationDays(y))

PendingLeave(periods) ==
  SumFunction([y \in DOMAIN periods |-> PendingDays(y, periods[y]) * Daily * Day])

\* The share of so many days a year that m months give, in hundredths of a day:
\* toFixed(2).  It is a number of thirds, never half way between two.
Share(days, m) == (25 * days * m + 1) \div 3

\* Mutant of LeaveFraction: on the basis of the years that are over.
LeaveFractionOfPast(t) ==
  (Share(VacationDays(Years(t)), Remainder(t))
     + Share(BonusVacationDays(Years(t)), Remainder(t))) * Hundredth * Daily

\* The months of the year in progress, on its own basis: vacation and bonus are
\* rounded each by itself.
LeaveFraction(t) ==
  (Share(VacationDays(Years(t) + 1), Remainder(t))
     + Share(BonusVacationDays(Years(t) + 1), Remainder(t))) * Hundredth * Daily

\* Thirty days a year, for the months worked in this one.
ProfitFraction(months) == 250 * Hundredth * Lesser(months, 12) * Daily

-----------------------------------------------------------------------------
(* A settlement, and its interest.                                          *)

Item(code, amount) == [code |-> code, amount |-> amount]
Owed(code, amount) == IF amount > 0 THEN << Item(code, amount) >> ELSE << >>

\* preview: what is owed, in the order it is written.  bound: no interest on
\* the guarantee, and a service that began in January.
Due(t, deposited, periods, indemnity) ==
  << Item("severance", Severance(t, deposited)) >>
    \o Owed("pending leave", IF Years(t) = 0 THEN 0 ELSE PendingLeave(periods))
    \o Owed("leave", LeaveFraction(t))
    \o Owed("profit", ProfitFraction(Remainder(t)))
    \o (IF indemnity THEN << Item("indemnity", Severance(t, deposited)) >> ELSE << >>)

Total(items) == SumFunction([i \in DOMAIN items |-> items[i].amount])

\* An advance is taken whole; a debt up to half of what then remains.
Draft(due, advances, debt) ==
  LET net == due \o (IF advances > 0 THEN << Item("advance", -advances) >> ELSE << >>)
      half == Total(net) \div 2
      taken == Lesser(debt, half)
  IN net \o (IF debt > 0 /\ taken > 0 THEN << Item("debt", -taken) >> ELSE << >>)

\* The rate in force on a date is the last one that began.
RateAt(d) ==
  LET begun == {i \in DOMAIN Rates : Rates[i].from <= d}
  IN Rates[Max(begun)].rate

\* calculate: from the end of the days of grace to the payment, cut where the
\* rate changes; each segment at the rate of its first day.
Segments(from, to) ==
  {from} \cup {d \in {Rates[i].from : i \in DOMAIN Rates} : from < d /\ d < to}

Mora(debt, from, to) ==
  LET cuts == Segments(from, to)
      end(d) == Min({c \in cuts : c > d} \cup {to})
  IN IF to <= from THEN 0
     ELSE SumFunction([d \in cuts |-> debt * RateAt(d) * (end(d) - d)])

\* Interest by the day, which the segments must come to.
MoraByDay(debt, from, to) ==
  SumFunction([d \in from .. (to - 1) |-> debt * RateAt(d)])

=============================================================================
