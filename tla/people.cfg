SPECIFICATION Spec
CONSTANTS
  s1 = s1
  s2 = s2
  e1 = e1
  e2 = e2
  x1 = x1
  x2 = x2
  x3 = x3
  NoJob = NoJob
  Absent = Absent
  Period = Period
  Session = {s1, s2}
  Sheet = {p1}
  Horizon = 240
  Leaving = {2, 12}
  Extra = {1, 2}
  Ordinary = 8
  MaxDaily = 10
  MaxWeekly = 3
  MaxYearly = 4
  Clock = {1, 2}
SYMMETRY Symmetric
INVARIANTS DebtAddsUp SettlementAddsUp HoursBounded SharesAddUp
PROPERTIES SheetClosesOnce BenefitsAccrue ProfitStands
CHECK_DEADLOCK FALSE
