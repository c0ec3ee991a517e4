\* Two requests at once over two tenants to be, with one code and two branches.
SPECIFICATION TenantSpec
CONSTANTS
  s1 = s1
  s2 = s2
  u1 = u1
  u2 = u2
  n1 = n1
  n2 = n2
  k1 = k1
  b1 = b1
  b2 = b2
  o1 = o1
  d1 = d1
  x1 = x1
  x2 = x2
  x3 = x3
  a1 = a1
  a2 = a2
  clock = clock
  sale = sale
  expense = expense
  sheet = sheet
  bill = bill
  NoJob = NoJob
  Absent = Absent
  Session = {s1, s2}
  Uuid = {u1, u2}
  Name = {n1, n2}
  Branch = {b1, b2}
  Code = {k1}
  Order = {o1}
  Dispute = {d1}
  Invoiced = {o1}
  Quantity = {1, 2}
  Ordered = 2
  MaxTrail = 3
  Account = {a1, a2}
  Alert = {x1, x2, x3}
  Horizon = 4
  DueDay = 3
  DueAmount = 2
  Notice <- Notices
SYMMETRY SymmetricTenants
INVARIANTS TenantsBacked
PROPERTIES MainBranchKept
CHECK_DEADLOCK FALSE
