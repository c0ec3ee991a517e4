\* Two sessions in each of five parts.
SPECIFICATION Spec
CONSTANTS
  s1 = s1
  s2 = s2
  x1 = x1
  x2 = x2
  p1 = p1
  p2 = p2
  t1 = t1
  l1 = l1
  l2 = l2
  l3 = l3
  d1 = d1
  d2 = d2
  NoJob = NoJob
  Absent = Absent
  None = None
  Same = Same
  Gone = Gone
  Invoice = Invoice
  Sale = Sale
  Score = Score
  Rate = Rate
  Rule = Rule
  Session = {s1, s2}
  Shift = {t1}
  Ticket = {x1, x2}
  Slip = {p1, p2}
  Terms <- MCTerms
  TicketPrice = 2
  Start = 1
  Line = {l1, l2}
  Sold <- MCPieces
  LinePrice <- MCPrices
  Note = {x1, x2}
  NoteAmount = {3}
  Slack = 1
  DollarRate = 2
  MaxReturned = 1
  Promo = {x1}
  Change <- MCChanges
  MaxUnits = 5
  UnitPrice = {2, 5}
  Dimension = {d1, d2}
  Group = {l1, l2, l3}
  DimensionOf <- MCKinds
  Threshold = {1, 2}
  Program = {x1, x2}
  Earning <- MCEarnings
  Collection = {l1, l2, l3}
  Collected <- MCCollected
  Currency = "VES"
  ExchangeRate = {2, 5}
SYMMETRY Symmetric
INVARIANTS PaidInFull SaleAddsUp NotesBacked PromotionsKept RoyaltiesKept PointsGranted
PROPERTIES ShiftCloses VerifiedCompletes
CHECK_DEADLOCK FALSE
