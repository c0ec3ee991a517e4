CONSTANTS
  s1 = s1
  s2 = s2
  c1 = c1
  c2 = c2
  Session = {s1, s2}
  Id = {1, 2, 3, 4}
  Slot = {1}
  Due = 4
  Slack = 1
  Upfront = {0, 2, 4}
  Payment = {2}
  Correction = {1}
  Credit = {c1}
  Original <- CreditAmounts
  NoCredit = NoCredit
  HasTrigger = TRUE
  Legacy = {TRUE, FALSE}
  MayFail = TRUE
  Nobody = Nobody
SPECIFICATION SaleSpec
SYMMETRY Symmetric
INVARIANTS
  BooksAgree
  AccountShown
  GoodsFollowPayment
