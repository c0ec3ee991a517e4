SPECIFICATION OrderSpec
CONSTANTS
  s1 = s1
  s2 = s2
  c1 = c1
  c2 = c2
  Session = {s1, s2}
  Slot = {1, 2, 3}
  Id = {1}
  Due = 4
  Slack = 1
  Payment = {1, 3}
  Correction = {1, 2}
  Credit = {c1, c2}
  Upfront = {0}
  HasTrigger = TRUE
  Legacy = {FALSE}
  MayFail = TRUE
  Original <- CreditAmounts
  NoCredit = NoCredit
  Nobody = Nobody
SYMMETRY Symmetric
INVARIANTS CreditConserved PayableAgrees
PROPERTIES CreditFits
