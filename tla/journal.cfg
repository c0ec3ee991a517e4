SPECIFICATION Spec
CONSTANTS
  s1 = s1
  s2 = s2
  d1 = d1
  d2 = d2
  c1 = c1
  c2 = c2
  c3 = c3
  Session = {s1, s2}
  NoJob = NoJob
  Document = {d1, d2}
  Paper <- MCPaper
  Tried <- MCTried
  Copy = {c1, c2, c3}
  Chart = Chart
  Numbering = Numbering
  Period = Period
  Absent = Absent
  Rate = 15
  Unit = 10
  Few = 2
SYMMETRY Symmetric
INVARIANTS EntriesPlaced OnceOnly NeverRefused
CHECK_DEADLOCK FALSE
