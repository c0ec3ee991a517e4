SPECIFICATION Spec
CONSTANTS
  s1 = s1
  s2 = s2
  g1 = g1
  g2 = g2
  g3 = g3
  v1 = v1
  v2 = v2
  Session = {s1, s2}
  NoJob = NoJob
  Group = {g1, g2, g3}
  Sku = {v1, v2}
  Sorted = {g1}
  Root = Root
  Absent = Absent
SYMMETRY Symmetric
INVARIANTS MappedBySku
CHECK_DEADLOCK FALSE
