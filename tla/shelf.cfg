\* The endpoints of single rows, purchases and documents; shelves of one lot, with room for two.
SPECIFICATION Spec
CONSTANTS
  depot = depot
  branch = branch
  unit = unit
  pack = pack
  l1 = l1
  l2 = l2
  d1 = d1
  p1 = p1
  p2 = p2
  p3 = p3
  Warehouse <- MCWarehouses
  Variant <- MCVariants
  Lot = {l1, l2}
  Proc = {p1, p2}
  Absent = Absent
  Nobody = Nobody
  NoJob = NoJob
  Branch = {branch}
  Composite = {pack}
  Parts <- MCParts
  Parents <- MCParents
  Leaves <- MCLeaves
  Request = {d1}
  RequestOf <- OneTransfer
  Report = {d1}
  ReportOf <- OneReport
  Job <- DeskJobs
  MaxJobs = 2
  Opening <- NoPacks
INVARIANTS LogNeverAhead ApprovedWasMoved
