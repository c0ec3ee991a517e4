\* Two sessions, two requests each, over the stocked shelves of a depot and a branch.
SPECIFICATION MCSpec
CONSTANTS
  depot = depot
  branch = branch
  unit = unit
  pack = pack
  l1 = l1
  l2 = l2
  d1 = d1
  p1 = p1
  p2 = p2
  p3 = p3
  Warehouse <- MCWarehouses
  Variant <- MCVariants
  Lot = {l1}
  Proc = {p1, p2}
  Absent = Absent
  Nobody = Nobody
  NoJob = NoJob
  Branch = {branch}
  Composite = {pack}
  Parts <- MCParts
  Parents <- MCParents
  Leaves <- MCLeaves
  Request = {}
  RequestOf <- NoRequests
  Report = {}
  ReportOf <- NoReports
  Job <- CounterJobs
  MaxJobs = 2
  Opening <- StockedShop
INVARIANTS NoNegativeStock NothingLost LogCoversStock LogFollowsStock
PROPERTIES EveryRequestEnds SellsWhole
