SPECIFICATION LiveSpec
CONSTANTS
  p1 = p1
  p2 = p2
  j1 = j1
  j2 = j2
  j3 = j3
  q1 = q1
  q2 = q2
  q3 = q3
  Projects = {p1}
  Jobs = {j1, j2, j3}
  Passes = {q1, q2, q3}
  MaxBusy = 1
  Concurrency = 1
  Retries = 1
  MaxSupply = 2
  MaxFaults = 2
INVARIANTS TypeOK
PROPERTIES NewerUnlessOverlapped SupplySettles BootEnds
