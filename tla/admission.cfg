SPECIFICATION Spec
CONSTANTS
  k1 = k1
  k2 = k2
  q1 = q1
  q2 = q2
  Keys = {k1, k2}
  Clients = {q1, q2}
  RoundPendingConcurrency = 0
  MaxAmount = 2
  Listed = {k1}
  Terms <- FourTerms
  MaxRows = 2
  MaxChanges = 2
SYMMETRY ClientSymmetry
INVARIANTS TypeOK PendingBounded
PROPERTIES RightUnlessMoved
