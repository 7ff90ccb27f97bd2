SPECIFICATION LiveSpec
CONSTANTS
  r1 = r1
  k1 = k1
  k2 = k2
  k3 = k3
  u1 = u1
  Rounds = {r1}
  ByAmount = {r1}
  Target <- NoTarget
  Ticks = {k1, k2, k3}
  Updates = {u1}
  MaxAmount = 1
INVARIANTS TypeOK
PROPERTIES ForwardUnlessOverlapped RoundsClose FullRoundsClose
