SPECIFICATION LiveSpec
CONSTANTS
  k1 = k1
  k2 = k2
  r1 = r1
  t1 = t1
  t2 = t2
  h1 = h1
  h2 = h2
  None = None
  Keys = {k1, k2}
  Rounds = {r1}
  Txs = {t1}
  Ledger <- SmallLedger
  Claims <- SmallClaims
  Handlers = {h1, h2}
  PageLimit = 1
  MaxFailures = 1
  Allowed <- Everyone
PROPERTIES HandlersFinish CollectedConverges
