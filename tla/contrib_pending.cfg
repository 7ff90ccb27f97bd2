SPECIFICATION LiveSpec
CONSTANTS
  k1 = k1
  k2 = k2
  r1 = r1
  t1 = t1
  t2 = t2
  h1 = h1
  h2 = h2
  None = None
  Keys = {k1, k2}
  Rounds = {r1}
  Txs = {t1}
  Ledger <- SmallLedger
  Claims = {}
  Handlers = {h1}
  PageLimit = 1
  MaxFailures = 0
  Allowed <- Everyone
PROPERTIES ScannedIsSettled
