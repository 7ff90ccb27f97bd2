SPECIFICATION Spec
CONSTANTS
  k1 = k1
  k2 = k2
  r1 = r1
  r2 = r2
  t1 = t1
  t2 = t2
  h1 = h1
  h2 = h2
  None = None
  Keys = {k1, k2}
  Rounds = {r1}
  Txs = {t1, t2}
  Ledger <- RaceLedger
  Claims = {}
  Handlers = {h1}
  PageLimit = 1
  Allowed = {}
INVARIANTS HistoryIsRecorded
