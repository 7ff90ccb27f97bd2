SPECIFICATION Spec
CONSTANTS
  k1 = k1
  k2 = k2
  r1 = r1
  r2 = r2
  t1 = t1
  t2 = t2
  h1 = h1
  h2 = h2
  None = None
  Keys = {k1, k2}
  Rounds = {r1, r2}
  Txs = {t1, t2}
  Ledger <- PayersLedger
  Claims <- PayersClaims
  Handlers = {h1, h2}
  PageLimit = 1
  Allowed = {}
SYMMETRY HandlerSymmetry
INVARIANTS  ScanIsComplete
PROPERTIES StatusKeepsPromise
