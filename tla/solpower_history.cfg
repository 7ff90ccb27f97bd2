SPECIFICATION Spec
CONSTANTS
  k1 = k1
  s1 = s1
  s2 = s2
  cron1 = cron1
  j1 = j1
  Keys = {k1}
  Stakes = {s1}
  Owner <- OneOwner
  Whitelisted = {s1}
  Cron = cron1
  Jobs = {j1}
  PageSize = 1
  Take = 1
  MaxEpoch = 3
  FirstEpoch = 2
  MaxCalls = 1
  MaxFailures = 1
INVARIANTS KnownHistoryIsSaved
