SPECIFICATION Spec
CONSTANTS
  k1 = k1
  s1 = s1
  s2 = s2
  cron1 = cron1
  j1 = j1
  Keys = {k1}
  Stakes = {s1}
  Owner <- OneOwner
  Whitelisted = {s1}
  Cron = cron1
  Jobs = {j1}
  PageSize = 2
  Take = 1
  MaxEpoch = 4
  FirstEpoch = 3
  MaxCalls = 0
  MaxFailures = 2
INVARIANTS TypeOK PowerIsRight KnownSumHasEpoch
